----------------------------- MODULE ProductProofs -----------------------------
(***************************************************************************)
(* The long multiplication, for operands of any length.                    *)
(*                                                                         *)
(* The accumulator never overflows: what must be known between two         *)
(* resolutions is how many rows an item can have been given; during one,   *)
(* which items are already reduced, and what the two above the item in     *)
(* hand have been handed.                                                  *)
(*                                                                         *)
(* The product is exact: at every step the accumulator, carries and all,   *)
(* stands for the multiplicand times the items of the multiplier whose     *)
(* rows were added (on the short path, the Units of the product do), and   *)
(* taking the items apart keeps what they stand for.  The columns on paper *)
(* stand for the same number, and a number has one row of Units.           *)
(***************************************************************************)
EXTENDS LongMultiplication, UnitProofs, SequenceTheorems, TLAPS

----------------------------------------------------------------------------
(* Coefficients in items.                                                  *)

\* What each Unit counts in an item: one, and UnitBase times the one below.
LEMMA PowersUnfold ==
  /\ powers \in [0..perItem -> Nat]
  /\ powers[0] = 1
  /\ \A i \in 1..perItem : powers[i] = UnitBase * powers[i - 1]
<1> DEFINE n == perItem
           S == Nat
           base == 1
           Val(s, i) == UnitBase * s
           Eq(f) == f = [ i \in 0..n |-> IF i = 0 THEN base ELSE Val(f[i - 1], i) ]
           step == [ x \in S \X (1..n) |-> Val(x[1], x[2]) ]
           g == powers
<1>1. n \in Nat /\ base \in S
  BY FastAssumption
<1>2. ASSUME NEW s \in S, NEW i \in 1..n PROVE Val(s, i) \in S
  BY <1>2, UnitFacts
<1>3. \A s \in S, i \in 1..n : step[<<s, i>>] = Val(s, i)
  OBVIOUS
<1>4. g = CHOOSE f : Eq(f)
  BY DEF powers
<1> HIDE DEF step, n, base, Val, S, g
<1>5. PICK f : Solves(f, S, base, n, step)
  <2>1. Steps(step, S, n)
    BY <1>2, <1>3 DEF Steps
  <2> QED BY <1>1, <2>1, Recursion
<1>6. Eq(f)
  <2>1. ASSUME NEW i \in 0..n, i # 0 PROVE f[i] = Val(f[i - 1], i)
    <3>1. i \in 1..n /\ f[i - 1] \in S
      BY <1>1, <1>5, <2>1 DEF Solves
    <3> QED BY <1>3, <1>5, <3>1 DEF Solves
  <2> QED BY <1>5, <2>1 DEF Solves
<1>7. Eq(g)
  BY <1>4, <1>6
<1>8. g[0] = base /\ \A i \in 1..n : g[i] = Val(g[i - 1], i)
  BY <1>1, <1>7
<1>9. g = [ i \in 0..n |-> g[i] ]
  BY <1>7
<1> HIDE DEF Eq
<1>10. g \in [0..n -> S]
  <2>1. g[0] \in S
    BY <1>1, <1>8
  <2>2. ASSUME NEW i \in 1..n, g[i - 1] \in S PROVE g[i] \in S
    BY <1>2, <1>8, <2>2
  <2> QED BY <1>1, <1>9, <2>1, <2>2, Typed
<1> QED BY <1>8, <1>10 DEF g, n, base, Val, S

\* What the Units of an item count, and an item as a whole.
LEMMA PowersOfItem ==
  /\ perItem \in Nat /\ perItem >= 1
  /\ Powers(UnitBase, powers, perItem)
  /\ FASTBASE = powers[perItem]
  /\ FASTBASE \in Nat /\ FASTBASE > 1
<1>1. perItem \in Nat /\ perItem >= 1 /\ FASTBASE = powers[perItem]
  BY FastAssumption
<1> DEFINE step == [ x \in Nat \X (1..perItem) |-> UnitBase * x[1] ]
<1>2. \A i \in 1..perItem : powers[i] = step[<<powers[i - 1], i>>]
  <2> TAKE i \in 1..perItem
  <2>1. powers[i - 1] \in Nat
    <3>1. i - 1 \in 0..perItem
      BY <1>1
    <3> QED BY <3>1, PowersUnfold
  <2> QED BY <2>1, PowersUnfold
<1>3. Powers(UnitBase, powers, perItem)
  BY <1>2, PowersUnfold DEF Powers, Solves
<1>4. /\ \A i \in 0..perItem : powers[i] \in Nat /\ powers[i] > 0
      /\ \A i \in 1..perItem : powers[i] = UnitBase * powers[i - 1]
  BY <1>1, <1>3, UnitFacts, PowerFacts
<1>5. FASTBASE \in Nat /\ FASTBASE > 1
  <2>1. perItem - 1 \in 0..perItem /\ perItem \in 1..perItem
    BY <1>1
  <2>2. FASTBASE = UnitBase * powers[perItem - 1]
    BY <1>1, <1>4, <2>1
  <2>3. powers[perItem - 1] \in Nat /\ powers[perItem - 1] >= 1
    BY <1>4, <2>1
  <2>4. UnitBase * powers[perItem - 1] \in Nat
    BY <2>3, UnitFacts
  <2>5. UnitBase * powers[perItem - 1] >= 10
    <3>1. (UnitBase - 1) * powers[perItem - 1] >= UnitBase - 1
      BY <2>3, UnitFacts
    <3>2. UnitBase * powers[perItem - 1]
            = (UnitBase - 1) * powers[perItem - 1] + powers[perItem - 1]
      BY <2>3, UnitFacts
    <3>3. (UnitBase - 1) * powers[perItem - 1] \in Nat
      BY <2>3, UnitFacts
    <3> QED BY <2>3, <3>1, <3>2, <3>3, UnitFacts
  <2> QED BY <2>2, <2>4, <2>5
<1> QED BY <1>1, <1>3, <1>5

\* Assembling an item, Unit by Unit.
LEMMA ItemSumsUnfold ==
  ASSUME NEW units \in Arrays, NEW at \in Nat \ {0}
  PROVE  /\ ItemSums(units, at) \in [0..perItem -> Nat]
         /\ ItemSums(units, at)[0] = 0
         /\ \A i \in 1..perItem :
              ItemSums(units, at)[i]
                = ItemSums(units, at)[i - 1] + UnitAt(units, (at - 1) * perItem + i) * powers[i - 1]
<1> DEFINE n == perItem
           S == Nat
           base == 0
           Val(s, i) == s + UnitAt(units, (at - 1) * perItem + i) * powers[i - 1]
           Eq(f) == f = [ i \in 0..n |-> IF i = 0 THEN base ELSE Val(f[i - 1], i) ]
           step == [ x \in S \X (1..n) |-> Val(x[1], x[2]) ]
           g == ItemSums(units, at)
<1>1. n \in Nat /\ base \in S
  BY PowersOfItem
<1>2. ASSUME NEW s \in S, NEW i \in 1..n PROVE Val(s, i) \in S
  <2>1. powers[i - 1] \in Nat
    <3>1. i - 1 \in 0..perItem
      BY <1>1
    <3> QED BY <3>1, PowersUnfold
  <2>2. UnitAt(units, (at - 1) * perItem + i) \in Nat
    <3>1. (at - 1) * perItem \in Nat
      BY PowersOfItem
    <3>2. (at - 1) * perItem + i \in Nat /\ (at - 1) * perItem + i # 0
      BY <3>1
    <3> QED BY <3>2, UnitFacts, HornerStep
  <2>3. UnitAt(units, (at - 1) * perItem + i) * powers[i - 1] \in Nat
    BY <2>1, <2>2
  <2> QED BY <2>3
<1>3. \A s \in S, i \in 1..n : step[<<s, i>>] = Val(s, i)
  OBVIOUS
<1>4. g = CHOOSE f : Eq(f)
  BY DEF ItemSums
<1> HIDE DEF step, n, base, Val, S, g
<1>5. PICK f : Solves(f, S, base, n, step)
  <2>1. Steps(step, S, n)
    BY <1>2, <1>3 DEF Steps
  <2> QED BY <1>1, <2>1, Recursion
<1>6. Eq(f)
  <2>1. ASSUME NEW i \in 0..n, i # 0 PROVE f[i] = Val(f[i - 1], i)
    <3>1. i \in 1..n /\ f[i - 1] \in S
      BY <1>1, <1>5, <2>1 DEF Solves
    <3> QED BY <1>3, <1>5, <3>1 DEF Solves
  <2> QED BY <1>5, <2>1 DEF Solves
<1>7. Eq(g)
  BY <1>4, <1>6
<1>8. g[0] = base /\ \A i \in 1..n : g[i] = Val(g[i - 1], i)
  BY <1>1, <1>7
<1>9. g = [ i \in 0..n |-> g[i] ]
  BY <1>7
<1> HIDE DEF Eq
<1>10. g \in [0..n -> S]
  <2>1. g[0] \in S
    BY <1>1, <1>8
  <2>2. ASSUME NEW i \in 1..n, g[i - 1] \in S PROVE g[i] \in S
    BY <1>2, <1>8, <2>2
  <2> QED BY <1>1, <1>9, <2>1, <2>2, Typed
<1> QED BY <1>8, <1>10 DEF g, n, base, Val, S

\* What is assembled of an item, and what the Units above that stand for.
LEMMA ItemSumIs ==
  ASSUME NEW units \in Arrays, NEW at \in Nat \ {0}, NEW q \in 0..perItem
  PROVE  Horner(UnitBase, units, (at - 1) * perItem + 1)
           = ItemSums(units, at)[q]
               + powers[q] * Horner(UnitBase, units, (at - 1) * perItem + q + 1)
<1> DEFINE first == (at - 1) * perItem
           sum == ItemSums(units, at)
           H(k) == Horner(UnitBase, units, k)
           T == { p \in 0..perItem : H(first + 1) # sum[p] + powers[p] * H(first + p + 1) }
<1>1. /\ perItem \in Nat /\ first \in Nat /\ UnitBase \in Nat /\ UnitBase >= 1
      /\ units \in Arrays
  BY PowersOfItem, UnitFacts
<1> HIDE DEF first
<1>2. /\ powers[0] = 1
      /\ \A p \in 0..perItem : powers[p] \in Nat
      /\ \A p \in 1..perItem : powers[p] = UnitBase * powers[p - 1]
  BY PowersUnfold
<1>3. /\ sum[0] = 0
      /\ \A p \in 0..perItem : sum[p] \in Nat
      /\ \A p \in 1..perItem : sum[p] = sum[p - 1] + UnitAt(units, first + p) * powers[p - 1]
  BY ItemSumsUnfold DEF first
<1> HIDE DEF sum
<1>4. 0 \notin T
  <2>1. first + 1 \in Nat /\ first + 1 # 0 /\ first + 0 + 1 = first + 1
    BY <1>1
  <2>2. H(first + 1) \in Nat
    BY <1>1, <2>1, HornerStep
  <2>3. H(first + 1) = 0 + 1 * H(first + 0 + 1)
    BY <2>1, <2>2
  <2> QED BY <1>2, <1>3, <2>3
<1>5. ASSUME NEW p \in 1..perItem, p - 1 \notin T PROVE p \notin T
  <2>1. /\ p - 1 \in 0..perItem /\ first + (p - 1) + 1 = first + p
        /\ first + p \in Nat /\ first + p # 0 /\ (first + p) + 1 = first + p + 1
        /\ first + p + 1 \in Nat /\ first + p + 1 # 0
    BY <1>1
  <2> DEFINE unit == UnitAt(units, first + p)
             high == H(first + p + 1)
             size == powers[p - 1]
             low == sum[p - 1]
             all == H(first + 1)
  <2>2. all = low + size * H(first + p)
    BY <1>5, <2>1
  <2>3. H(first + p) = unit + UnitBase * high /\ unit \in Nat
    BY <1>1, <2>1, HornerStep
  <2>4. high \in Nat /\ size \in Nat /\ low \in Nat
    BY <1>1, <1>2, <1>3, <2>1, HornerStep
  <2>5. powers[p] = UnitBase * size /\ sum[p] = low + unit * size
    BY <1>2, <1>3
  <2>6. all = low + size * (unit + UnitBase * high)
    BY <2>2, <2>3
  <2> HIDE DEF unit, high, size, low, all
  <2>7. size * (unit + UnitBase * high) = unit * size + (UnitBase * size) * high
    BY <1>1, <2>3, <2>4
  <2>8. unit * size \in Nat /\ (UnitBase * size) * high \in Nat
    BY <1>1, <2>3, <2>4
  <2>9. all = sum[p] + powers[p] * high
    BY <2>4, <2>5, <2>6, <2>7, <2>8
  <2> QED BY <2>9 DEF all, high
<1>6. T \subseteq 0..perItem /\ (q \notin T => H(first + 1) = sum[q] + powers[q] * H(first + q + 1))
  OBVIOUS
<1> HIDE DEF T
<1>7. T = {}
  BY <1>1, <1>4, <1>5, <1>6, Ascent
<1> QED BY <1>6, <1>7 DEF first, sum

\* Units that hold digits make an item below FASTBASE.
LEMMA ItemSumFits ==
  ASSUME NEW units \in Units, NEW at \in Nat \ {0}
  PROVE  ItemSums(units, at)[perItem] \in 0..(FASTBASE - 1)
<1> DEFINE first == (at - 1) * perItem
           sum == ItemSums(units, at)
           T == { p \in 0..perItem : ~(sum[p] < powers[p]) }
<1>1. perItem \in Nat /\ UnitBase \in Nat /\ FASTBASE = powers[perItem] /\ units \in Arrays
  BY PowersOfItem, UnitFacts, UnitsAreNatural
<1>2. /\ powers[0] = 1
      /\ \A p \in 0..perItem : powers[p] \in Nat
      /\ \A p \in 1..perItem : powers[p] = UnitBase * powers[p - 1]
  BY PowersUnfold
<1>3. /\ sum[0] = 0
      /\ \A p \in 0..perItem : sum[p] \in Nat
      /\ \A p \in 1..perItem : sum[p] = sum[p - 1] + UnitAt(units, first + p) * powers[p - 1]
  BY <1>1, ItemSumsUnfold
<1>4. first \in Nat
  BY <1>1
<1> HIDE DEF sum, first
<1>5. 0 \notin T
  BY <1>2, <1>3
<1>6. ASSUME NEW p \in 1..perItem, p - 1 \notin T PROVE p \notin T
  <2> DEFINE unit == UnitAt(units, first + p)
             size == powers[p - 1]
             low == sum[p - 1]
  <2>1. p - 1 \in 0..perItem /\ first + p \in Int
    BY <1>1, <1>4
  <2>2. low < size /\ low \in Nat /\ size \in Nat
    BY <1>2, <1>3, <1>6, <2>1
  <2>3. unit \in Nat /\ unit <= UnitBase - 1
    <3>1. unit \in Unit
      BY <2>1, UnitsAreNatural
    <3> QED BY <1>1, <3>1 DEF Unit
  <2>4. powers[p] = UnitBase * size /\ sum[p] = low + unit * size
    BY <1>2, <1>3
  <2> HIDE DEF unit, size, low
  <2>5. unit * size <= (UnitBase - 1) * size /\ unit * size \in Nat
    BY <1>1, <2>2, <2>3
  <2>6. (UnitBase - 1) * size = UnitBase * size - size /\ UnitBase * size \in Nat
    BY <1>1, <2>2
  <2>7. sum[p] < powers[p]
    BY <2>2, <2>4, <2>5, <2>6
  <2> QED BY <2>7
<1>7. T \subseteq 0..perItem /\ perItem \in 0..perItem /\ (perItem \notin T => sum[perItem] < powers[perItem])
  BY <1>1
<1> HIDE DEF T
<1>8. T = {}
  BY <1>1, <1>5, <1>6, <1>7, Ascent
<1>9. sum[perItem] \in Nat /\ sum[perItem] < FASTBASE
  BY <1>1, <1>3, <1>7, <1>8
<1> QED BY <1>9, PowersOfItem DEF sum

\* The items of a coefficient: at least one, enough for its Units, below FASTBASE.
LEMMA ItemsFacts ==
  ASSUME NEW units \in Units \ {<< >>}
  PROVE  /\ Items(units) \in Seq(0..(FASTBASE - 1)) \ {<< >>}
         /\ Items(units) \in Arrays
         /\ Len(Items(units)) \in Nat /\ Len(Items(units)) >= 1
         /\ Len(Items(units)) * perItem >= Len(units)
         /\ \A i \in 1..Len(Items(units)) :
              /\ Items(units)[i] = ItemSums(units, i)[perItem]
              /\ Items(units)[i] \in 0..(FASTBASE - 1)
<1> DEFINE n == (Len(units) + perItem - 1) \div perItem
<1>1. units \in Units /\ Len(units) \in Nat /\ Len(units) >= 1
  <2>1. units \in Seq(Unit) /\ units # << >>
    BY DEF Units
  <2>2. Len(units) \in Nat /\ Len(units) # 0
    BY <2>1
  <2> QED BY <2>1, <2>2 DEF Units
<1>2. perItem \in Nat /\ perItem >= 1 /\ FASTBASE \in Nat
  BY PowersOfItem
<1>3. n \in Nat /\ n >= 1 /\ n * perItem >= Len(units)
  <2> DEFINE l == Len(units) + perItem - 1
  <2>1. l \in Nat /\ l >= perItem /\ l = Len(units) + perItem - 1 /\ n = l \div perItem
    BY <1>1, <1>2
  <2> HIDE DEF l, n
  <2>2. n \in Nat /\ n * perItem <= l /\ l < n * perItem + perItem
    BY <1>2, <2>1
  <2>3. n # 0
    BY <1>2, <2>1, <2>2
  <2>4. n * perItem \in Nat
    BY <1>2, <2>2
  <2> QED BY <1>1, <1>2, <2>1, <2>2, <2>3, <2>4
<1>4. Items(units) = [ i \in 1..n |-> ItemSums(units, i)[perItem] ]
  BY DEF Items
<1> HIDE DEF n
<1>5. \A i \in 1..n : ItemSums(units, i)[perItem] \in 0..(FASTBASE - 1)
  <2> TAKE i \in 1..n
  <2>1. i \in Nat \ {0}
    BY <1>3
  <2> QED BY <1>1, <2>1, ItemSumFits
<1>6. Items(units) \in Seq(0..(FASTBASE - 1)) /\ Len(Items(units)) = n
  BY <1>3, <1>4, <1>5
<1>7. Items(units) # << >>
  BY <1>3, <1>6
<1>8. Items(units) \in Arrays
  <2>1. \A i \in 1..n : ItemSums(units, i)[perItem] \in Nat
    BY <1>2, <1>5
  <2>2. Items(units) \in Seq(Nat)
    BY <1>3, <1>4, <2>1
  <2> QED BY <2>2 DEF Arrays
<1> QED BY <1>3, <1>4, <1>5, <1>6, <1>7, <1>8

\* What an array of items stands for.
Amount(items) == Horner(FASTBASE, items, 1)

\* Regrouped into items, Units stand for the same number.
LEMMA ItemsAmount ==
  ASSUME NEW units \in Units \ {<< >>}
  PROVE  Amount(Items(units)) = Value(units)
<1> DEFINE z == Items(units)
           n == Len(z)
           E == [ i \in 1..(n + 1) |-> Horner(UnitBase, units, (i - 1) * perItem + 1) ]
<1>1. /\ z \in Arrays /\ n \in Nat /\ n >= 1 /\ n * perItem >= Len(units)
      /\ \A i \in 1..n : z[i] = ItemSums(units, i)[perItem]
  BY ItemsFacts
<1>2. units \in Arrays /\ Len(units) \in Nat
  <2>1. units \in Units
    OBVIOUS
  <2> QED BY <2>1, UnitsAreNatural
<1>3. /\ perItem \in Nat /\ perItem >= 1 /\ FASTBASE \in Nat /\ FASTBASE >= 1
      /\ FASTBASE = powers[perItem] /\ UnitBase \in Nat /\ UnitBase >= 1
  BY PowersOfItem, UnitFacts
<1> HIDE DEF z
<1>4. \A i \in 1..(n + 1) : (i - 1) * perItem + 1 \in Nat /\ (i - 1) * perItem + 1 # 0
  <2> TAKE i \in 1..(n + 1)
  <2>1. i - 1 \in Nat
    BY <1>1
  <2>2. (i - 1) * perItem \in Nat
    BY <1>3, <2>1
  <2> QED BY <2>2
<1>5. E \in [1..(n + 1) -> Int]
  <2>1. ASSUME NEW i \in 1..(n + 1)
        PROVE  Horner(UnitBase, units, (i - 1) * perItem + 1) \in Int
    <3>1. (i - 1) * perItem + 1 \in Nat /\ (i - 1) * perItem + 1 # 0
      BY <1>4
    <3> HIDE DEF E
    <3>2. Horner(UnitBase, units, (i - 1) * perItem + 1) \in Nat
      BY <1>2, <1>3, <3>1, HornerStep
    <3> QED BY <3>2
  <2> QED BY <2>1
<1>6. E[n + 1] = 0
  <2>1. n + 1 \in 1..(n + 1) /\ ((n + 1) - 1) * perItem + 1 = n * perItem + 1
    BY <1>1
  <2>2. n * perItem \in Nat
    BY <1>1, <1>3
  <2>3. n * perItem + 1 \in Nat /\ n * perItem + 1 # 0 /\ n * perItem + 1 > Len(units)
    BY <1>1, <1>2, <2>2
  <2>4. Horner(UnitBase, units, n * perItem + 1) = 0
    BY <1>2, <1>3, <2>3, HornerStep
  <2> QED BY <2>1, <2>4
<1>7. ASSUME NEW i \in 1..n PROVE E[i] = z[i] + FASTBASE * E[i + 1]
  <2>1. /\ i \in Nat \ {0} /\ perItem \in 0..perItem
        /\ i + 1 \in 1..(n + 1) /\ i \in 1..(n + 1)
        /\ (i - 1) * perItem + perItem + 1 = ((i + 1) - 1) * perItem + 1
    <3>1. (i - 1) * perItem = i * perItem - perItem /\ i * perItem \in Nat
      BY <1>1, <1>3
    <3> QED BY <1>1, <1>3, <3>1
  <2>2. Horner(UnitBase, units, (i - 1) * perItem + 1)
          = ItemSums(units, i)[perItem]
             + powers[perItem] * Horner(UnitBase, units, (i - 1) * perItem + perItem + 1)
    BY <1>2, <2>1, ItemSumIs
  <2> QED BY <1>1, <1>3, <2>1, <2>2
<1>8. 1 \in 1..(n + 1) /\ E[1] = Horner(UnitBase, units, 1)
  <2>1. (1 - 1) * perItem + 1 = 1
    BY <1>3
  <2> QED BY <1>1, <2>1
<1> HIDE DEF E
<1>9. E[1] = Horner(FASTBASE, z, 1)
  BY ZenonT(40), <1>1, <1>3, <1>5, <1>6, <1>7, <1>8, HornerIs
<1> QED BY <1>8, <1>9 DEF Amount, Value, ValueFrom, z

\* A factor as the proofs know it.
LEMMA FactorItems ==
  ASSUME NEW units \in Factors
  PROVE  /\ units \in Units \ {<< >>}
         /\ Items(units) \in Seq(0..(FASTBASE - 1)) \ {<< >>}
<1>1. units \in Units \ {<< >>}
  BY FactorAssumption DEF Units, Unit
<1> QED BY <1>1, ItemsFacts

----------------------------------------------------------------------------
(* The accumulator does not overflow.                                      *)
\* The largest item, the largest partial product, and the most that is in an
\* item when the carries are about to be resolved.
TopItem == FASTBASE - 1
Square == (FASTBASE - 1) * (FASTBASE - 1)
Full == FASTLAZY * Square + TopItem

\* Bound on item j while item i is being resolved.
Limit(i, j) == IF j < i THEN TopItem
               ELSE IF j = i THEN Full + TopItem + FASTLAZY
               ELSE IF j = i + 1 THEN Full + FASTLAZY
               ELSE Full

AccTypes ==
  /\ operands.lhs \in Factors /\ operands.rhs \in Factors
  /\ zacc \in Seq(Nat)
  /\ row \in Nat \ {0} /\ lazy \in Int /\ item \in Nat \ {0}
  /\ stage \in {"units", "rows", "carries", "unchunk", "multiplied"}

AccBounds ==
  /\ stage = "units" => zacc = << >>
  /\ stage \in {"rows", "carries"} => zacc # << >>
  /\ stage = "rows" =>
       /\ row \in 1..Len(zrhi) /\ lazy \in 1..FASTLAZY /\ item = 1
       /\ \A j \in 1..Len(zacc) :
            zacc[j] <= (FASTLAZY - lazy) * Square + TopItem
  /\ stage = "carries" =>
       /\ item \in 1..Len(zacc) /\ lazy = FASTLAZY
       /\ \A j \in 1..Len(zacc) : zacc[j] <= Limit(item, j)
  /\ stage \in {"unchunk", "multiplied"} =>
       \A j \in 1..Len(zacc) : zacc[j] <= TopItem

AccInv == AccTypes /\ AccBounds

\* The bounds are natural numbers, in order.
LEMMA Limits ==
  /\ TopItem \in Nat /\ Square \in Nat /\ Full \in Nat
  /\ TopItem >= 1 /\ FASTLAZY \in Nat /\ FASTLAZY >= 1
  /\ TopItem <= Full /\ AccMax \in Nat
  /\ Full + TopItem + FASTLAZY <= AccMax
<1>1. TopItem \in Nat /\ TopItem >= 1
  BY FastAssumption, PowersOfItem DEF TopItem
<1>2. Square = TopItem * TopItem
  BY DEF Square, TopItem
<1>3. Square \in Nat
  BY <1>1, <1>2
<1>4. FASTLAZY * Square \in Nat
  BY <1>3, FastAssumption, PowersOfItem
<1>5. FASTLAZY * Square + 2 * FASTBASE + FASTLAZY <= AccMax
  BY FastAssumption, PowersOfItem DEF Square
<1> QED BY <1>1, <1>3, <1>4, <1>5, FastAssumption, PowersOfItem DEF Full, TopItem

\* What a full item hands to the item two above is less than FASTLAZY + 1, to
\* the next one less than FASTBASE, and what stays is an item.
LEMMA CarryBounds ==
  ASSUME NEW n \in Nat, n <= Full + TopItem + FASTLAZY
  PROVE  /\ CarryAbove(n) \in 0..FASTLAZY
         /\ CarryNext(n) \in 0..TopItem
         /\ n - CarryAbove(n) * FASTBASE * FASTBASE - CarryNext(n) * FASTBASE
              \in 0..TopItem
<1> DEFINE B == FASTBASE
           q == n \div B
           a == q \div B
<1>1. B \in Nat /\ B > 1 /\ FASTLAZY \in Nat /\ FASTLAZY >= 1
  BY FastAssumption, PowersOfItem
<1>2. q \in Nat /\ q * B <= n /\ n < q * B + B
  BY <1>1
<1>3. a \in Nat /\ a * B <= q /\ q < a * B + B
  BY <1>1, <1>2
<1>4. a <= FASTLAZY
  <2> SUFFICES ASSUME a >= FASTLAZY + 1 PROVE FALSE
    BY <1>1, <1>3
  <2>1. (a * B) * B <= q * B
    BY <1>1, <1>2, <1>3
  <2>2. ((FASTLAZY + 1) * B) * B <= (a * B) * B
    BY <1>1, <1>3
  <2>3. ((FASTLAZY + 1) * B) * B <= n
    BY <1>1, <1>2, <1>3, <2>1, <2>2
  <2>4. n <= FASTLAZY * ((B - 1) * (B - 1)) + 2 * (B - 1) + FASTLAZY
    BY <1>1 DEF Full, TopItem, Square
  <2>5. FASTLAZY * ((B - 1) * (B - 1))
          = (FASTLAZY * B) * B - 2 * (FASTLAZY * B) + FASTLAZY
    BY <1>1
  <2>6. FASTLAZY * B >= B + FASTLAZY - 1
    <3>1. (FASTLAZY - 1) * (B - 1) >= 0
      BY <1>1
    <3> QED BY <1>1, <3>1
  <2>7. ((FASTLAZY + 1) * B) * B = (FASTLAZY * B) * B + B * B /\ B * B >= 0
    BY <1>1
  <2>8. (FASTLAZY * B) * B + B * B
          <= (FASTLAZY * B) * B - 2 * (FASTLAZY * B) + 2 * FASTLAZY + 2 * (B - 1)
    BY <1>1, <2>3, <2>4, <2>5, <2>7
  <2>9. B * B <= 0
    BY <1>1, <2>6, <2>8
  <2> QED BY <1>1, <2>9
<1>5. CarryAbove(n) = a /\ CarryNext(n) = q - a * B
  BY DEF CarryAbove, CarryNext
<1>6. n - a * B * B - (q - a * B) * B = n - q * B
  BY <1>1, <1>2, <1>3
<1> HIDE DEF q, a
<1> QED BY <1>1, <1>2, <1>3, <1>4, <1>5, <1>6 DEF TopItem

\* The items of the operands.
LEMMA OperandItems ==
  ASSUME AccTypes
  PROVE  /\ zlhi \in Seq(0..TopItem) /\ zrhi \in Seq(0..TopItem)
         /\ Len(zlhi) \in Nat /\ Len(zlhi) >= 1
         /\ Len(zrhi) \in Nat /\ Len(zrhi) >= 1
         /\ \A k \in 1..Len(zlhi) : zlhi[k] \in 0..TopItem
         /\ \A k \in 1..Len(zrhi) : zrhi[k] \in 0..TopItem
<1>1. zlhi \in Seq(0..TopItem) /\ zrhi \in Seq(0..TopItem)
  BY FactorItems DEF AccTypes, zlhi, zrhi, TopItem
<1>2. zlhi # << >> /\ zrhi # << >>
  BY FactorItems DEF AccTypes, zlhi, zrhi
<1>3. ASSUME NEW s \in Seq(0..TopItem), s # << >>
      PROVE  /\ Len(s) \in Nat /\ Len(s) >= 1
             /\ \A k \in 1..Len(s) : s[k] \in 0..TopItem
  <2>1. Len(s) \in Nat /\ Len(s) # 0
    BY <1>3
  <2>2. \A k \in 1..Len(s) : s[k] \in 0..TopItem
    BY ElementOfSeq
  <2> QED BY <2>1, <2>2
<1> QED BY <1>1, <1>2, <1>3

\* No product of an item and an item outgrows Square.
LEMMA PartialProduct ==
  ASSUME NEW x \in 0..TopItem, NEW y \in 0..TopItem
  PROVE  x * y \in 0..Square
<1>1. TopItem \in Nat /\ Square = TopItem * TopItem
  BY Limits DEF Square, TopItem
<1>2. x * y <= TopItem * TopItem /\ x * y >= 0
  BY <1>1
<1> QED BY <1>1, <1>2

\* No item is too large before the first row.
LEMMA InitBounds == MultiplyInit => AccInv
<1> SUFFICES ASSUME NEW l \in Factors, NEW r \in Factors, MultiplyStart(l, r)
             PROVE  AccInv
  BY DEF MultiplyInit
<1>1. operands.lhs \in Factors /\ operands.rhs \in Factors
  BY DEF MultiplyStart, Operands
<1>2. CASE IsFast(operands)
  <2> DEFINE n == Len(Items(operands.lhs)) + Len(Items(operands.rhs))
  <2>1. /\ Len(Items(operands.lhs)) \in Nat \ {0}
        /\ Len(Items(operands.rhs)) \in Nat \ {0}
    BY <1>1, FactorItems
  <2>2. zacc = [ i \in 1..n |-> 0 ]
    BY <1>2 DEF MultiplyStart
  <2>3. n \in Nat /\ n >= 1
    BY <2>1
  <2> HIDE DEF n
  <2>4. zacc \in Seq(Nat) /\ Len(zacc) = n /\ zacc # << >>
    BY <2>2, <2>3
  <2>5. row = 1 /\ item = 1 /\ lazy = FASTLAZY /\ stage = "rows"
    BY <1>2 DEF MultiplyStart
  <2>6. \A j \in 1..Len(zacc) : zacc[j] <= (FASTLAZY - lazy) * Square + TopItem
    <3>1. (FASTLAZY - lazy) * Square = 0
      BY <2>5, Limits
    <3>2. \A j \in 1..Len(zacc) : zacc[j] = 0
      BY <2>2, <2>4
    <3> QED BY <3>1, <3>2, Limits
  <2>7. 1 <= Len(zrhi)
    BY <2>1 DEF zrhi
  <2> QED BY <1>1, <2>1, <2>4, <2>5, <2>6, <2>7, Limits
          DEF AccInv, AccTypes, AccBounds, zrhi
<1>3. CASE ~IsFast(operands)
  <2>1. zacc = [ i \in 1..0 |-> 0 ]
    BY <1>3 DEF MultiplyStart
  <2>2. zacc = << >>
    BY <2>1
  <2>3. row = 1 /\ item = 1 /\ lazy = FASTLAZY /\ stage = "units"
    BY <1>3 DEF MultiplyStart
  <2> QED BY <1>1, <2>2, <2>3, Limits DEF AccInv, AccTypes, AccBounds
<1> QED BY <1>2, <1>3

\* A row adds at most Square to an item, and there are lazy rows left.
LEMMA AddRowBounds ==
  ASSUME AccInv, AddRow
  PROVE  AccInv'
<1> USE DEF AccInv
<1>1. /\ stage = "rows" /\ operands' = operands /\ item' = item /\ item = 1
      /\ row \in 1..Len(zrhi) /\ lazy \in 1..FASTLAZY /\ row' = row + 1
  BY DEF AddRow, AccBounds
<1>2. zlhi' = zlhi /\ zrhi' = zrhi
  BY <1>1 DEF zlhi, zrhi
<1> DEFINE part(i) == IF i - row + 1 \in 1..Len(zlhi)
                        THEN zlhi[i - row + 1] * zrhi[row] ELSE 0
<1>3. zacc' = [ i \in 1..Len(zacc) |-> zacc[i] + part(i) ]
  BY DEF AddRow
<1>4. \A i \in 1..Len(zacc) : part(i) \in 0..Square
  <2> TAKE i \in 1..Len(zacc)
  <2>1. CASE i - row + 1 \in 1..Len(zlhi)
    <3>1. zlhi[i - row + 1] \in 0..TopItem /\ zrhi[row] \in 0..TopItem
      BY <1>1, <2>1, OperandItems
    <3> QED BY <2>1, <3>1, PartialProduct
  <2>2. CASE i - row + 1 \notin 1..Len(zlhi)
    BY <2>2, Limits
  <2> QED BY <2>1, <2>2
<1> HIDE DEF part
<1>5. /\ zacc \in Seq(Nat) /\ Len(zacc) \in Nat /\ Len(zacc) >= 1
      /\ \A i \in 1..Len(zacc) :
           zacc[i] \in Nat /\ zacc[i] <= (FASTLAZY - lazy) * Square + TopItem
  BY <1>1 DEF AccTypes, AccBounds
<1>6. zacc' \in Seq(Nat) /\ Len(zacc') = Len(zacc) /\ zacc' # << >>
  <2>1. \A i \in 1..Len(zacc) : zacc[i] + part(i) \in Nat
    BY <1>4, <1>5, Limits
  <2> QED BY <1>3, <1>5, <2>1
<1>7. \A i \in 1..Len(zacc) :
        zacc'[i] <= (FASTLAZY - lazy) * Square + TopItem + Square
  BY <1>3, <1>4, <1>5, <1>1, Limits
<1>8. (FASTLAZY - lazy) * Square + Square = (FASTLAZY - (lazy - 1)) * Square
  BY <1>1, Limits
<1>9. CASE MustResolve(lazy - 1, row + 1)
  <2>1. stage' = "carries" /\ lazy' = FASTLAZY
    BY <1>9 DEF AddRow
  <2>2. (FASTLAZY - (lazy - 1)) * Square <= FASTLAZY * Square
    <3>1. FASTLAZY - (lazy - 1) <= FASTLAZY /\ FASTLAZY - (lazy - 1) \in Nat
      BY <1>1, Limits
    <3> QED BY <3>1, Limits
  <2>3. \A i \in 1..Len(zacc') : zacc'[i] <= Full
    <3> TAKE i \in 1..Len(zacc')
    <3>1. zacc'[i] <= (FASTLAZY - lazy) * Square + TopItem + Square
      BY <1>6, <1>7
    <3>2. zacc'[i] \in Nat
      BY <1>6
    <3>3. (FASTLAZY - lazy) * Square \in Int
      BY <1>1, Limits
    <3> QED BY <1>8, <2>2, <3>1, <3>2, <3>3, Limits DEF Full
  <2>4. \A i \in 1..Len(zacc') : zacc'[i] <= Limit(1, i)
    BY <1>6, <2>3, Limits DEF Limit
  <2> QED BY <1>1, <1>2, <1>5, <1>6, <2>1, <2>4, Limits DEF AccTypes, AccBounds
<1>10. CASE ~MustResolve(lazy - 1, row + 1)
  <2>1. /\ stage' = "rows" /\ lazy' = lazy - 1
        /\ lazy - 1 > 0 /\ row + 1 <= Len(zrhi)
    BY <1>1, <1>10, OperandItems DEF AddRow, MustResolve
  <2>2. \A i \in 1..Len(zacc') :
          zacc'[i] <= (FASTLAZY - (lazy - 1)) * Square + TopItem
    <3> TAKE i \in 1..Len(zacc')
    <3>1. zacc'[i] <= (FASTLAZY - lazy) * Square + TopItem + Square
      BY <1>6, <1>7
    <3>2. zacc'[i] \in Nat /\ (FASTLAZY - lazy) * Square \in Int
      BY <1>1, <1>6, Limits
    <3> QED BY <1>8, <3>1, <3>2, Limits
  <2> QED BY SMTT(30), <1>1, <1>2, <1>6, <2>1, <2>2, OperandItems, Limits
          DEF AccTypes, AccBounds
<1> QED BY <1>9, <1>10

\* Resolving an item leaves it reduced and loads the two above it.
LEMMA ResolveBounds ==
  ASSUME AccInv, ResolveItem
  PROVE  AccInv'
<1> USE DEF AccInv
<1>1. /\ stage = "carries" /\ operands' = operands /\ row' = row /\ lazy' = lazy
      /\ item \in 1..Len(zacc) /\ lazy = FASTLAZY
      /\ zacc \in Seq(Nat) /\ Len(zacc) \in Nat /\ row \in Nat \ {0}
  BY DEF ResolveItem, AccTypes, AccBounds
<1>2. zlhi' = zlhi /\ zrhi' = zrhi
  BY <1>1 DEF zlhi, zrhi
<1> DEFINE n == zacc[item]
           above == CarryAbove(n)
           next  == CarryNext(n)
           left  == n - above * FASTBASE * FASTBASE - next * FASTBASE
<1>3. zacc' = [ j \in 1..Len(zacc) |->
                  CASE j = item     -> left
                    [] j = item + 1 -> zacc[j] + next
                    [] j = item + 2 -> zacc[j] + above
                    [] OTHER        -> zacc[j] ]
  BY DEF ResolveItem, Resolve
<1>4. \A j \in 1..Len(zacc) : zacc[j] \in Nat /\ zacc[j] <= Limit(item, j)
  BY <1>1 DEF AccBounds
<1>5. above \in 0..FASTLAZY /\ next \in 0..TopItem /\ left \in 0..TopItem
  <2>1. n \in Nat /\ n <= Full + TopItem + FASTLAZY
    BY <1>1, <1>4 DEF Limit
  <2> QED BY <2>1, CarryBounds
<1> HIDE DEF above, next, left
<1>6. \A j \in 1..Len(zacc) : zacc'[j] \in Nat /\ zacc'[j] <= Limit(item + 1, j)
  <2> TAKE j \in 1..Len(zacc)
  <2>1. CASE j < item
    <3>1. zacc'[j] = zacc[j]
      BY <1>1, <1>3, <2>1
    <3>2. Limit(item, j) = TopItem /\ Limit(item + 1, j) = TopItem
      BY <1>1, <2>1 DEF Limit
    <3> QED BY <1>4, <3>1, <3>2
  <2>2. CASE j = item
    <3>1. zacc'[j] = left
      BY <1>1, <1>3, <2>2
    <3>2. Limit(item + 1, j) = TopItem
      BY <1>1, <2>2 DEF Limit
    <3> QED BY <1>5, <3>1, <3>2, Limits
  <2>3. CASE j = item + 1
    <3>1. zacc'[j] = zacc[j] + next
      BY <1>1, <1>3, <2>3
    <3>2. zacc[j] <= Full + FASTLAZY
      BY <1>1, <1>4, <2>3 DEF Limit
    <3>3. Limit(item + 1, j) = Full + TopItem + FASTLAZY
      BY <1>1, <2>3 DEF Limit
    <3> QED BY <1>4, <1>5, <3>1, <3>2, <3>3, Limits
  <2>4. CASE j = item + 2
    <3>1. zacc'[j] = zacc[j] + above
      BY <1>1, <1>3, <2>4
    <3>2. zacc[j] <= Full
      BY <1>1, <1>4, <2>4 DEF Limit
    <3>3. Limit(item + 1, j) = Full + FASTLAZY
      BY <1>1, <2>4 DEF Limit
    <3> QED BY <1>4, <1>5, <3>1, <3>2, <3>3, Limits
  <2>5. CASE j > item + 2
    <3>1. zacc'[j] = zacc[j]
      BY <1>1, <1>3, <2>5
    <3>2. Limit(item, j) = Full /\ Limit(item + 1, j) = Full
      BY <1>1, <2>5 DEF Limit
    <3> QED BY <1>4, <3>1, <3>2
  <2> QED BY <1>1, <2>1, <2>2, <2>3, <2>4, <2>5
<1>7. zacc' \in Seq(Nat) /\ Len(zacc') = Len(zacc) /\ zacc' # << >>
  <2>1. \A j \in 1..Len(zacc) : zacc'[j] \in Nat
    BY <1>6
  <2>2. zacc' = [ j \in 1..Len(zacc) |-> zacc'[j] ]
    BY <1>3
  <2>3. zacc' \in Seq(Nat) /\ Len(zacc') = Len(zacc)
    BY <1>1, <2>1, <2>2
  <2> QED BY <1>1, <2>3
<1>8. CASE item < Len(zacc)
  <2>1. item' = item + 1 /\ stage' = "carries"
    BY <1>1, <1>8 DEF ResolveItem
  <2> QED BY <1>1, <1>2, <1>6, <1>7, <1>8, <2>1, Limits DEF AccTypes, AccBounds
<1>9. CASE ~(item < Len(zacc))
  <2>1. item' = 1 /\ stage' = IF row <= Len(zrhi) THEN "rows" ELSE "unchunk"
    BY <1>9 DEF ResolveItem
  <2>2. \A j \in 1..Len(zacc') : zacc'[j] <= TopItem
    BY <1>1, <1>6, <1>7, <1>9 DEF Limit
  <2>3. \A j \in 1..Len(zacc') : zacc'[j] <= (FASTLAZY - lazy') * Square + TopItem
    <3>1. (FASTLAZY - lazy') * Square = 0
      BY <1>1, Limits
    <3>2. (FASTLAZY - lazy') * Square + TopItem = TopItem
      BY <3>1, Limits
    <3> QED BY <2>2, <3>2
  <2>4. Len(zrhi) \in Nat
    BY OperandItems
  <2> QED BY <1>1, <1>2, <1>7, <2>1, <2>2, <2>3, <2>4, Limits
          DEF AccTypes, AccBounds
<1> QED BY <1>8, <1>9

\* A step of either path keeps the bounds.
LEMMA NextBounds ==
  ASSUME AccInv, [MultiplyNext]_productVars
  PROVE  AccInv'
<1>1. CASE AddRow
  BY <1>1, AddRowBounds
<1>2. CASE ResolveItem
  BY <1>2, ResolveBounds
<1>3. CASE UnchunkItem
  BY <1>3 DEF AccInv, AccTypes, AccBounds, UnchunkItem
<1>4. CASE AddUnit
  BY <1>4 DEF AccInv, AccTypes, AccBounds, AddUnit
<1>5. CASE UNCHANGED productVars
  BY <1>5 DEF AccInv, AccTypes, AccBounds, productVars, zrhi
<1> QED BY <1>1, <1>2, <1>3, <1>4, <1>5 DEF MultiplyNext

\* For operands of any length, any size of item and any number of rows between
\* resolutions that FastAssumption, PowersOfItem allows, no item of decMultiplyOp's
\* accumulator outgrows it.
THEOREM AccumulatorNeverOverflows == MultiplySpec => []AccumulatorFits
<1>1. AccInv => AccumulatorFits
  <2> SUFFICES ASSUME AccInv, NEW j \in 1..Len(zacc)
               PROVE  zacc[j] \in 0..AccMax
    BY DEF AccumulatorFits
  <2>1. zacc[j] \in Nat /\ Len(zacc) \in Nat
    BY DEF AccInv, AccTypes
  <2>2. CASE stage = "rows"
    <3>1. (FASTLAZY - lazy) * Square <= FASTLAZY * Square
      BY <2>2, Limits DEF AccInv, AccBounds
    <3>2. zacc[j] <= (FASTLAZY - lazy) * Square + TopItem
      BY <2>2 DEF AccInv, AccBounds
    <3>3. (FASTLAZY - lazy) * Square \in Int
      BY <2>2, Limits DEF AccInv, AccBounds
    <3>4. zacc[j] <= Full
      BY <2>1, <3>1, <3>2, <3>3, Limits DEF Full
    <3> QED BY <2>1, <3>4, Limits
  <2>3. CASE stage = "carries"
    <3>1. zacc[j] <= Limit(item, j) /\ item \in Nat
      BY <2>3 DEF AccInv, AccBounds, AccTypes
    <3> QED BY <2>1, <3>1, Limits DEF Limit
  <2>4. CASE stage \in {"unchunk", "multiplied"}
    BY <2>1, <2>4, Limits DEF AccInv, AccBounds
  <2>5. CASE stage = "units"
    BY <2>5 DEF AccInv, AccBounds
  <2> QED BY <2>2, <2>3, <2>4, <2>5 DEF AccInv, AccTypes
<1> QED BY <1>1, InitBounds, NextBounds, PTL DEF MultiplySpec

----------------------------------------------------------------------------
(* The accumulator holds the exact product of the rows added so far.       *)

\* As far as it is regrouped: the accumulator has an item for every item of the
\* operands, and what it stands for is the multiplicand times the items of the
\* multiplier whose rows were added, whether or not carries wait in it.
AccShape ==
  zacc # << >> =>
    /\ stage # "units" /\ Len(zacc) = iacc /\ row \in 1..(Len(zrhi) + 1)
    /\ stage \in {"unchunk", "multiplied"} => row = Len(zrhi) + 1

AccAmount ==
  zacc # << >> => Amount(zacc) = Amount(zlhi) * Amount(SubSeq(zrhi, 1, row - 1))

AccExact == AccInv /\ AccShape /\ AccAmount

\* An array of zeros, or of nothing.
LEMMA NoAmount ==
  ASSUME NEW u \in Arrays, \A k \in 1..Len(u) : u[k] = 0
  PROVE  Amount(u) = 0
<1>1. << >> \in Arrays /\ Len(<< >>) = 0 /\ Len(u) \in Nat
  BY DEF Arrays
<1>2. FASTBASE \in Nat /\ FASTBASE >= 1
  BY PowersOfItem
<1> DEFINE v == << >>
<1>3. ASSUME NEW j \in Nat, j >= 1 PROVE UnitAt(u, j) = UnitAt(v, j + 0)
  BY <1>1 DEF UnitAt
<1>4. v \in Arrays /\ 1 > Len(v) /\ 1 \in Nat /\ 1 # 0 /\ 0 \in Nat /\ 1 + 0 = 1
  BY <1>1
<1> HIDE DEF v
<1>5. Horner(FASTBASE, u, 1) = Horner(FASTBASE, v, 1 + 0)
  BY ZenonT(40), <1>2, <1>3, <1>4, SameItems
<1>6. Horner(FASTBASE, v, 1) = 0
  BY <1>2, <1>4, HornerStep
<1> QED BY <1>4, <1>5, <1>6 DEF Amount

\* The items of both operands, as arrays, and below FASTBASE.
LEMMA OperandArrays ==
  ASSUME AccTypes
  PROVE  /\ zlhi \in Arrays /\ zrhi \in Arrays /\ zacc \in Arrays
         /\ Len(zlhi) \in Nat /\ Len(zlhi) >= 1
         /\ Len(zrhi) \in Nat /\ Len(zrhi) >= 1
         /\ \A k \in Int : UnitAt(zlhi, k) < FASTBASE
         /\ \A k \in Int : UnitAt(zrhi, k) < FASTBASE
<1>1. operands.lhs \in Units \ {<< >>} /\ operands.rhs \in Units \ {<< >>}
  BY FactorItems DEF AccTypes
<1>2. ASSUME NEW units \in Units \ {<< >>}
      PROVE  /\ Items(units) \in Arrays
             /\ Len(Items(units)) \in Nat /\ Len(Items(units)) >= 1
             /\ \A k \in Int : UnitAt(Items(units), k) < FASTBASE
  <2>1. /\ Items(units) \in Arrays
        /\ Len(Items(units)) \in Nat /\ Len(Items(units)) >= 1
        /\ \A k \in 1..Len(Items(units)) : Items(units)[k] \in 0..(FASTBASE - 1)
    BY ItemsFacts
  <2>2. ASSUME NEW k \in Int PROVE UnitAt(Items(units), k) < FASTBASE
    BY <2>1, PowersOfItem DEF UnitAt
  <2> QED BY <2>1, <2>2
<1>3. zacc \in Arrays
  BY DEF AccTypes, Arrays
<1> QED BY <1>1, <1>2, <1>3 DEF zlhi, zrhi

\* What the rows added so far stand for.
LEMMA RowsArray ==
  ASSUME AccTypes, row \in 1..(Len(zrhi) + 1)
  PROVE  /\ SubSeq(zrhi, 1, row - 1) \in Arrays
         /\ Len(SubSeq(zrhi, 1, row - 1)) = row - 1
         /\ \A k \in Int : UnitAt(SubSeq(zrhi, 1, row - 1), k) < FASTBASE
         /\ Amount(SubSeq(zrhi, 1, row - 1)) \in Nat
<1> DEFINE s == SubSeq(zrhi, 1, row - 1)
<1>1. /\ zrhi \in Seq(Nat) /\ Len(zrhi) \in Nat
      /\ \A k \in Int : UnitAt(zrhi, k) < FASTBASE
  BY OperandArrays DEF Arrays
<1>2. /\ s \in Seq(Nat) /\ Len(s) = row - 1
      /\ \A k \in 1..(row - 1) : s[k] = zrhi[k]
  BY <1>1
<1> HIDE DEF s
<1>3. ASSUME NEW k \in Int PROVE UnitAt(s, k) < FASTBASE
  <2>1. CASE k \in 1..(row - 1)
    <3>1. UnitAt(s, k) = UnitAt(zrhi, k)
      BY <1>1, <1>2, <2>1 DEF UnitAt
    <3> QED BY <1>1, <3>1
  <2>2. CASE k \notin 1..(row - 1)
    <3>1. UnitAt(s, k) = 0
      BY <1>2, <2>2 DEF UnitAt
    <3> QED BY <3>1, PowersOfItem
  <2> QED BY <2>1, <2>2
<1>4. s \in Arrays
  BY <1>2 DEF Arrays
<1>5. Amount(s) \in Nat
  <2>1. FASTBASE \in Nat /\ FASTBASE >= 1
    BY PowersOfItem
  <2> QED BY <1>4, <2>1, 1 \in Nat, 1 # 0, HornerStep DEF Amount
<1> QED BY <1>2, <1>3, <1>4, <1>5 DEF s

\* The amounts that occur are natural numbers.
LEMMA AmountNat ==
  ASSUME NEW u \in Arrays
  PROVE  Amount(u) \in Nat
<1>1. FASTBASE \in Nat /\ FASTBASE >= 1
  BY PowersOfItem
<1> QED BY <1>1, 1 \in Nat, 1 # 0, HornerStep DEF Amount

\* Before the first row the accumulator stands for nothing.
LEMMA InitAcc == MultiplyInit => AccExact
<1> SUFFICES ASSUME NEW l \in Factors, NEW r \in Factors, MultiplyStart(l, r)
             PROVE  AccExact
  BY DEF MultiplyInit
<1>1. AccInv
  <2>1. MultiplyInit
    BY DEF MultiplyInit
  <2> QED BY <2>1, InitBounds
<1>2. AccTypes
  BY <1>1 DEF AccInv
<1>3. CASE IsFast(operands)
  <2> DEFINE n == Len(zlhi) + Len(zrhi)
  <2>1. zacc = [ i \in 1..n |-> 0 ] /\ row = 1 /\ stage = "rows"
    BY <1>3 DEF MultiplyStart, zlhi, zrhi
  <2>2. n \in Nat /\ n >= 2 /\ n = iacc
    BY <1>2, OperandArrays DEF iacc
  <2> HIDE DEF n
  <2>3. zacc \in Arrays /\ Len(zacc) = n /\ \A k \in 1..Len(zacc) : zacc[k] = 0
    BY <2>1, <2>2 DEF Arrays
  <2>4. Amount(zacc) = 0
    BY <2>3, NoAmount
  <2>5. row \in 1..(Len(zrhi) + 1)
    BY <1>2, <2>1, OperandArrays
  <2>6. Amount(SubSeq(zrhi, 1, row - 1)) = 0
    <3> DEFINE s == SubSeq(zrhi, 1, row - 1)
    <3>1. s \in Arrays /\ Len(s) = 0
      BY <1>2, <2>1, <2>5, RowsArray
    <3> HIDE DEF s
    <3>2. \A k \in 1..Len(s) : s[k] = 0
      BY <3>1
    <3>3. Amount(s) = 0
      BY <3>1, <3>2, NoAmount
    <3> QED BY <3>3 DEF s
  <2>7. Amount(zlhi) \in Nat
    BY <1>2, OperandArrays, AmountNat
  <2>8. Amount(zacc) = Amount(zlhi) * Amount(SubSeq(zrhi, 1, row - 1))
    BY <2>4, <2>6, <2>7
  <2> QED BY <1>1, <2>1, <2>2, <2>3, <2>5, <2>8 DEF AccExact, AccShape, AccAmount
<1>4. CASE ~IsFast(operands)
  <2>1. zacc = [ i \in 1..0 |-> 0 ]
    BY <1>4 DEF MultiplyStart
  <2>2. zacc = << >>
    BY <2>1
  <2> QED BY <1>1, <2>2 DEF AccExact, AccShape, AccAmount
<1> QED BY <1>3, <1>4

\* Adding a row adds the multiplicand, as often as the item of the row says.
LEMMA AddRowExact ==
  ASSUME AccExact, AddRow
  PROVE  AccShape' /\ AccAmount'
<1>1. AccInv /\ AccTypes /\ AccShape /\ AccAmount /\ AccInv'
  BY AddRowBounds DEF AccExact, AccInv
<1>2. /\ stage = "rows" /\ operands' = operands /\ row' = row + 1
      /\ row \in 1..Len(zrhi) /\ zacc # << >>
      /\ stage' \in {"rows", "carries"}
  BY <1>1 DEF AddRow, AccInv, AccBounds
<1>3. zlhi' = zlhi /\ zrhi' = zrhi /\ iacc' = iacc
  BY <1>2 DEF zlhi, zrhi, iacc
<1>4. Len(zacc) = Len(zlhi) + Len(zrhi)
  BY <1>1, <1>2 DEF AccShape, iacc
<1>5. /\ zlhi \in Arrays /\ zrhi \in Arrays /\ zacc \in Arrays
      /\ Len(zlhi) \in Nat /\ Len(zrhi) \in Nat /\ Len(zacc) \in Nat
      /\ \A k \in 1..Len(zacc) : zacc[k] \in Nat
      /\ \A k \in 1..Len(zlhi) : zlhi[k] \in Nat
      /\ \A k \in 1..Len(zrhi) : zrhi[k] \in Nat
  BY SMTT(30), <1>1, OperandArrays DEF Arrays
<1>6. zacc' = [ i \in 1..Len(zacc) |->
                 zacc[i] + (IF i - row + 1 \in 1..Len(zlhi)
                              THEN zlhi[i - row + 1] * zrhi[row] ELSE 0) ]
  BY DEF AddRow
<1> DEFINE m == zrhi[row]
           shift == row - 1
<1>7. ASSUME NEW i \in 1..Len(zacc)
      PROVE  zacc'[i] = zacc[i] + UnitAt(zlhi, i - shift) * m
  <2>1. i - row + 1 = i - shift
    BY <1>2, <1>5
  <2>2. CASE i - shift \in 1..Len(zlhi)
    BY <1>6, <2>1, <2>2 DEF UnitAt
  <2>3. CASE i - shift \notin 1..Len(zlhi)
    <3>1. zacc'[i] = zacc[i] + 0
      BY <1>6, <2>1, <2>3
    <3>2. UnitAt(zlhi, i - shift) = 0 /\ m \in Nat
      BY <1>2, <1>5, <2>3 DEF UnitAt
    <3> QED BY <3>1, <3>2
  <2> QED BY <2>2, <2>3
<1>8. zacc' \in Arrays /\ Len(zacc') = Len(zacc)
  <2>1. zacc' \in Seq(Nat)
    BY <1>1 DEF AccInv, AccTypes
  <2>2. Len(zacc') = Len(zacc)
    BY <1>5, <1>6
  <2> QED BY <2>1, <2>2 DEF Arrays
<1>9. zacc' # << >>
  BY <1>2, <1>5, <1>8
<1>10. AccShape'
  BY <1>2, <1>3, <1>4, <1>5, <1>8 DEF AccShape, iacc
<1> DEFINE n == Len(zrhi)
<1>11. FASTBASE \in Nat /\ FASTBASE >= 1 /\ n \in Nat
  BY <1>5, PowersOfItem
<1>12. PICK w : Powers(FASTBASE, w, n)
  BY <1>11, PowersExist
<1>13. Amount(zacc') = Amount(zacc) + m * (w[shift] * Amount(zlhi))
  <2>1. /\ shift \in 0..n /\ m \in Nat /\ Len(zlhi) + shift <= Len(zacc)
    BY <1>2, <1>4, <1>5
  <2> DEFINE c == zacc'
  <2>2. c \in Arrays /\ Len(c) = Len(zacc)
    BY <1>8
  <2>3. \A i \in 1..Len(zacc) : c[i] = zacc[i] + UnitAt(zlhi, i - shift) * m
    BY <1>7
  <2>5. zacc \in Arrays /\ zlhi \in Arrays /\ FASTBASE \in Nat /\ FASTBASE >= 1 /\ n \in Nat
    BY <1>5, <1>11
  <2>6. Powers(FASTBASE, w, n)
    BY <1>12
  <2>7. IsSum(c, zacc, zlhi, shift, m)
    BY <2>1, <2>2, <2>3 DEF IsSum
  <2> HIDE DEF c, shift, m, n
  <2>4. Horner(FASTBASE, c, 1)
          = Horner(FASTBASE, zacc, 1) + m * (w[shift] * Horner(FASTBASE, zlhi, 1))
    BY <2>1, <2>2, <2>5, <2>6, <2>7, AddedItems
  <2> QED BY <2>4 DEF Amount, c
<1> DEFINE a == Amount(zlhi)
           old == Amount(SubSeq(zrhi, 1, row - 1))
           new == Amount(SubSeq(zrhi, 1, row))
<1>14. new = old + w[shift] * m
  <2>1. row \in 1..n /\ row <= Len(zrhi)
    BY <1>2, <1>5
  <2> QED BY <1>5, <1>11, <1>12, <2>1, ExtendedItems DEF Amount
<1>15. Amount(zacc) = a * old
  BY <1>1, <1>2 DEF AccAmount
<1>16. a \in Nat /\ old \in Nat /\ m \in Nat /\ w[shift] \in Nat
  <2>1. a \in Nat /\ m \in Nat
    BY <1>2, <1>5, AmountNat
  <2>2. old \in Nat
    <3>1. row \in 1..(Len(zrhi) + 1)
      BY <1>2, <1>5
    <3> QED BY <1>1, <3>1, RowsArray
  <2>3. shift \in 0..n
    BY <1>2, <1>5
  <2> HIDE DEF shift, n
  <2>4. w[shift] \in Nat
    BY <1>11, <1>12, <2>3, PowerFacts
  <2> QED BY <2>1, <2>2, <2>4
<1> DEFINE t == w[shift]
<1>17. Amount(zacc') = a * old + m * (t * a) /\ new = old + t * m /\ t \in Nat
  BY <1>13, <1>14, <1>15, <1>16
<1> HIDE DEF a, old, new, m, t, shift
<1>18. a * (old + t * m) = a * old + m * (t * a)
  BY <1>16, <1>17
<1>19. Amount(zacc') = a * new
  BY <1>17, <1>18
<1>20. row' - 1 = row
  BY <1>2, <1>5
<1> QED BY <1>3, <1>10, <1>19, <1>20 DEF AccAmount, a, new

\* What is in the accumulator is less than one beyond its end: no carry can be
\* due out of the top item, nor two places up out of the two top items.
LEMMA TopCarries ==
  ASSUME AccExact, zacc # << >>, item \in 1..Len(zacc)
  PROVE  /\ item = Len(zacc) => CarryNext(zacc[item]) = 0
         /\ item + 1 >= Len(zacc) => CarryAbove(zacc[item]) = 0
<1> DEFINE L == Len(zacc)
           B == FASTBASE
           n == zacc[item]
           a == Amount(zlhi)
           b == Amount(SubSeq(zrhi, 1, row - 1))
           lw == Len(zlhi)
           rw == Len(zrhi)
<1>1. AccTypes /\ AccShape /\ AccAmount
  BY DEF AccExact, AccInv
<1>2. /\ zacc \in Arrays /\ zlhi \in Arrays
      /\ lw \in Nat /\ lw >= 1 /\ rw \in Nat /\ rw >= 1
      /\ \A k \in Int : UnitAt(zlhi, k) < B
  BY <1>1, OperandArrays
<1>3. L = lw + rw /\ row \in 1..(rw + 1) /\ Amount(zacc) = a * b
  BY <1>1 DEF AccShape, AccAmount, iacc
<1>4. /\ SubSeq(zrhi, 1, row - 1) \in Arrays
      /\ Len(SubSeq(zrhi, 1, row - 1)) = row - 1
      /\ \A k \in Int : UnitAt(SubSeq(zrhi, 1, row - 1), k) < B
  BY <1>1, <1>3, RowsArray
<1>5. B \in Nat /\ B >= 1 /\ B > 1 /\ L \in Nat
  BY <1>2, <1>3, PowersOfItem
<1>6. PICK w : Powers(B, w, L)
  BY <1>5, PowersExist
<1>7. /\ w[0] = 1
      /\ \A k \in 0..L : w[k] \in Nat /\ w[k] > 0
      /\ \A k \in 1..L : w[k] = B * w[k - 1]
  BY <1>5, <1>6, PowerFacts
<1>8. a < w[lw]
  <2>1. lw \in 0..L /\ lw >= Len(zlhi)
    BY <1>2, <1>3
  <2> HIDE DEF L, B, lw, rw
  <2> QED BY <1>2, <1>5, <1>6, <2>1, BelowItems DEF Amount, B
<1>9. b < w[rw]
  <2> DEFINE s == SubSeq(zrhi, 1, row - 1)
  <2>1. s \in Arrays /\ \A k \in Int : UnitAt(s, k) < B
    BY <1>4
  <2>2. rw \in 0..L /\ rw >= Len(s)
    BY <1>2, <1>3, <1>4
  <2> HIDE DEF L, B, lw, rw, s
  <2>3. Horner(B, s, 1) < w[rw]
    BY <1>5, <1>6, <2>1, <2>2, BelowItems
  <2> QED BY <2>3 DEF Amount, B, s
<1>10. w[L] = w[lw] * w[rw]
  <2>1. lw \in 0..L /\ rw \in 0..L /\ lw + rw <= L /\ lw + rw = L
    BY <1>2, <1>3
  <2> HIDE DEF L, B, lw, rw
  <2>2. w[lw + rw] = w[lw] * w[rw]
    BY <1>5, <1>6, <2>1, AddedPowers
  <2> QED BY <2>1, <2>2
<1>11. Amount(zacc) < w[L] /\ Amount(zacc) \in Nat
  <2> DEFINE x == w[lw]
             y == w[rw]
  <2>1. x \in Nat /\ y \in Nat /\ a \in Nat /\ b \in Nat /\ x > 0 /\ y > 0
    <3>1. lw \in 0..L /\ rw \in 0..L
      BY <1>2, <1>3
    <3>2. a \in Nat /\ b \in Nat
      BY <1>2, <1>4, AmountNat
    <3> QED BY <1>7, <3>1, <3>2
  <2>2. a < x /\ b < y
    BY <1>8, <1>9
  <2>3. w[L] = x * y /\ Amount(zacc) = a * b
    BY <1>3, <1>10
  <2> HIDE DEF x, y, a, b
  <2>4. a * b <= x * b
    BY <2>1, <2>2
  <2>5. x * b < x * y
    <3>1. x * (b + 1) <= x * y
      BY <2>1, <2>2
    <3>2. x * (b + 1) = x * b + x /\ x * b \in Nat /\ x * y \in Nat
      BY <2>1
    <3> QED BY <2>1, <3>1, <3>2
  <2>6. a * b \in Nat /\ x * b \in Nat /\ x * y \in Nat
    BY <2>1
  <2> QED BY <2>3, <2>4, <2>5, <2>6
<1>12. n \in Nat /\ w[item - 1] * n <= Amount(zacc) /\ w[item - 1] \in Nat /\ w[item - 1] > 0
  <2>1. item - 1 \in 0..L /\ (item - 1) + 1 = item /\ item \in Nat /\ item # 0
    BY <1>5
  <2>2. Amount(zacc) >= w[item - 1] * Horner(B, zacc, item)
    <3>1. Horner(B, zacc, 1) >= w[item - 1] * Horner(B, zacc, (item - 1) + 1)
      <4> HIDE DEF L, B
      <4> QED BY <1>2, <1>5, <1>6, <2>1, AboveItems
    <3> QED BY <2>1, <3>1 DEF Amount
  <2>3. /\ Horner(B, zacc, item) = UnitAt(zacc, item) + B * Horner(B, zacc, item + 1)
        /\ UnitAt(zacc, item) \in Nat
    BY <1>2, <1>5, <2>1, HornerStep
  <2>4. UnitAt(zacc, item) = n
    BY <2>1 DEF UnitAt
  <2>5. Horner(B, zacc, item + 1) \in Nat
    <3>1. item + 1 \in Nat /\ item + 1 # 0
      BY <2>1
    <3> QED BY <1>2, <1>5, <3>1, HornerStep
  <2> DEFINE h == Horner(B, zacc, item + 1)
             x == w[item - 1]
             all == Amount(zacc)
  <2>6. all >= x * (n + B * h) /\ n \in Nat /\ h \in Nat
    BY <2>2, <2>3, <2>4, <2>5
  <2>7. x \in Nat /\ x > 0 /\ all \in Nat
    BY <1>7, <1>11, <2>1
  <2> HIDE DEF n, h, x, all, B
  <2>8. x * (n + B * h) = x * n + x * (B * h) /\ x * n \in Nat /\ x * (B * h) \in Nat
    BY <1>5, <2>6, <2>7
  <2>9. x * n <= all
    BY <2>6, <2>7, <2>8
  <2> QED BY <2>6, <2>7, <2>9 DEF x, all
<1>13. item = L => n < B
  <2> SUFFICES ASSUME item = L PROVE n < B
    OBVIOUS
  <2> DEFINE x == w[item - 1]
             all == Amount(zacc)
  <2>1. w[L] = B * x
    <3>1. L \in 1..L
      BY <1>5
    <3> QED BY <1>7, <3>1
  <2>2. x * n <= all /\ all < B * x /\ x \in Nat /\ x > 0 /\ n \in Nat /\ all \in Nat
    BY <1>11, <1>12, <2>1
  <2> HIDE DEF x, all, n, B, L
  <2> SUFFICES ASSUME n >= B PROVE FALSE
    BY <1>5, <2>2
  <2>3. x * n >= x * B
    BY <1>5, <2>2
  <2>4. x * B = B * x /\ x * B \in Nat /\ x * n \in Nat
    BY <1>5, <2>2
  <2> QED BY <2>2, <2>3, <2>4
<1>14. item + 1 = L => n < B * B
  <2> SUFFICES ASSUME item + 1 = L PROVE n < B * B
    OBVIOUS
  <2> DEFINE x == w[item - 1]
             all == Amount(zacc)
  <2>1. w[L] = B * (B * x)
    <3>1. L \in 1..L /\ item \in 1..L /\ L - 1 = item
      BY <1>5
    <3>2. w[L] = B * w[item] /\ w[item] = B * x
      BY <1>7, <3>1
    <3> QED BY <3>2
  <2>2. x * n <= all /\ all < B * (B * x) /\ x \in Nat /\ x > 0 /\ n \in Nat /\ all \in Nat
    BY <1>11, <1>12, <2>1
  <2> HIDE DEF x, all, n, B, L
  <2>3. B * B \in Nat
    BY <1>5
  <2> SUFFICES ASSUME n >= B * B PROVE FALSE
    BY <1>5, <2>2, <2>3
  <2>4. x * n >= x * (B * B)
    BY <1>5, <2>2, <2>3
  <2>5. x * (B * B) = B * (B * x) /\ x * (B * B) \in Nat /\ x * n \in Nat
    BY <1>5, <2>2
  <2> QED BY <2>2, <2>4, <2>5
<1> DEFINE q == n \div B
<1>15. n \in Nat /\ B \in Nat /\ B > 1
  BY <1>5, <1>12
<1>16. CarryAbove(n) = q \div B /\ CarryNext(n) = q - (q \div B) * B
  BY DEF CarryAbove, CarryNext
<1> HIDE DEF n, B, L
<1>17. q \in Nat /\ q * B <= n /\ n < q * B + B
  BY <1>15
<1>18. ASSUME n < B PROVE q = 0
  <2> HIDE DEF q
  <2> SUFFICES ASSUME q >= 1 PROVE FALSE
    BY <1>17
  <2>1. q * B >= B
    BY <1>15, <1>17
  <2> QED BY <1>15, <1>17, <1>18, <2>1
<1>19. ASSUME n < B * B PROVE q \div B = 0
  <2> HIDE DEF q
  <2>1. q < B
    <3> SUFFICES ASSUME q >= B PROVE FALSE
      BY <1>15, <1>17
    <3>1. q * B >= B * B
      BY <1>15, <1>17
    <3>2. q * B \in Nat /\ B * B \in Nat
      BY <1>15, <1>17
    <3> QED BY <1>15, <1>17, <1>19, <3>1, <3>2
  <2> QED BY <1>15, <1>17, <2>1
<1>20. 0 \div B = 0 /\ 0 * B = 0
  BY <1>15
<1>21. item = L => q = 0
  BY <1>13, <1>18
<1>22. item = L => CarryAbove(n) = 0 /\ CarryNext(n) = 0
  BY <1>16, <1>20, <1>21
<1>23. item + 1 = L => CarryAbove(n) = 0
  BY <1>14, <1>16, <1>19
<1>24. item + 1 >= L => item = L \/ item + 1 = L
  BY <1>5 DEF L
<1> QED BY <1>22, <1>23, <1>24 DEF n, L

\* Resolving carries, with all that is due out of an item handed up, leaves what
\* the accumulator stands for.
LEMMA ResolveExact ==
  ASSUME AccExact, ResolveItem
  PROVE  AccShape' /\ AccAmount'
<1>1. AccInv /\ AccTypes /\ AccShape /\ AccAmount /\ AccInv' /\ AccTypes'
  BY ResolveBounds DEF AccExact, AccInv
<1>2. /\ stage = "carries" /\ operands' = operands /\ row' = row
      /\ zacc # << >> /\ item \in 1..Len(zacc)
      /\ stage' \in {"carries", "rows", "unchunk"}
      /\ stage' = "unchunk" => ~(row <= Len(zrhi))
  BY <1>1 DEF ResolveItem, AccInv, AccBounds
<1>3. zlhi' = zlhi /\ zrhi' = zrhi /\ iacc' = iacc
  BY <1>2 DEF zlhi, zrhi, iacc
<1>4. /\ Len(zacc) = iacc /\ row \in 1..(Len(zrhi) + 1)
  BY <1>1, <1>2 DEF AccShape
<1> DEFINE L == Len(zacc)
           B == FASTBASE
           n == zacc[item]
           above == CarryAbove(n)
           next == CarryNext(n)
           left == n - above * B * B - next * B
           c == zacc'
<1>5. c = [ j \in 1..L |->
              CASE j = item     -> left
                [] j = item + 1 -> zacc[j] + next
                [] j = item + 2 -> zacc[j] + above
                [] OTHER        -> zacc[j] ]
  BY DEF ResolveItem, Resolve
<1>6. zacc \in Arrays /\ c \in Arrays /\ L \in Nat /\ item \in Nat /\ item # 0
  BY <1>1, <1>2 DEF AccTypes, Arrays
<1>7. /\ item = L => next = 0
      /\ item + 1 >= L => above = 0
  BY <1>2, TopCarries
<1>8. B \in Nat /\ B >= 1 /\ n \in Nat
  <2>1. \A j \in 1..L : zacc[j] \in Nat
    BY <1>6 DEF Arrays
  <2> QED BY <1>2, <2>1, PowersOfItem
<1>9. above \in Nat /\ next \in Nat /\ left \in Nat
  <2>1. zacc[item] <= Limit(item, item)
    BY <1>1, <1>2 DEF AccInv, AccBounds
  <2>2. n <= Full + TopItem + FASTLAZY
    BY <1>6, <2>1 DEF Limit
  <2>3. above \in 0..FASTLAZY /\ next \in 0..TopItem /\ left \in 0..TopItem
    BY <1>8, <2>2, CarryBounds
  <2> QED BY <2>3, Limits
<1>10. n = left + B * next + (B * B) * above
  <2> HIDE DEF above, next, n, B
  <2>1. above * B * B = (B * B) * above /\ next * B = B * next
    BY <1>8, <1>9
  <2>2. (B * B) * above \in Nat /\ B * next \in Nat
    BY <1>8, <1>9
  <2> QED BY <1>8, <1>9, <2>1, <2>2
<1>11. Len(c) = L
  BY <1>5, <1>6
<1> HIDE DEF above, next, left
<1>12. /\ c[item] = left
       /\ item + 1 \in 1..L => c[item + 1] = zacc[item + 1] + next
       /\ item + 2 \in 1..L => c[item + 2] = zacc[item + 2] + above
       /\ \A j \in 1..L : j \notin {item, item + 1, item + 2} => c[j] = zacc[j]
  <2> HIDE DEF n, B, c
  <2>1. item \in 1..L /\ item + 1 # item /\ item + 2 # item /\ item + 2 # item + 1
    BY <1>2, <1>6
  <2>2. c[item] = left
    BY <1>5, <2>1
  <2>3. item + 1 \in 1..L => c[item + 1] = zacc[item + 1] + next
    BY <1>5, <2>1
  <2>4. item + 2 \in 1..L => c[item + 2] = zacc[item + 2] + above
    BY <1>5, <2>1
  <2>5. \A j \in 1..L : j \notin {item, item + 1, item + 2} => c[j] = zacc[j]
    BY <1>5
  <2> QED BY <2>2, <2>3, <2>4, <2>5
<1> HIDE DEF c
<1>13. IsCarried(B, zacc, c, item, next, above)
  <2>1. UnitAt(zacc, item) = n /\ UnitAt(c, item) = left
    BY <1>2, <1>11, <1>12 DEF UnitAt
  <2>2. UnitAt(c, item + 1) = UnitAt(zacc, item + 1) + next
    <3>1. CASE item + 1 \in 1..L
      BY <1>11, <1>12, <3>1 DEF UnitAt
    <3>2. CASE item + 1 \notin 1..L
      <4>1. item = L
        BY <1>2, <1>6, <3>2
      <4>2. UnitAt(c, item + 1) = 0 /\ UnitAt(zacc, item + 1) = 0
        BY <1>11, <3>2 DEF UnitAt
      <4> QED BY <1>7, <4>1, <4>2
    <3> QED BY <3>1, <3>2
  <2>3. UnitAt(c, item + 2) = UnitAt(zacc, item + 2) + above
    <3>1. CASE item + 2 \in 1..L
      BY <1>11, <1>12, <3>1 DEF UnitAt
    <3>2. CASE item + 2 \notin 1..L
      <4>1. item + 1 >= L
        BY <1>2, <1>6, <3>2
      <4>2. UnitAt(c, item + 2) = 0 /\ UnitAt(zacc, item + 2) = 0
        BY <1>11, <3>2 DEF UnitAt
      <4> QED BY <1>7, <4>1, <4>2
    <3> QED BY <3>1, <3>2
  <2>4. ASSUME NEW j \in Nat, j \notin {0, item, item + 1, item + 2}
        PROVE  UnitAt(c, j) = UnitAt(zacc, j)
    BY <1>11, <1>12, <2>4 DEF UnitAt
  <2> HIDE DEF n, B, L
  <2> QED BY <1>10, <2>1, <2>2, <2>3, <2>4 DEF IsCarried
<1>14. Amount(c) = Amount(zacc)
  <2> HIDE DEF n, B, L
  <2>1. Horner(B, c, 1) = Horner(B, zacc, 1)
    BY <1>6, <1>8, <1>9, <1>13, CarriedItems
  <2> QED BY <2>1 DEF Amount, B
<1>15. Amount(zacc) = Amount(zlhi) * Amount(SubSeq(zrhi, 1, row - 1))
  BY <1>1, <1>2 DEF AccAmount
<1>16. AccAmount'
  BY <1>2, <1>3, <1>14, <1>15 DEF AccAmount, c
<1>17. Len(zrhi) \in Nat
  BY <1>1, OperandArrays
<1>18. AccShape'
  BY <1>2, <1>3, <1>4, <1>11, <1>17 DEF AccShape, c
<1> QED BY <1>16, <1>18

\* A step of either path keeps what the accumulator stands for.
LEMMA NextAcc ==
  ASSUME AccExact, [MultiplyNext]_productVars
  PROVE  AccExact'
<1>1. AccInv'
  BY NextBounds DEF AccExact
<1>2. CASE AddRow
  BY <1>1, <1>2, AddRowExact DEF AccExact
<1>3. CASE ResolveItem
  BY <1>1, <1>3, ResolveExact DEF AccExact
<1>4. CASE UnchunkItem
  <2>1. /\ stage = "unchunk" /\ zacc' = zacc /\ operands' = operands /\ row' = row
        /\ stage' \in {"unchunk", "multiplied"}
    BY <1>4 DEF UnchunkItem
  <2>2. zlhi' = zlhi /\ zrhi' = zrhi /\ iacc' = iacc
    BY <2>1 DEF zlhi, zrhi, iacc
  <2> QED BY <1>1, <2>1, <2>2 DEF AccExact, AccShape, AccAmount
<1>5. CASE AddUnit
  <2>1. zacc = << >> /\ zacc' = zacc
    BY <1>5 DEF AddUnit, AccExact, AccInv, AccBounds
  <2> QED BY <1>1, <2>1 DEF AccExact, AccShape, AccAmount
<1>6. CASE UNCHANGED productVars
  <2>1. zlhi' = zlhi /\ zrhi' = zrhi /\ iacc' = iacc
    BY <1>6 DEF zlhi, zrhi, iacc, productVars
  <2> QED BY <1>1, <1>6, <2>1 DEF AccExact, AccShape, AccAmount, productVars
<1> QED BY <1>2, <1>3, <1>4, <1>5, <1>6 DEF MultiplyNext

\* Whatever the number of items, of rows between resolutions and of Units in an
\* item: the accumulator of decMultiplyOp stands for the exact product of the
\* multiplicand and the items of the multiplier dealt with so far.
THEOREM AccumulatorIsExact == MultiplySpec => []AccExact
<1> QED BY InitAcc, NextAcc, PTL DEF MultiplySpec

----------------------------------------------------------------------------
(* The Units of the product, by the short path.                            *)

Lhs == operands.lhs
Rhs == operands.rhs

\* Of a short multiplier so many Units were dealt with: the product so far has a
\* Unit for each, and at most those of the multiplicand more.
ShortProduct ==
  zacc = << >> =>
    /\ stage \in {"units", "multiplied"}
    /\ row \in 1..(Len(Rhs) + 1)
    /\ stage = "units" => row <= Len(Rhs)
    /\ stage = "multiplied" => row = Len(Rhs) + 1
    /\ product \in Units
    /\ Len(product) >= row - 1 /\ Len(product) <= Len(Lhs) + row - 1
    /\ Value(product) = Value(Lhs) * Value(SubSeq(Rhs, 1, row - 1))

\* The operands, as arrays of Units.
LEMMA OperandUnits ==
  ASSUME AccTypes
  PROVE  /\ Lhs \in Units /\ Rhs \in Units /\ Lhs \in Units \ {<< >>} /\ Rhs \in Units \ {<< >>}
         /\ Len(Lhs) \in Nat /\ Len(Lhs) >= 1
         /\ Len(Rhs) \in Nat /\ Len(Rhs) >= 1
<1>1. Lhs \in Units \ {<< >>} /\ Rhs \in Units \ {<< >>}
  BY FactorItems DEF AccTypes, Lhs, Rhs
<1>2. ASSUME NEW u \in Units \ {<< >>} PROVE Len(u) \in Nat /\ Len(u) >= 1
  <2>1. u \in Seq(Unit) /\ u # << >>
    BY DEF Units
  <2>2. Len(u) \in Nat /\ Len(u) # 0
    BY <2>1
  <2> QED BY <2>2
<1> QED BY <1>1, <1>2

\* Values of Units are natural numbers.
LEMMA ValueNat ==
  ASSUME NEW u \in Units
  PROVE  Value(u) \in Nat
<1>1. u \in Arrays
  BY UnitsAreNatural
<1> QED BY <1>1, 1 \in Nat, 1 # 0, FromStep DEF Value

\* Two arrays of Units, one after the other.
LEMMA JoinedUnits ==
  ASSUME NEW u \in Units, NEW v \in Units
  PROVE  /\ u \o v \in Units
         /\ Len(u \o v) = Len(u) + Len(v)
         /\ \A k \in 1..Len(u) : (u \o v)[k] = u[k]
         /\ \A k \in 1..Len(v) : (u \o v)[Len(u) + k] = v[k]
<1>1. u \in Seq(Unit) /\ v \in Seq(Unit) /\ Len(u) \in Nat /\ Len(v) \in Nat
  BY DEF Units
<1>2. u \o v \in Seq(Unit) /\ Len(u \o v) = Len(u) + Len(v)
  BY <1>1
<1>3. \A k \in 1..Len(u) : (u \o v)[k] = u[k]
  BY <1>1
<1>4. \A k \in 1..Len(v) : (u \o v)[Len(u) + k] = v[k]
  BY <1>1
<1> QED BY <1>2, <1>3, <1>4 DEF Units

\* The lower and the upper Units of an array.
LEMMA SplitUnits ==
  ASSUME NEW u \in Units, NEW k \in 0..Len(u)
  PROVE  /\ SubSeq(u, 1, k) \in Units /\ Len(SubSeq(u, 1, k)) = k
         /\ \A j \in 1..k : SubSeq(u, 1, k)[j] = u[j]
         /\ SubSeq(u, k + 1, Len(u)) \in Units
         /\ Len(SubSeq(u, k + 1, Len(u))) = Len(u) - k
         /\ \A j \in 1..(Len(u) - k) : SubSeq(u, k + 1, Len(u))[j] = u[k + j]
<1>1. u \in Seq(Unit) /\ Len(u) \in Nat /\ \A j \in 1..Len(u) : u[j] \in Unit
  BY DEF Units
<1>2. /\ SubSeq(u, 1, k) \in Seq(Unit) /\ Len(SubSeq(u, 1, k)) = k
      /\ \A j \in 1..k : SubSeq(u, 1, k)[j] = u[j]
  BY <1>1
<1>3. /\ SubSeq(u, k + 1, Len(u)) \in Seq(Unit)
      /\ Len(SubSeq(u, k + 1, Len(u))) = Len(u) - k
  BY <1>1
<1>4. \A j \in 1..(Len(u) - k) : SubSeq(u, k + 1, Len(u))[j] = u[k + j]
  <2> TAKE j \in 1..(Len(u) - k)
  <2>1. SubSeq(u, k + 1, Len(u))[j] = u[(k + 1) + j - 1]
    BY <1>1
  <2>2. (k + 1) + j - 1 = k + j
    BY <1>1
  <2> QED BY <2>1, <2>2
<1> QED BY <1>2, <1>3, <1>4 DEF Units

\* A Unit of the multiplier that is not zero, times the multiplicand, added to
\* the upper Units of the product.
LEMMA AddedUnit ==
  ASSUME NEW p \in Units, NEW l \in Units, NEW shift \in Nat, shift <= Len(p),
         NEW mer \in Unit,
         NEW n \in Nat, NEW w, Weights(w, n), shift <= n
  PROVE  LET upper == UnitAddSub(SubSeq(p, shift + 1, Len(p)), l, 0, mer).units
             new   == SubSeq(p, 1, shift) \o upper
         IN  /\ new \in Units
             /\ Value(new) = Value(p) + w[shift] * (mer * Value(l))
             /\ Len(new) = shift + Len(upper)
             /\ Len(upper) \in Nat /\ Len(upper) >= Len(l)
             /\ Len(upper) <= Len(l) + 1 \/ Len(upper) <= Len(p) - shift + 1
<1> DEFINE low == SubSeq(p, 1, shift)
           high == SubSeq(p, shift + 1, Len(p))
           result == UnitAddSub(high, l, 0, mer)
           upper == result.units
           new == low \o upper
<1>1. /\ p \in Arrays /\ l \in Arrays /\ Len(p) \in Nat /\ Len(l) \in Nat
      /\ UnitBase \in Nat /\ shift \in 0..Len(p) /\ shift \in 0..n
  BY UnitsAreNatural, UnitFacts DEF Units
<1>2. /\ low \in Units /\ Len(low) = shift /\ \A j \in 1..shift : low[j] = p[j]
      /\ high \in Units /\ Len(high) = Len(p) - shift
      /\ \A j \in 1..(Len(p) - shift) : high[j] = p[shift + j]
  BY <1>1, SplitUnits
<1>3. mer \in Carry /\ mer \in Nat
  BY <1>1 DEF Carry, Unit
<1> DEFINE size == SumLength(high, l, 0)
           sum == Value(high) + mer * Value(Shifted(l, 0))
<1> HIDE DEF low, high
<1>4. /\ upper \in Units
      /\ result.neg <=> sum < 0
      /\ Value(upper) = (IF result.neg THEN -sum ELSE sum)
      /\ \/ Len(upper) = size
         \/ Len(upper) = size + 1 /\ upper[size + 1] # 0
  BY <1>2, <1>3, 0 \in Nat, UnitAddSubIsExact
<1>5. Value(high) \in Nat /\ Value(l) \in Nat /\ Shifted(l, 0) = l
  BY <1>2, 0 \in Nat, ValueNat, ShiftedFacts
<1>6. sum = Value(high) + mer * Value(l) /\ mer * Value(l) \in Nat
  BY <1>3, <1>5
<1> HIDE DEF result, size, sum
<1>7. Value(upper) = Value(high) + mer * Value(l)
  BY <1>4, <1>5, <1>6
<1>8. /\ new \in Units /\ Len(new) = shift + Len(upper)
      /\ \A k \in 1..shift : new[k] = low[k]
      /\ \A k \in 1..Len(upper) : new[shift + k] = upper[k]
  <2> HIDE DEF upper
  <2>1. /\ low \o upper \in Units
        /\ Len(low \o upper) = Len(low) + Len(upper)
        /\ \A k \in 1..Len(low) : (low \o upper)[k] = low[k]
        /\ \A k \in 1..Len(upper) : (low \o upper)[Len(low) + k] = upper[k]
    BY <1>2, <1>4, JoinedUnits
  <2> QED BY <1>2, <2>1
<1>9. upper \in Arrays /\ high \in Arrays /\ new \in Arrays
  BY <1>2, <1>4, <1>8, UnitsAreNatural
<1> HIDE DEF new, upper
<1>10. ValueFrom(upper, 1) = ValueFrom(new, 1 + shift)
  <2>1. ASSUME NEW j \in Nat, j >= 1 PROVE UnitAt(upper, j) = UnitAt(new, j + shift)
    <3>1. Len(upper) \in Nat
      BY <1>9 DEF Arrays
    <3>2. CASE j \in 1..Len(upper)
      <4>1. j + shift \in 1..Len(new) /\ new[shift + j] = upper[j] /\ j + shift = shift + j
        BY <1>8, <3>1, <3>2
      <4> QED BY <3>2, <4>1 DEF UnitAt
    <3>3. CASE j \notin 1..Len(upper)
      <4>1. j + shift \notin 1..Len(new)
        BY <1>8, <2>1, <3>1, <3>3
      <4> QED BY <3>3, <4>1 DEF UnitAt
    <3> QED BY <3>2, <3>3
  <2> QED BY <1>9, <2>1, 1 \in Nat, 1 # 0, SameUnits
<1>11. ValueFrom(high, 1) = ValueFrom(p, 1 + shift)
  <2>1. ASSUME NEW j \in Nat, j >= 1 PROVE UnitAt(high, j) = UnitAt(p, j + shift)
    <3>1. CASE j \in 1..(Len(p) - shift)
      <4>1. /\ j \in 1..Len(high) /\ j + shift \in 1..Len(p)
            /\ high[j] = p[shift + j] /\ j + shift = shift + j
        BY <1>1, <1>2, <3>1
      <4> QED BY <4>1 DEF UnitAt
    <3>2. CASE j \notin 1..(Len(p) - shift)
      <4>1. j \notin 1..Len(high) /\ j + shift \notin 1..Len(p)
        BY <1>1, <1>2, <2>1, <3>2
      <4> QED BY <4>1 DEF UnitAt
    <3> QED BY <3>1, <3>2
  <2> QED BY <1>1, <1>9, <2>1, 1 \in Nat, 1 # 0, SameUnits
<1>12. Value(new) - w[shift] * ValueFrom(new, shift + 1)
         = Value(p) - w[shift] * ValueFrom(p, shift + 1)
  <2>1. \A j \in 1..shift : UnitAt(new, j) = UnitAt(p, j)
    <3> TAKE j \in 1..shift
    <3>1. Len(upper) \in Nat
      BY <1>9 DEF Arrays
    <3>2. j \in 1..Len(new) /\ j \in 1..Len(p)
      BY <1>1, <1>8, <3>1
    <3>3. new[j] = low[j] /\ low[j] = p[j]
      BY <1>2, <1>8
    <3> QED BY <3>2, <3>3 DEF UnitAt
  <2> QED BY <1>1, <1>8, <2>1, LowPart
<1>13. Value(new) = Value(p) + w[shift] * (mer * Value(l))
  <2> DEFINE x == w[shift]
             y == mer * Value(l)
             h == Value(high)
  <2>1. 1 + shift = shift + 1
    OBVIOUS
  <2>2. ValueFrom(p, shift + 1) = h /\ ValueFrom(new, shift + 1) = h + y
    BY <1>7, <1>10, <1>11, <2>1 DEF Value
  <2>3. Value(new) - x * (h + y) = Value(p) - x * h
    BY <1>12, <2>2
  <2>4. x \in Nat /\ h \in Nat /\ y \in Nat /\ Value(new) \in Nat /\ Value(p) \in Nat
    BY <1>1, <1>5, <1>6, <1>8, WeightFacts, ValueNat
  <2> HIDE DEF x, y, h
  <2>5. x * (h + y) = x * h + x * y /\ x * h \in Nat /\ x * y \in Nat
    BY <2>4
  <2>6. Value(new) = Value(p) + x * y
    BY <2>3, <2>4, <2>5
  <2> QED BY <2>6 DEF x, y
<1>14. /\ Len(upper) \in Nat /\ Len(upper) >= Len(l)
       /\ Len(upper) <= Len(l) + 1 \/ Len(upper) <= Len(p) - shift + 1
  <2>1. size = (IF Len(high) > Len(l) + 0 THEN Len(high) ELSE Len(l) + 0)
    BY DEF size, SumLength
  <2>2. Len(upper) = size \/ Len(upper) = size + 1
    BY <1>4
  <2>3. Len(upper) \in Nat
    BY <1>9 DEF Arrays
  <2> QED BY <1>1, <1>2, <2>1, <2>2, <2>3
<1> QED BY <1>8, <1>13, <1>14 DEF new, upper, result, low, high

\* Before the first Unit of the multiplier the product is zero.
LEMMA InitShort == MultiplyInit => ShortProduct
<1> SUFFICES ASSUME NEW l \in Factors, NEW r \in Factors, MultiplyStart(l, r)
             PROVE  ShortProduct
  BY DEF MultiplyInit
<1>1. AccTypes
  <2>1. MultiplyInit
    BY DEF MultiplyInit
  <2> QED BY <2>1, InitBounds DEF AccInv
<1>2. /\ Lhs \in Units /\ Rhs \in Units /\ Len(Lhs) \in Nat /\ Len(Lhs) >= 1
      /\ Len(Rhs) \in Nat /\ Len(Rhs) >= 1
  BY <1>1, OperandUnits
<1>3. CASE IsFast(operands)
  <2> DEFINE n == Len(zlhi) + Len(zrhi)
  <2>1. zacc = [ i \in 1..n |-> 0 ]
    BY <1>3 DEF MultiplyStart, zlhi, zrhi
  <2>2. n \in Nat /\ n >= 2
    BY <1>1, OperandArrays
  <2> HIDE DEF n
  <2>3. zacc # << >>
    BY <2>1, <2>2
  <2> QED BY <2>3 DEF ShortProduct
<1>4. CASE ~IsFast(operands)
  <2>1. row = 1 /\ stage = "units" /\ product = <<0>>
    BY <1>4 DEF MultiplyStart
  <2>2. product \in Units /\ Len(product) = 1
    BY <2>1, UnitFacts DEF Units
  <2>3. Value(product) = 0
    <3>1. << >> \in Arrays /\ Len(<< >>) = 0
      BY DEF Arrays
    <3> DEFINE v == << >>
    <3>2. product \in Arrays /\ v \in Arrays /\ 1 \in Nat /\ 1 # 0 /\ 0 \in Nat
          /\ 1 + 0 = 1 /\ 1 > Len(v)
      BY <2>2, <3>1, UnitsAreNatural
    <3>3. ASSUME NEW j \in Nat, j >= 1 PROVE UnitAt(product, j) = UnitAt(v, j + 0)
      BY <2>1, <3>1 DEF UnitAt
    <3> HIDE DEF v
    <3>4. ValueFrom(product, 1) = ValueFrom(v, 1 + 0)
      BY <3>2, <3>3, SameUnits
    <3>5. ValueFrom(v, 1) = 0
      BY <3>2, FromStep
    <3> QED BY <3>2, <3>4, <3>5 DEF Value
  <2>4. Value(SubSeq(Rhs, 1, row - 1)) = 0
    <3> DEFINE s == SubSeq(Rhs, 1, row - 1)
    <3>1. row - 1 \in 0..Len(Rhs) /\ row - 1 = 0
      BY <1>2, <2>1
    <3>2. s \in Units /\ Len(s) = 0
      BY <1>2, <3>1, SplitUnits
    <3> HIDE DEF s
    <3>3. s \in Arrays /\ 1 > Len(s)
      BY <3>2, UnitsAreNatural
    <3>4. Value(s) = 0
      BY <3>3, 1 \in Nat, 1 # 0, FromStep DEF Value
    <3> QED BY <3>4 DEF s
  <2>5. Value(Lhs) \in Nat
    BY <1>2, ValueNat
  <2>6. Value(product) = Value(Lhs) * Value(SubSeq(Rhs, 1, row - 1))
    BY <2>3, <2>4, <2>5
  <2> QED BY <1>2, <2>1, <2>2, <2>6 DEF ShortProduct
<1> QED BY <1>3, <1>4

\* A Unit of the multiplier adds the multiplicand so many times, at its place.
LEMMA AddUnitExact ==
  ASSUME AccInv, ShortProduct, AddUnit
  PROVE  ShortProduct'
<1>1. /\ stage = "units" /\ zacc = << >> /\ zacc' = zacc /\ operands' = operands
      /\ row' = row + 1
  BY DEF AddUnit, AccInv, AccBounds
<1>2. /\ row \in 1..Len(Rhs) /\ product \in Units
      /\ Len(product) >= row - 1 /\ Len(product) <= Len(Lhs) + row - 1
      /\ Value(product) = Value(Lhs) * Value(SubSeq(Rhs, 1, row - 1))
  BY <1>1 DEF ShortProduct
<1>3. /\ Lhs \in Units /\ Rhs \in Units /\ Len(Lhs) \in Nat /\ Len(Lhs) >= 1
      /\ Len(Rhs) \in Nat /\ Len(Rhs) >= 1
  BY OperandUnits DEF AccInv
<1>4. Lhs' = Lhs /\ Rhs' = Rhs
  BY <1>1 DEF Lhs, Rhs
<1>5. stage' = IF row < Len(Rhs) THEN "units" ELSE "multiplied"
  BY <1>1 DEF AddUnit, Rhs
<1> DEFINE shift == row - 1
           mer == Rhs[row]
           n == Len(Rhs)
           upper == UnitAddSub(SubSeq(product, shift + 1, Len(product)), Lhs, 0, mer).units
           new == product'
<1>6. /\ shift \in Nat /\ shift <= Len(product) /\ shift <= n /\ shift \in 0..n
      /\ shift + 1 = row /\ n \in Nat
  BY <1>2, <1>3
<1>7. mer \in Unit
  BY <1>2, <1>3 DEF Units
<1>8. new = IF mer # 0 THEN SubSeq(product, 1, shift) \o upper ELSE Append(product, 0)
  BY <1>6 DEF AddUnit, Lhs, Rhs
<1>9. PICK w : Weights(w, n)
  BY <1>6, WeightsExist
<1>10. mer \in Nat /\ w[shift] \in Nat /\ Value(Lhs) \in Nat /\ Value(product) \in Nat
       /\ Len(product) \in Nat /\ UnitBase \in Nat
  <2>1. mer \in Nat
    BY <1>7, UnitFacts
  <2>2. w[shift] \in Nat
    <3> HIDE DEF shift, n
    <3> QED BY <1>6, <1>9, WeightFacts
  <2> QED BY <1>2, <1>3, <2>1, <2>2, ValueNat, UnitFacts DEF Units
<1> HIDE DEF new
<1>11. /\ new \in Units
       /\ Value(new) = Value(product) + w[shift] * (mer * Value(Lhs))
       /\ Len(new) >= row /\ Len(new) <= Len(Lhs) + row
  <2>1. CASE mer # 0
    <3>1. new = SubSeq(product, 1, shift) \o upper
      BY <1>8, <2>1
    <3> DEFINE joined == SubSeq(product, 1, shift) \o upper
    <3> HIDE DEF shift, n, mer
    <3>2. /\ joined \in Units
          /\ Value(joined) = Value(product) + w[shift] * (mer * Value(Lhs))
          /\ Len(joined) = shift + Len(upper)
          /\ Len(upper) \in Nat /\ Len(upper) >= Len(Lhs)
          /\ Len(upper) <= Len(Lhs) + 1 \/ Len(upper) <= Len(product) - shift + 1
      BY <1>2, <1>3, <1>6, <1>7, <1>9, AddedUnit
    <3>3. Len(joined) \in Nat
      BY <3>2 DEF Units
    <3>4. new = joined
      BY <3>1
    <3> HIDE DEF upper, joined
    <3>5. Len(joined) >= row /\ Len(joined) <= Len(Lhs) + row
      <4>1. /\ Len(joined) = shift + Len(upper) /\ Len(upper) \in Nat
            /\ Len(upper) >= Len(Lhs)
            /\ Len(upper) <= Len(Lhs) + 1 \/ Len(upper) <= Len(product) - shift + 1
        BY <3>2
      <4>2. /\ shift \in Nat /\ shift + 1 = row /\ Len(Lhs) \in Nat /\ Len(Lhs) >= 1
            /\ Len(product) \in Nat /\ Len(product) <= Len(Lhs) + shift
        BY <1>2, <1>3, <1>6, <1>10
      <4> DEFINE a == Len(upper)
                 b == Len(Lhs)
                 c == Len(product)
                 d == Len(joined)
      <4> HIDE DEF a, b, c, d
      <4>3. d >= row /\ d <= b + row
        BY <4>1, <4>2 DEF a, b, c, d
      <4> QED BY <4>3 DEF b, d
    <3> QED BY <3>2, <3>4, <3>5
  <2>2. CASE mer = 0
    <3>1. new = Append(product, 0)
      BY <1>8, <2>2
    <3>2. /\ new \in Units /\ Len(new) = Len(product) + 1
          /\ new[Len(product) + 1] = 0 /\ \A j \in 1..Len(product) : new[j] = product[j]
      BY <1>2, <3>1, UnitFacts DEF Units
    <3>3. ASSUME NEW j \in Nat, j >= 1 PROVE UnitAt(new, j) = UnitAt(product, j + 0)
      BY <1>10, <3>2 DEF UnitAt
    <3>4. new \in Arrays /\ product \in Arrays
      BY <1>2, <3>2, UnitsAreNatural
    <3>5. ValueFrom(new, 1) = ValueFrom(product, 1 + 0)
      BY <3>3, <3>4, 1 \in Nat, 1 # 0, 0 \in Nat, SameUnits
    <3>6. 1 + 0 = 1
      OBVIOUS
    <3>7. Value(new) = Value(product)
      BY <3>5, <3>6 DEF Value
    <3>8. w[shift] * (mer * Value(Lhs)) = 0
      <4>1. mer * Value(Lhs) = 0
        BY <1>10, <2>2
      <4> HIDE DEF shift
      <4> QED BY <1>10, <4>1
    <3> QED BY <1>2, <1>3, <1>10, <3>2, <3>7, <3>8
  <2> QED BY <2>1, <2>2
<1> DEFINE old == Value(SubSeq(Rhs, 1, row - 1))
           all == Value(SubSeq(Rhs, 1, row))
<1>12. all = old + w[shift] * mer
  <2>1. /\ UnitBase \in Nat /\ UnitBase >= 1 /\ Powers(UnitBase, w, n) /\ Rhs \in Arrays
        /\ row \in 1..n /\ row <= Len(Rhs)
    BY <1>2, <1>3, <1>9, UnitFacts, UnitsAreNatural DEF Weights
  <2> HIDE DEF n
  <2>2. Horner(UnitBase, SubSeq(Rhs, 1, row), 1)
          = Horner(UnitBase, SubSeq(Rhs, 1, row - 1), 1) + w[row - 1] * Rhs[row]
    BY <1>6, <2>1, ExtendedItems
  <2> QED BY <2>2 DEF Value, ValueFrom
<1>13. old \in Nat
  <2> DEFINE s == SubSeq(Rhs, 1, row - 1)
  <2>1. row - 1 \in 0..Len(Rhs)
    BY <1>2, <1>3
  <2>2. s \in Units
    BY <1>3, <2>1, SplitUnits
  <2> HIDE DEF s
  <2>3. Value(s) \in Nat
    BY <2>2, ValueNat
  <2> QED BY <2>3 DEF s
<1>14. Value(new) = Value(Lhs) * all
  <2> DEFINE a == Value(Lhs)
             x == w[shift]
  <2>1. Value(new) = a * old + x * (mer * a) /\ all = old + x * mer
    BY <1>2, <1>11, <1>12
  <2>2. a \in Nat /\ x \in Nat /\ mer \in Nat
    BY <1>10
  <2> HIDE DEF a, x, mer, old, all
  <2>3. a * (old + x * mer) = a * old + x * (mer * a)
    BY <1>13, <2>2
  <2>4. Value(new) = a * all
    BY <2>1, <2>3
  <2> QED BY <2>4 DEF a
<1>15. (row + 1) - 1 = row /\ row + 1 \in 1..(Len(Rhs) + 1)
  BY <1>2, <1>3
<1>16. /\ stage' \in {"units", "multiplied"}
       /\ stage' = "units" => row + 1 <= Len(Rhs)
       /\ stage' = "multiplied" => row + 1 = Len(Rhs) + 1
  BY <1>2, <1>3, <1>5
<1>17. /\ Len(new) >= (row + 1) - 1 /\ Len(new) <= Len(Lhs) + (row + 1) - 1
       /\ Value(new) = Value(Lhs) * Value(SubSeq(Rhs, 1, (row + 1) - 1))
  <2>1. Len(Lhs) + (row + 1) - 1 = Len(Lhs) + row
    BY <1>2, <1>3
  <2> QED BY <1>11, <1>14, <1>15, <2>1
<1> QED BY <1>1, <1>4, <1>11, <1>15, <1>16, <1>17 DEF ShortProduct, new

----------------------------------------------------------------------------
(* The Units of the product, by the long path: items taken apart.          *)

\* Taking an item apart, Unit by Unit.
LEMMA ItemRestsUnfold ==
  ASSUME NEW x \in Nat
  PROVE  /\ ItemRests(x) \in [0..perItem -> Nat]
         /\ ItemRests(x)[0] = x
         /\ \A i \in 1..perItem : ItemRests(x)[i] = ItemRests(x)[i - 1] \div UnitBase
<1> DEFINE n == perItem
           S == Nat
           base == x
           Val(s, i) == s \div UnitBase
           Eq(f) == f = [ i \in 0..n |-> IF i = 0 THEN base ELSE Val(f[i - 1], i) ]
           step == [ y \in S \X (1..n) |-> Val(y[1], y[2]) ]
           g == ItemRests(x)
<1>1. n \in Nat /\ base \in S
  BY PowersOfItem
<1>2. ASSUME NEW s \in S, NEW i \in 1..n PROVE Val(s, i) \in S
  BY UnitFacts
<1>3. \A s \in S, i \in 1..n : step[<<s, i>>] = Val(s, i)
  OBVIOUS
<1>4. g = CHOOSE f : Eq(f)
  BY DEF ItemRests
<1> HIDE DEF step, n, base, Val, S, g
<1>5. PICK f : Solves(f, S, base, n, step)
  <2>1. Steps(step, S, n)
    BY <1>2, <1>3 DEF Steps
  <2> QED BY <1>1, <2>1, Recursion
<1>6. Eq(f)
  <2>1. ASSUME NEW i \in 0..n, i # 0 PROVE f[i] = Val(f[i - 1], i)
    <3>1. i \in 1..n /\ f[i - 1] \in S
      BY <1>1, <1>5, <2>1 DEF Solves
    <3> QED BY <1>3, <1>5, <3>1 DEF Solves
  <2> QED BY <1>5, <2>1 DEF Solves
<1>7. Eq(g)
  BY <1>4, <1>6
<1>8. g[0] = base /\ \A i \in 1..n : g[i] = Val(g[i - 1], i)
  BY <1>1, <1>7
<1>9. g = [ i \in 0..n |-> g[i] ]
  BY <1>7
<1> HIDE DEF Eq
<1>10. g \in [0..n -> S]
  <2>1. g[0] \in S
    BY <1>1, <1>8
  <2>2. ASSUME NEW i \in 1..n, g[i - 1] \in S PROVE g[i] \in S
    BY <1>2, <1>8, <2>2
  <2> QED BY <1>1, <1>9, <2>1, <2>2, Typed
<1> QED BY <1>8, <1>10 DEF g, n, base, Val, S

\* No more is left of an item than what was not taken yet; at the last Unit, no
\* more than a Unit.
LEMMA RestFits ==
  ASSUME NEW x \in 0..(FASTBASE - 1)
  PROVE  ItemRests(x)[perItem - 1] \in Unit
<1> DEFINE rest == ItemRests(x)
           B == UnitBase
           T == { p \in 0..perItem : ~(rest[p] * powers[p] <= x) }
<1>1. perItem \in Nat /\ perItem >= 1 /\ FASTBASE = powers[perItem] /\ FASTBASE \in Nat
      /\ B \in Nat /\ B >= 1 /\ x \in Nat /\ x < FASTBASE
  BY PowersOfItem, UnitFacts
<1>2. /\ powers[0] = 1
      /\ \A p \in 0..perItem : powers[p] \in Nat
      /\ \A p \in 1..perItem : powers[p] = B * powers[p - 1]
  BY PowersUnfold
<1>3. /\ rest[0] = x
      /\ \A p \in 0..perItem : rest[p] \in Nat
      /\ \A p \in 1..perItem : rest[p] = rest[p - 1] \div B
  BY <1>1, ItemRestsUnfold
<1> HIDE DEF rest, B
<1>4. 0 \notin T
  <2>1. rest[0] * powers[0] = x
    BY <1>1, <1>2, <1>3
  <2> QED BY <1>1, <2>1
<1>5. ASSUME NEW p \in 1..perItem, p - 1 \notin T PROVE p \notin T
  <2> DEFINE r == rest[p - 1]
             q == rest[p]
             size == powers[p - 1]
  <2>1. p - 1 \in 0..perItem /\ p \in 0..perItem
    BY <1>1
  <2>2. r \in Nat /\ q \in Nat /\ size \in Nat /\ r * size <= x
    BY <1>2, <1>3, <1>5, <2>1
  <2>3. q = r \div B /\ powers[p] = B * size
    BY <1>2, <1>3
  <2> HIDE DEF r, q, size
  <2>4. q * B <= r
    BY <1>1, <2>2, <2>3
  <2>5. (q * B) * size <= r * size
    BY <1>1, <2>2, <2>4
  <2>6. q * (B * size) = (q * B) * size /\ (q * B) * size \in Nat /\ r * size \in Nat
    BY <1>1, <2>2
  <2>7. q * powers[p] <= x
    BY <1>1, <2>2, <2>3, <2>5, <2>6
  <2> QED BY <2>7 DEF q
<1>6. /\ T \subseteq 0..perItem /\ perItem - 1 \in 0..perItem /\ perItem \in 1..perItem
      /\ perItem - 1 \notin T => rest[perItem - 1] * powers[perItem - 1] <= x
  BY <1>1
<1> HIDE DEF T
<1>7. T = {}
  BY <1>1, <1>4, <1>5, <1>6, Ascent
<1> DEFINE r == rest[perItem - 1]
           size == powers[perItem - 1]
<1>8. r * size <= x /\ x < B * size /\ r \in Nat /\ size \in Nat
  BY <1>1, <1>2, <1>3, <1>6, <1>7
<1> HIDE DEF r, size
<1>9. r < B
  <2> SUFFICES ASSUME r >= B PROVE FALSE
    BY <1>1, <1>8
  <2>1. r * size >= B * size /\ r * size \in Nat /\ B * size \in Nat
    BY <1>1, <1>8
  <2> QED BY <1>1, <1>8, <2>1
<1> QED BY <1>1, <1>8, <1>9 DEF Unit, B, r, rest

\* The Units of an item hold digits.
LEMMA UnitsOfItemFacts ==
  ASSUME NEW x \in 0..(FASTBASE - 1)
  PROVE  /\ UnitsOfItem(x) \in Units /\ Len(UnitsOfItem(x)) = perItem
         /\ \A p \in 1..(perItem - 1) : UnitsOfItem(x)[p] = ItemRests(x)[p - 1] % UnitBase
         /\ UnitsOfItem(x)[perItem] = ItemRests(x)[perItem - 1]
<1> DEFINE rest == ItemRests(x)
           take(p) == IF p < perItem THEN rest[p - 1] % UnitBase ELSE rest[p - 1]
<1>1. perItem \in Nat /\ perItem >= 1 /\ UnitBase \in Nat /\ UnitBase >= 10 /\ x \in Nat
  BY PowersOfItem, UnitFacts
<1>2. \A p \in 0..perItem : rest[p] \in Nat
  BY <1>1, ItemRestsUnfold
<1>3. rest[perItem - 1] \in Unit
  BY RestFits
<1>4. UnitsOfItem(x) = [ p \in 1..perItem |-> take(p) ]
  BY DEF UnitsOfItem
<1> HIDE DEF rest
<1>5. \A p \in 1..perItem : take(p) \in Unit
  <2> TAKE p \in 1..perItem
  <2>1. p - 1 \in 0..perItem
    BY <1>1
  <2>2. rest[p - 1] \in Nat
    BY <1>2, <2>1
  <2>3. CASE p < perItem
    <3>1. rest[p - 1] % UnitBase \in 0..(UnitBase - 1)
      BY <1>1, <2>2
    <3> QED BY <2>3, <3>1 DEF Unit
  <2>4. CASE ~(p < perItem)
    <3>1. p = perItem
      BY <1>1, <2>4
    <3> QED BY <1>3, <3>1
  <2> QED BY <2>3, <2>4
<1>6. \A p \in 1..(perItem - 1) : p \in 1..perItem /\ take(p) = rest[p - 1] % UnitBase
  BY <1>1
<1>7. perItem \in 1..perItem /\ take(perItem) = rest[perItem - 1]
  BY <1>1
<1> HIDE DEF take
<1>8. UnitsOfItem(x) \in Units /\ Len(UnitsOfItem(x)) = perItem
  BY <1>1, <1>4, <1>5 DEF Units
<1> QED BY <1>4, <1>6, <1>7, <1>8 DEF rest

\* Assembling the Units of an item gives the item again.
LEMMA ItemRestored ==
  ASSUME NEW units \in Arrays, NEW at \in Nat \ {0}, NEW x \in 0..(FASTBASE - 1),
         \A p \in 1..perItem :
           UnitAt(units, (at - 1) * perItem + p) = UnitsOfItem(x)[p]
  PROVE  ItemSums(units, at)[perItem] = x
<1> DEFINE rest == ItemRests(x)
           sum == ItemSums(units, at)
           B == UnitBase
           T == { p \in 0..(perItem - 1) : sum[p] + rest[p] * powers[p] # x }
<1>1. perItem \in Nat /\ perItem >= 1 /\ perItem - 1 \in Nat /\ B \in Nat /\ B >= 1 /\ x \in Nat
  BY PowersOfItem, UnitFacts
<1>2. /\ powers[0] = 1
      /\ \A p \in 0..perItem : powers[p] \in Nat
      /\ \A p \in 1..perItem : powers[p] = B * powers[p - 1]
  BY PowersUnfold
<1>3. /\ rest[0] = x
      /\ \A p \in 0..perItem : rest[p] \in Nat
      /\ \A p \in 1..perItem : rest[p] = rest[p - 1] \div B
  BY <1>1, ItemRestsUnfold
<1>4. /\ sum[0] = 0
      /\ \A p \in 0..perItem : sum[p] \in Nat
      /\ \A p \in 1..perItem :
           sum[p] = sum[p - 1] + UnitAt(units, (at - 1) * perItem + p) * powers[p - 1]
  BY ItemSumsUnfold
<1>5. /\ \A p \in 1..(perItem - 1) : UnitsOfItem(x)[p] = rest[p - 1] % B
      /\ UnitsOfItem(x)[perItem] = rest[perItem - 1]
  BY UnitsOfItemFacts
<1> HIDE DEF rest, sum, B
<1>6. 0 \notin T
  <2>1. rest[0] * powers[0] = x
    BY <1>1, <1>2, <1>3
  <2> QED BY <1>1, <1>4, <2>1
<1>7. ASSUME NEW p \in 1..(perItem - 1), p - 1 \notin T PROVE p \notin T
  <2> DEFINE r == rest[p - 1]
             q == rest[p]
             u == r % B
             size == powers[p - 1]
             low == sum[p - 1]
  <2>1. p - 1 \in 0..perItem /\ p \in 1..perItem /\ p \in 0..perItem /\ p - 1 \in 0..(perItem - 1)
    BY <1>1
  <2>2. r \in Nat /\ q \in Nat /\ size \in Nat /\ low \in Nat /\ low + r * size = x
    BY <1>2, <1>3, <1>4, <1>7, <2>1
  <2>3. q = r \div B /\ powers[p] = B * size
    BY <1>2, <1>3, <2>1
  <2>4. sum[p] = low + u * size
    <3>1. UnitAt(units, (at - 1) * perItem + p) = UnitsOfItem(x)[p]
      BY <2>1
    <3> QED BY <1>4, <1>5, <2>1, <3>1
  <2>5. u \in Nat /\ r = q * B + u
    <3> HIDE DEF r, q
    <3>1. u \in 0..(B - 1) /\ r = B * q + u
      BY <1>1, <2>2, <2>3
    <3> QED BY <1>1, <2>2, <3>1
  <2> HIDE DEF r, q, u, size, low
  <2>6. (q * B + u) * size = q * (B * size) + u * size
    BY <1>1, <2>2, <2>5
  <2>7. q * (B * size) \in Nat /\ u * size \in Nat
    BY <1>1, <2>2, <2>5
  <2>8. sum[p] + q * powers[p] = x
    BY <2>2, <2>3, <2>4, <2>5, <2>6, <2>7
  <2> QED BY <2>8 DEF q
<1>8. /\ T \subseteq 0..(perItem - 1) /\ perItem - 1 \in 0..(perItem - 1)
      /\ perItem - 1 \notin T => sum[perItem - 1] + rest[perItem - 1] * powers[perItem - 1] = x
  BY <1>1
<1> HIDE DEF T
<1>9. T = {}
  BY <1>1, <1>6, <1>7, <1>8, Ascent
<1>10. sum[perItem] = sum[perItem - 1] + rest[perItem - 1] * powers[perItem - 1]
  <2>1. perItem \in 1..perItem
    BY <1>1
  <2>2. UnitAt(units, (at - 1) * perItem + perItem) = rest[perItem - 1]
    BY <1>5, <2>1
  <2> QED BY <1>4, <2>1, <2>2
<1> QED BY <1>8, <1>9, <1>10 DEF sum

\* The first k items of z, taken apart.
Apart(units, z, k) ==
  /\ units \in Units /\ Len(units) = k * perItem
  /\ \A i \in 1..k, p \in 1..perItem :
       units[(i - 1) * perItem + p] = UnitsOfItem(z[i])[p]

\* One more item.
LEMMA OneMoreApart ==
  ASSUME NEW units, NEW z, NEW k \in Nat, Apart(units, z, k),
         z[k + 1] \in 0..(FASTBASE - 1)
  PROVE  Apart(units \o UnitsOfItem(z[k + 1]), z, k + 1)
<1> DEFINE part == UnitsOfItem(z[k + 1])
           new == units \o part
<1>1. /\ units \in Units /\ Len(units) = k * perItem
      /\ \A i \in 1..k, p \in 1..perItem :
           units[(i - 1) * perItem + p] = UnitsOfItem(z[i])[p]
  BY DEF Apart
<1>2. part \in Units /\ Len(part) = perItem
  BY UnitsOfItemFacts
<1>3. perItem \in Nat /\ perItem >= 1 /\ k * perItem \in Nat
  BY PowersOfItem
<1> HIDE DEF part
<1>4. /\ new \in Units /\ Len(new) = Len(units) + Len(part)
      /\ \A j \in 1..Len(units) : new[j] = units[j]
      /\ \A j \in 1..Len(part) : new[Len(units) + j] = part[j]
  BY <1>1, <1>2, JoinedUnits
<1> HIDE DEF new
<1>5. Len(new) = (k + 1) * perItem
  <2>1. (k + 1) * perItem = k * perItem + perItem
    BY <1>3
  <2> QED BY <1>1, <1>2, <1>4, <2>1
<1>6. ASSUME NEW i \in 1..(k + 1), NEW p \in 1..perItem
      PROVE  new[(i - 1) * perItem + p] = UnitsOfItem(z[i])[p]
  <2>1. CASE i = k + 1
    <3>1. (i - 1) * perItem + p = Len(units) + p
      <4>1. i - 1 = k
        BY <2>1
      <4> QED BY <1>1, <4>1
    <3>2. p \in 1..Len(part)
      BY <1>2
    <3> QED BY <1>4, <2>1, <3>1, <3>2 DEF part
  <2>2. CASE i # k + 1
    <3>1. i \in 1..k
      BY <2>2
    <3> DEFINE at == (i - 1) * perItem
    <3>2. at + perItem <= k * perItem /\ at \in Nat
      <4>1. i - 1 \in Nat /\ i <= k /\ i \in Nat
        BY <3>1
      <4>2. i * perItem <= k * perItem
        BY <1>3, <4>1
      <4>3. (i - 1) * perItem = i * perItem - perItem /\ i * perItem \in Nat
        BY <1>3, <4>1
      <4>4. at \in Nat
        BY <1>3, <4>1
      <4> QED BY <1>3, <4>2, <4>3, <4>4
    <3> HIDE DEF at
    <3>3. at + p \in 1..Len(units)
      BY <1>1, <1>3, <3>2
    <3>4. new[at + p] = units[at + p]
      BY <1>4, <3>3
    <3> QED BY <1>1, <3>1, <3>4 DEF at
  <2> QED BY <2>1, <2>2
<1> QED BY <1>4, <1>5, <1>6 DEF Apart, new, part

\* All of them: the Units stand for what the items stood for.
LEMMA AllApart ==
  ASSUME NEW units, NEW z \in Arrays, Len(z) >= 1, Apart(units, z, Len(z)),
         \A i \in 1..Len(z) : z[i] \in 0..(FASTBASE - 1)
  PROVE  Value(units) = Amount(z)
<1> DEFINE k == Len(z)
           y == Items(units)
<1>1. /\ units \in Units /\ Len(units) = k * perItem
      /\ \A i \in 1..k, p \in 1..perItem :
           units[(i - 1) * perItem + p] = UnitsOfItem(z[i])[p]
  BY DEF Apart
<1>2. k \in Nat /\ k >= 1 /\ perItem \in Nat /\ perItem >= 1
  BY PowersOfItem DEF Arrays
<1>3. Len(units) >= 1
  <2>1. k * perItem >= 1 * perItem
    BY <1>2
  <2> QED BY <1>1, <1>2, <2>1
<1>4. units \in Units \ {<< >>}
  <2>1. Len(<< >>) = 0
    OBVIOUS
  <2>2. units # << >>
    BY <1>3, <2>1
  <2> QED BY <1>1, <2>2
<1>5. /\ y \in Arrays /\ Amount(y) = Value(units)
      /\ \A i \in 1..Len(y) : y[i] = ItemSums(units, i)[perItem]
  BY <1>4, ItemsFacts, ItemsAmount
<1>6. Len(y) = k
  <2> DEFINE l == Len(units) + perItem - 1
             q == l \div perItem
  <2>1. Len(y) = q
    <3>0. l \in Nat
      BY <1>1, <1>2, <1>3
    <3>1. q \in Nat
      <4> HIDE DEF l
      <4> QED BY <1>2, <3>0
    <3>2. y = [ i \in 1..q |-> ItemSums(units, i)[perItem] ]
      BY DEF Items
    <3> HIDE DEF q, y
    <3> QED BY <3>1, <3>2
  <2>2. l \in Nat /\ l = k * perItem + perItem - 1 /\ k * perItem \in Nat
    BY <1>1, <1>2, <1>3
  <2> HIDE DEF l, y
  <2>3. q \in Nat /\ q * perItem <= l /\ l < q * perItem + perItem
    BY <1>2, <2>2
  <2> HIDE DEF q, k
  <2>4. q <= k
    <3> SUFFICES ASSUME q >= k + 1 PROVE FALSE
      BY <1>2, <2>3
    <3>1. q * perItem >= (k + 1) * perItem
      BY <1>2, <2>3
    <3>2. (k + 1) * perItem = k * perItem + perItem /\ q * perItem \in Nat
      BY <1>2, <2>3
    <3> QED BY <1>2, <2>2, <2>3, <3>1, <3>2
  <2>5. q >= k
    <3> SUFFICES ASSUME q + 1 <= k PROVE FALSE
      BY <1>2, <2>3
    <3>1. (q + 1) * perItem <= k * perItem
      BY <1>2, <2>3
    <3>2. (q + 1) * perItem = q * perItem + perItem /\ q * perItem \in Nat
      BY <1>2, <2>3
    <3> QED BY <1>2, <2>2, <2>3, <3>1, <3>2
  <2> QED BY <1>2, <2>1, <2>3, <2>4, <2>5
<1>7. ASSUME NEW i \in 1..k PROVE y[i] = z[i]
  <2>1. i \in Nat \ {0} /\ i \in 1..Len(y) /\ z[i] \in 0..(FASTBASE - 1)
    BY <1>2, <1>6
  <2>2. ASSUME NEW p \in 1..perItem
        PROVE  UnitAt(units, (i - 1) * perItem + p) = UnitsOfItem(z[i])[p]
    <3> DEFINE at == (i - 1) * perItem
    <3>1. at \in Nat /\ at + perItem <= Len(units)
      <4>1. i - 1 \in Nat /\ i <= k /\ i \in Nat
        BY <1>2
      <4>2. i * perItem <= k * perItem
        BY <1>2, <4>1
      <4>3. (i - 1) * perItem = i * perItem - perItem /\ i * perItem \in Nat
        BY <1>2, <4>1
      <4>4. at \in Nat
        BY <1>2, <4>1
      <4> QED BY <1>1, <1>2, <4>2, <4>3, <4>4
    <3> HIDE DEF at
    <3>2. at + p \in 1..Len(units)
      BY <1>2, <3>1
    <3>3. UnitAt(units, at + p) = units[at + p]
      BY <3>2 DEF UnitAt
    <3> QED BY <1>1, <3>3 DEF at
  <2>3. units \in Arrays
    BY <1>1, UnitsAreNatural
  <2>4. ItemSums(units, i)[perItem] = z[i]
    BY <2>1, <2>2, <2>3, ItemRestored
  <2> QED BY <1>5, <2>1, <2>4
<1> HIDE DEF y
<1>8. ASSUME NEW j \in Nat, j >= 1 PROVE UnitAt(y, j) = UnitAt(z, j + 0)
  <2>1. j + 0 = j
    OBVIOUS
  <2> QED BY <1>6, <1>7, <2>1 DEF UnitAt
<1>9. FASTBASE \in Nat /\ FASTBASE >= 1 /\ y \in Arrays /\ z \in Arrays
  BY <1>5, PowersOfItem
<1>10. Horner(FASTBASE, y, 1) = Horner(FASTBASE, z, 1 + 0)
  <2>1. ASSUME NEW n \in Nat, n = 1, NEW shift \in Nat, shift = 0
        PROVE  Horner(FASTBASE, y, n) = Horner(FASTBASE, z, n + shift)
    <3>1. n # 0 /\ \A j \in Nat : j >= n => UnitAt(y, j) = UnitAt(z, j + shift)
      BY <1>8, <2>1
    <3> QED BY <1>9, <3>1, SameItems
  <2> QED BY <2>1
<1>11. 1 + 0 = 1
  OBVIOUS
<1> QED BY <1>5, <1>10, <1>11 DEF Amount

\* While rows are added there is no product yet; then there are the Units of the
\* items taken apart so far.
LongProduct ==
  zacc # << >> =>
    /\ stage \in {"rows", "carries"} => product = << >>
    /\ stage = "unchunk" =>
         item \in 1..Len(zacc) /\ Apart(product, zacc, item - 1)
    /\ stage = "multiplied" => Apart(product, zacc, Len(zacc))

ProductInv == AccExact /\ ShortProduct /\ LongProduct

\* A multiplication starts with what the argument needs.
LEMMA InitProduct == MultiplyInit => ProductInv
<1> SUFFICES ASSUME MultiplyInit PROVE ProductInv
  OBVIOUS
<1>1. AccExact /\ ShortProduct
  BY InitAcc, InitShort
<1>2. PICK l \in Factors, r \in Factors : MultiplyStart(l, r)
  BY DEF MultiplyInit
<1>3. CASE IsFast(operands)
  BY <1>1, <1>2, <1>3 DEF MultiplyStart, ProductInv, LongProduct
<1>4. CASE ~IsFast(operands)
  <2>1. zacc = [ i \in 1..0 |-> 0 ]
    BY <1>2, <1>4 DEF MultiplyStart
  <2>2. zacc = << >>
    BY <2>1
  <2> QED BY <1>1, <2>2 DEF ProductInv, LongProduct
<1> QED BY <1>3, <1>4

\* A step keeps the Units of the items already taken apart.
LEMMA NextLong ==
  ASSUME ProductInv, AccExact', [MultiplyNext]_productVars
  PROVE  LongProduct'
<1>1. /\ AccInv /\ AccTypes /\ AccBounds /\ AccTypes' /\ AccShape /\ LongProduct
  BY DEF ProductInv, AccExact, AccInv
<1>2. CASE AddRow
  <2>1. /\ stage = "rows" /\ zacc # << >> /\ product' = product
        /\ stage' \in {"rows", "carries"}
    BY <1>1, <1>2 DEF AddRow, AccBounds
  <2> QED BY <1>1, <2>1 DEF LongProduct
<1>3. CASE ResolveItem
  <2>1. /\ stage = "carries" /\ zacc # << >> /\ product' = product
        /\ stage' \in {"carries", "rows", "unchunk"}
        /\ stage' = "unchunk" => item' = 1
    BY <1>1, <1>3 DEF ResolveItem, AccBounds
  <2>2. product' = << >>
    BY <1>1, <2>1 DEF LongProduct
  <2>3. Apart(<< >>, zacc', 0)
    <3>1. << >> \in Units /\ Len(<< >>) = 0 /\ 0 * perItem = 0
      BY PowersOfItem DEF Units
    <3> QED BY <3>1 DEF Apart
  <2>4. zacc' # << >> => Len(zacc') \in Nat /\ Len(zacc') >= 1
    <3>1. zacc' \in Seq(Nat)
      BY <1>1 DEF AccTypes
    <3> QED BY <3>1
  <2>5. stage' = "unchunk" => item' - 1 = 0
    BY <2>1
  <2> QED BY <2>1, <2>2, <2>3, <2>4, <2>5 DEF LongProduct
<1>4. CASE UnchunkItem
  <2> DEFINE k == item - 1
  <2>1. /\ stage = "unchunk" /\ zacc' = zacc
        /\ product' = product \o UnitsOfItem(zacc[item])
        /\ IF item < Len(zacc) THEN item' = item + 1 /\ stage' = stage
                               ELSE item' = item /\ stage' = "multiplied"
    BY <1>4 DEF UnchunkItem
  <2>2. CASE zacc = << >>
    BY <2>1, <2>2 DEF LongProduct
  <2>3. CASE zacc # << >>
    <3>1. item \in 1..Len(zacc) /\ Apart(product, zacc, k)
      BY <1>1, <2>1, <2>3 DEF LongProduct
    <3>2. Len(zacc) \in Nat /\ zacc[item] \in Nat /\ zacc[item] <= TopItem
      BY <1>1, <2>1, <3>1 DEF AccTypes, AccBounds
    <3>3. k \in Nat /\ k + 1 = item /\ (item + 1) - 1 = item
      BY <3>1
    <3>4. zacc[k + 1] \in 0..(FASTBASE - 1)
      BY <3>2, <3>3, PowersOfItem DEF TopItem
    <3> HIDE DEF k
    <3>5. Apart(product \o UnitsOfItem(zacc[k + 1]), zacc, k + 1)
      BY <3>1, <3>3, <3>4, OneMoreApart
    <3>6. Apart(product', zacc', item)
      BY <2>1, <3>3, <3>5
    <3>7. CASE item < Len(zacc)
      <4>1. item' = item + 1 /\ stage' = "unchunk" /\ item + 1 \in 1..Len(zacc)
        BY <2>1, <3>1, <3>2, <3>7
      <4> QED BY <2>1, <3>3, <3>6, <4>1 DEF LongProduct
    <3>8. CASE ~(item < Len(zacc))
      <4>1. stage' = "multiplied" /\ item = Len(zacc)
        BY <2>1, <3>1, <3>2, <3>8
      <4> QED BY <2>1, <3>6, <4>1 DEF LongProduct
    <3> QED BY <3>7, <3>8
  <2> QED BY <2>2, <2>3
<1>5. CASE AddUnit
  <2>1. zacc' = << >>
    BY <1>1, <1>5 DEF AddUnit, AccBounds
  <2> QED BY <2>1 DEF LongProduct
<1>6. CASE UNCHANGED productVars
  BY <1>1, <1>6 DEF LongProduct, productVars
<1> QED BY <1>2, <1>3, <1>4, <1>5, <1>6 DEF MultiplyNext

\* A step keeps the product of the Units dealt with.
LEMMA NextShort ==
  ASSUME ProductInv, [MultiplyNext]_productVars
  PROVE  ShortProduct'
<1>1. /\ AccInv /\ AccBounds /\ AccTypes /\ ShortProduct
  BY DEF ProductInv, AccExact, AccInv
<1>2. CASE AddRow
  <2>1. zacc' # << >>
    <3>1. AccExact'
      BY <1>2, NextAcc DEF ProductInv, MultiplyNext
    <3>2. stage' \in {"rows", "carries"}
      BY <1>2 DEF AddRow
    <3> QED BY <3>1, <3>2 DEF AccExact, AccInv, AccBounds
  <2> QED BY <2>1 DEF ShortProduct
<1>3. CASE ResolveItem
  <2>1. Len(zacc') = Len(zacc) /\ Len(zacc) \in Nat /\ Len(zacc) # 0
    <3>1. zacc \in Seq(Nat) /\ zacc # << >>
      BY <1>1, <1>3 DEF ResolveItem, AccBounds, AccTypes
    <3>2. Len(zacc) \in Nat /\ Len(zacc) # 0
      BY <3>1
    <3>3. Len(zacc') = Len(zacc)
      BY <1>3, <3>2 DEF ResolveItem, Resolve
    <3> QED BY <3>2, <3>3
  <2>2. Len(<< >>) = 0
    OBVIOUS
  <2>3. zacc' # << >>
    BY <2>1, <2>2
  <2> QED BY <2>3 DEF ShortProduct
<1>4. CASE UnchunkItem
  <2>1. zacc # << >> /\ zacc' = zacc
    BY <1>1, <1>4 DEF UnchunkItem, ShortProduct
  <2> QED BY <2>1 DEF ShortProduct
<1>5. CASE AddUnit
  BY <1>1, <1>5, AddUnitExact
<1>6. CASE UNCHANGED productVars
  BY <1>1, <1>6 DEF ShortProduct, productVars, Lhs, Rhs
<1> QED BY <1>2, <1>3, <1>4, <1>5, <1>6 DEF MultiplyNext

\* A step of either path keeps the product exact.
LEMMA NextProduct ==
  ASSUME ProductInv, [MultiplyNext]_productVars
  PROVE  ProductInv'
<1>1. AccExact'
  BY NextAcc DEF ProductInv
<1> QED BY <1>1, NextLong, NextShort DEF ProductInv

\* When it is finished, by either path, the product stands for the product of
\* the operands, and has no more Units than there is room for.
LEMMA ProductValue ==
  ASSUME ProductInv, stage = "multiplied"
  PROVE  /\ product \in Units
         /\ Value(product) = Value(Lhs) * Value(Rhs)
         /\ Len(product) <= IF zacc = << >> THEN Len(Lhs) + Len(Rhs)
                                            ELSE Len(zacc) * perItem
<1>1. AccTypes /\ AccBounds /\ AccShape /\ AccAmount /\ ShortProduct /\ LongProduct
  BY DEF ProductInv, AccExact, AccInv
<1>2. /\ Lhs \in Units \ {<< >>} /\ Rhs \in Units \ {<< >>} /\ Rhs \in Seq(Unit)
      /\ Len(Lhs) \in Nat /\ Len(Rhs) \in Nat
  BY <1>1, OperandUnits DEF Units
<1>3. CASE zacc = << >>
  <2>1. /\ product \in Units /\ row = Len(Rhs) + 1
        /\ Len(product) <= Len(Lhs) + row - 1
        /\ Value(product) = Value(Lhs) * Value(SubSeq(Rhs, 1, row - 1))
    BY <1>1, <1>3 DEF ShortProduct
  <2>2. row - 1 = Len(Rhs) /\ Len(Lhs) + row - 1 = Len(Lhs) + Len(Rhs)
    BY <1>2, <2>1
  <2>3. SubSeq(Rhs, 1, Len(Rhs)) = Rhs
    BY <1>2
  <2> QED BY <1>3, <2>1, <2>2, <2>3
<1>4. CASE zacc # << >>
  <2>1. /\ Apart(product, zacc, Len(zacc)) /\ row = Len(zrhi) + 1
        /\ Amount(zacc) = Amount(zlhi) * Amount(SubSeq(zrhi, 1, row - 1))
    BY <1>1, <1>4 DEF LongProduct, AccShape, AccAmount
  <2>2. zrhi \in Seq(Nat) /\ Len(zrhi) \in Nat /\ zacc \in Arrays
    BY <1>1, OperandArrays DEF Arrays
  <2>3. row - 1 = Len(zrhi)
    BY <2>1, <2>2
  <2>4. SubSeq(zrhi, 1, Len(zrhi)) = zrhi
    BY <2>2
  <2>5. Amount(zacc) = Amount(zlhi) * Amount(zrhi)
    BY <2>1, <2>3, <2>4
  <2>6. Amount(zlhi) = Value(Lhs) /\ Amount(zrhi) = Value(Rhs)
    BY <1>2, ItemsAmount DEF zlhi, zrhi, Lhs, Rhs
  <2>7. \A i \in 1..Len(zacc) : zacc[i] \in 0..(FASTBASE - 1)
    <3> TAKE i \in 1..Len(zacc)
    <3>1. zacc[i] \in Nat /\ zacc[i] <= TopItem
      BY <1>1 DEF AccTypes, AccBounds
    <3> QED BY <3>1, PowersOfItem DEF TopItem
  <2>8. Len(zacc) >= 1
    <3>1. zacc \in Seq(Nat) /\ zacc # << >>
      BY <1>1, <1>4 DEF AccTypes
    <3> QED BY <3>1
  <2>9. Value(product) = Amount(zacc)
    BY <2>1, <2>2, <2>7, <2>8, AllApart
  <2>10. product \in Units /\ Len(product) = Len(zacc) * perItem
    BY <2>1 DEF Apart
  <2>11. Len(product) \in Nat
    BY <2>10 DEF Units
  <2> QED BY <1>4, <2>5, <2>6, <2>9, <2>10, <2>11
<1> QED BY <1>3, <1>4

----------------------------------------------------------------------------
(* The product on paper, by columns of Units.                              *)

\* The products that fall into a column, added up one by one.
LEMMA ColumnSumsUnfold ==
  ASSUME AccTypes, NEW k \in Nat
  PROVE  /\ ColumnSums(k) \in [0..Len(Lhs) -> Nat]
         /\ ColumnSums(k)[0] = 0
         /\ \A i \in 1..Len(Lhs) : ColumnSums(k)[i] = ColumnSums(k)[i - 1] + Lhs[i] * UnitAt(Rhs, k + 1 - i)
<1> DEFINE n == Len(Lhs)
           S == Nat
           base == 0
           Val(s, i) == s + Lhs[i] * UnitAt(Rhs, k + 1 - i)
           Eq(f) == f = [ i \in 0..n |-> IF i = 0 THEN base ELSE Val(f[i - 1], i) ]
           step == [ x \in S \X (1..n) |-> Val(x[1], x[2]) ]
           g == ColumnSums(k)
<1>1. n \in Nat /\ base \in S
  BY OperandUnits
<1>2. ASSUME NEW s \in S, NEW i \in 1..n PROVE Val(s, i) \in S
  <2>1. Lhs[i] \in Nat
    <3>1. Lhs \in Seq(Unit) /\ i \in 1..Len(Lhs)
      BY OperandUnits DEF Units
    <3>2. Lhs[i] \in Unit
      BY <3>1
    <3> QED BY <3>2, UnitFacts
  <2>2. k + 1 - i \in Int
    BY OperandUnits
  <2>3. UnitAt(Rhs, k + 1 - i) \in Nat
    BY <2>2, OperandUnits, UnitsAreNatural, UnitFacts
  <2>4. Lhs[i] * UnitAt(Rhs, k + 1 - i) \in Nat
    BY <2>1, <2>3
  <2> QED BY <2>4
<1>3. \A s \in S, i \in 1..n : step[<<s, i>>] = Val(s, i)
  OBVIOUS
<1>4. g = CHOOSE f : Eq(f)
  BY DEF ColumnSums, Lhs, Rhs
<1> HIDE DEF step, n, base, Val, S, g
<1>5. PICK f : Solves(f, S, base, n, step)
  <2>1. Steps(step, S, n)
    BY <1>2, <1>3 DEF Steps
  <2> QED BY <1>1, <2>1, Recursion
<1>6. Eq(f)
  <2>1. ASSUME NEW i \in 0..n, i # 0 PROVE f[i] = Val(f[i - 1], i)
    <3>1. i \in 1..n /\ f[i - 1] \in S
      BY <1>1, <1>5, <2>1 DEF Solves
    <3> QED BY <1>3, <1>5, <3>1 DEF Solves
  <2> QED BY <1>5, <2>1 DEF Solves
<1>7. Eq(g)
  BY <1>4, <1>6
<1>8. g[0] = base /\ \A i \in 1..n : g[i] = Val(g[i - 1], i)
  BY <1>1, <1>7
<1>9. g = [ i \in 0..n |-> g[i] ]
  BY <1>7
<1> HIDE DEF Eq
<1>10. g \in [0..n -> S]
  <2>1. g[0] \in S
    BY <1>1, <1>8
  <2>2. ASSUME NEW i \in 1..n, g[i - 1] \in S PROVE g[i] \in S
    BY <1>2, <1>8, <2>2
  <2> QED BY <1>1, <1>9, <2>1, <2>2, Typed
<1> QED BY <1>8, <1>10 DEF g, n, base, Val, S

\* A digit and a carry for each column.
LEMMA ReferenceUnfold ==
  ASSUME AccTypes
  PROVE  /\ ColumnReference \in [0..(Len(Lhs) + Len(Rhs)) -> [ unit : Unit, carry : Nat ]]
         /\ ColumnReference[0] = [ unit |-> 0, carry |-> 0 ]
         /\ \A i \in 1..(Len(Lhs) + Len(Rhs)) :
              ColumnReference[i] =
                [ unit  |-> (ColumnReference[i - 1].carry + ColumnSums(i)[Len(Lhs)]) % UnitBase,
                  carry |-> (ColumnReference[i - 1].carry + ColumnSums(i)[Len(Lhs)])
                              \div UnitBase ]
<1> DEFINE n == (Len(Lhs) + Len(Rhs))
           S == [ unit : Unit, carry : Nat ]
           base == [ unit |-> 0, carry |-> 0 ]
           Val(s, i) == [ unit  |-> (s.carry + ColumnSums(i)[Len(Lhs)]) % UnitBase,
                          carry |-> (s.carry + ColumnSums(i)[Len(Lhs)]) \div UnitBase ]
           Eq(f) == f = [ i \in 0..n |-> IF i = 0 THEN base ELSE Val(f[i - 1], i) ]
           step == [ x \in S \X (1..n) |-> Val(x[1], x[2]) ]
           g == ColumnReference
<1>1. n \in Nat /\ base \in S
  BY OperandUnits, UnitFacts
<1>2. ASSUME NEW s \in S, NEW i \in 1..n PROVE Val(s, i) \in S
  <2> DEFINE sum == s.carry + ColumnSums(i)[Len(Lhs)]
  <2>1. i \in Nat /\ Len(Lhs) \in 0..Len(Lhs)
    BY OperandUnits
  <2>2. ColumnSums(i)[Len(Lhs)] \in Nat
    BY <2>1, ColumnSumsUnfold
  <2>3. sum \in Nat
    BY <2>2
  <2> HIDE DEF sum
  <2>4. sum % UnitBase \in Unit /\ sum \div UnitBase \in Nat
    BY <2>3, UnitFacts DEF Unit
  <2> QED BY <2>4 DEF sum
<1>3. \A s \in S, i \in 1..n : step[<<s, i>>] = Val(s, i)
  OBVIOUS
<1>4. g = CHOOSE f : Eq(f)
  BY DEF ColumnReference, Lhs, Rhs
<1> HIDE DEF step, n, base, Val, S, g
<1>5. PICK f : Solves(f, S, base, n, step)
  <2>1. Steps(step, S, n)
    BY <1>2, <1>3 DEF Steps
  <2> QED BY <1>1, <2>1, Recursion
<1>6. Eq(f)
  <2>1. ASSUME NEW i \in 0..n, i # 0 PROVE f[i] = Val(f[i - 1], i)
    <3>1. i \in 1..n /\ f[i - 1] \in S
      BY <1>1, <1>5, <2>1 DEF Solves
    <3> QED BY <1>3, <1>5, <3>1 DEF Solves
  <2> QED BY <1>5, <2>1 DEF Solves
<1>7. Eq(g)
  BY <1>4, <1>6
<1>8. g[0] = base /\ \A i \in 1..n : g[i] = Val(g[i - 1], i)
  BY <1>1, <1>7
<1>9. g = [ i \in 0..n |-> g[i] ]
  BY <1>7
<1> HIDE DEF Eq
<1>10. g \in [0..n -> S]
  <2>1. g[0] \in S
    BY <1>1, <1>8
  <2>2. ASSUME NEW i \in 1..n, g[i - 1] \in S PROVE g[i] \in S
    BY <1>2, <1>8, <2>2
  <2> QED BY <1>1, <1>9, <2>1, <2>2, Typed
<1> QED BY <1>8, <1>10 DEF g, n, base, Val, S

\* The columns with the products of the first so many Units of the multiplicand.
PartSums(m) == [ k \in 1..(Len(Lhs) + Len(Rhs)) |-> ColumnSums(k)[m] ]

\* One Unit of the multiplicand adds its multiple of the multiplier, shifted.
LEMMA PartSumsFacts ==
  ASSUME AccTypes, NEW m \in 0..Len(Lhs)
  PROVE  /\ PartSums(m) \in Arrays /\ Len(PartSums(m)) = Len(Lhs) + Len(Rhs)
         /\ m = 0 => \A k \in 1..Len(PartSums(m)) : PartSums(m)[k] = 0
         /\ m # 0 => IsSum(PartSums(m), PartSums(m - 1), Rhs, m - 1, Lhs[m])
<1> DEFINE n == Len(Lhs) + Len(Rhs)
<1>1. n \in Nat /\ Len(Lhs) \in Nat /\ Len(Rhs) \in Nat /\ Len(Rhs) + (m - 1) <= n
  BY OperandUnits
<1> HIDE DEF n
<1>2. ASSUME NEW k \in 1..n
      PROVE  /\ ColumnSums(k)[m] \in Nat
             /\ m = 0 => ColumnSums(k)[m] = 0
             /\ m # 0 => ColumnSums(k)[m]
                           = ColumnSums(k)[m - 1] + UnitAt(Rhs, k - (m - 1)) * Lhs[m]
  <2>1. k \in Nat /\ k + 1 - m = k - (m - 1)
    BY <1>1
  <2>2. /\ ColumnSums(k) \in [0..Len(Lhs) -> Nat]
        /\ ColumnSums(k)[0] = 0
        /\ \A i \in 1..Len(Lhs) :
             ColumnSums(k)[i] = ColumnSums(k)[i - 1] + Lhs[i] * UnitAt(Rhs, k + 1 - i)
    BY <2>1, ColumnSumsUnfold
  <2>3. CASE m = 0
    BY <2>2, <2>3
  <2>4. CASE m # 0
    <3>1. m \in 1..Len(Lhs)
      BY <1>1, <2>4
    <3>2. Lhs \in Seq(Unit)
      BY OperandUnits DEF Units
    <3>3. Lhs[m] \in Unit
      BY <3>1, <3>2
    <3>4. UnitAt(Rhs, k - (m - 1)) \in Unit
      BY <1>1, OperandUnits, UnitsAreNatural
    <3>5. Lhs[m] \in Nat /\ UnitAt(Rhs, k - (m - 1)) \in Nat
      BY <3>3, <3>4, UnitFacts
    <3>6. Lhs[m] * UnitAt(Rhs, k - (m - 1)) = UnitAt(Rhs, k - (m - 1)) * Lhs[m]
      BY <3>5
    <3> QED BY <2>1, <2>2, <2>4, <3>1, <3>6
  <2> QED BY <2>3, <2>4
<1>3. PartSums(m) = [ k \in 1..n |-> ColumnSums(k)[m] ]
  BY DEF PartSums, n
<1>4. PartSums(m) \in Seq(Nat) /\ Len(PartSums(m)) = n
  BY <1>1, <1>2, <1>3
<1>5. m # 0 => IsSum(PartSums(m), PartSums(m - 1), Rhs, m - 1, Lhs[m])
  <2> SUFFICES ASSUME m # 0 PROVE IsSum(PartSums(m), PartSums(m - 1), Rhs, m - 1, Lhs[m])
    OBVIOUS
  <2>1. PartSums(m - 1) = [ k \in 1..n |-> ColumnSums(k)[m - 1] ]
    BY DEF PartSums, n
  <2>2. Len(PartSums(m - 1)) = n
    BY <1>1, <2>1
  <2>3. \A k \in 1..n : PartSums(m)[k]
                          = PartSums(m - 1)[k] + UnitAt(Rhs, k - (m - 1)) * Lhs[m]
    BY <1>2, <1>3, <2>1
  <2> QED BY <1>1, <1>4, <2>2, <2>3 DEF IsSum
<1>6. m = 0 => \A k \in 1..n : PartSums(m)[k] = 0
  BY <1>2, <1>3
<1> QED BY <1>4, <1>5, <1>6 DEF Arrays, n

\* The columns, each at its weight, are worth the product.
LEMMA PartSumsValue ==
  ASSUME AccTypes, NEW m \in 0..Len(Lhs)
  PROVE  Horner(UnitBase, PartSums(m), 1) = Value(SubSeq(Lhs, 1, m)) * Value(Rhs)
<1> DEFINE T == { q \in 0..Len(Lhs) : Horner(UnitBase, PartSums(q), 1)
                                        # Value(SubSeq(Lhs, 1, q)) * Value(Rhs) }
           n == Len(Lhs)
<1>1. /\ n \in Nat /\ Lhs \in Units /\ Rhs \in Units /\ Lhs \in Arrays /\ Rhs \in Arrays
      /\ UnitBase \in Nat /\ UnitBase >= 1 /\ Value(Rhs) \in Nat
  BY OperandUnits, UnitsAreNatural, UnitFacts, ValueNat
<1>2. 0 \notin T
  <2>1. 0 \in 0..n
    BY <1>1
  <2>2. /\ PartSums(0) \in Arrays
        /\ \A k \in 1..Len(PartSums(0)) : PartSums(0)[k] = 0
    BY <2>1, PartSumsFacts
  <2>3. Horner(UnitBase, PartSums(0), 1) = 0
    BY <1>1, <2>2, ZeroItems
  <2> DEFINE v == SubSeq(Lhs, 1, 0)
  <2>4. v \in Arrays /\ Len(v) = 0
    BY <1>1, <2>1, SplitUnits, UnitsAreNatural
  <2>5. \A k \in 1..Len(v) : v[k] = 0
    BY <2>4
  <2> HIDE DEF v
  <2>6. Horner(UnitBase, v, 1) = 0
    BY <1>1, <2>4, <2>5, ZeroItems
  <2>7. Value(v) = 0
    BY <2>6 DEF Value, ValueFrom
  <2>8. 0 * Value(Rhs) = 0
    BY <1>1
  <2>9. Value(SubSeq(Lhs, 1, 0)) = 0
    BY <2>7 DEF v
  <2> QED BY <2>3, <2>8, <2>9
<1>3. ASSUME NEW q \in 1..n, q - 1 \notin T
      PROVE  q \notin T
  <2> DEFINE p == q - 1
  <2>1. p \in 0..n /\ q \in 0..n /\ q # 0 /\ p \in Nat /\ q <= n
    BY <1>1
  <2>2. /\ PartSums(q) \in Arrays /\ PartSums(p) \in Arrays
        /\ IsSum(PartSums(q), PartSums(p), Rhs, p, Lhs[q])
    BY <2>1, PartSumsFacts
  <2>3. Horner(UnitBase, PartSums(p), 1) = Value(SubSeq(Lhs, 1, p)) * Value(Rhs)
    BY <1>3, <2>1
  <2>4. PICK w : Powers(UnitBase, w, n)
    BY <1>1, PowersExist
  <2>5. Lhs[q] \in Nat
    BY <1>1 DEF Arrays
  <2>6. w[p] \in Nat
    BY <1>1, <2>1, <2>4, PowerFacts
  <2>7. Horner(UnitBase, SubSeq(Lhs, 1, q), 1)
          = Horner(UnitBase, SubSeq(Lhs, 1, p), 1) + w[p] * Lhs[q]
    BY <1>1, <2>1, <2>4, ExtendedItems
  <2>8. SubSeq(Lhs, 1, p) \in Units
    BY <1>1, <2>1, SplitUnits
  <2> DEFINE x == Lhs[q]
             a == Value(SubSeq(Lhs, 1, p))
             b == Value(Rhs)
             c == w[p]
             u == PartSums(q)
             v == PartSums(p)
  <2>9. a \in Nat
    BY <2>8, ValueNat
  <2>10. Value(SubSeq(Lhs, 1, q)) = a + c * x
    BY <2>7 DEF Value, ValueFrom
  <2>11. Horner(UnitBase, v, 1) = a * b
    BY <2>3
  <2>12. Horner(UnitBase, u, 1) = Horner(UnitBase, v, 1) + x * (c * Horner(UnitBase, Rhs, 1))
    <3> HIDE DEF x, u, v, p
    <3>1. u \in Arrays /\ v \in Arrays /\ IsSum(u, v, Rhs, p, x) /\ x \in Nat
      BY <2>2, <2>5 DEF x, u, v
    <3> QED BY <1>1, <2>1, <2>4, <3>1, AddedItems DEF c
  <2>13. Horner(UnitBase, u, 1) = a * b + x * (c * b)
    BY <2>11, <2>12 DEF Value, ValueFrom
  <2>14. a \in Nat /\ b \in Nat /\ c \in Nat /\ x \in Nat
    BY <1>1, <2>5, <2>6, <2>9
  <2> HIDE DEF a, b, c, x, u, v
  <2>15. a * b + x * (c * b) = (a + c * x) * b
    BY <2>14
  <2>16. Horner(UnitBase, u, 1) = Value(SubSeq(Lhs, 1, q)) * b
    BY <2>10, <2>13, <2>15
  <2> QED BY <2>16 DEF u, b
<1> HIDE DEF n
<1>4. T \subseteq 0..n /\ (m \notin T => Horner(UnitBase, PartSums(m), 1)
                                           = Value(SubSeq(Lhs, 1, m)) * Value(Rhs))
  BY DEF n
<1> HIDE DEF T
<1>5. T = {}
  BY <1>1, <1>2, <1>3, <1>4, Ascent
<1> QED BY <1>4, <1>5

\* The digits on paper, with the carry left at the top, which is none.
PaperUnits == [ k \in 1..(Len(Lhs) + Len(Rhs)) |-> ColumnReference[k].unit ]

\* The digits on paper and the last carry stand for the product.
LEMMA PaperFacts ==
  ASSUME AccTypes
  PROVE  LET n   == Len(Lhs) + Len(Rhs)
             top == ColumnReference[n].carry
             z   == Append(PaperUnits, top)
         IN  /\ top \in Nat /\ PaperUnits \in Units /\ Len(PaperUnits) = n
             /\ Value(z) = Value(Lhs) * Value(Rhs)
<1> DEFINE n == Len(Lhs) + Len(Rhs)
           r == ColumnReference
           top == r[n].carry
           d == PaperUnits
           z == Append(d, top)
           s == PartSums(Len(Lhs))
           H(i) == Horner(UnitBase, s, i)
           E == [ i \in 1..(n + 1) |-> H(i) + r[i - 1].carry ]
<1>1. /\ n \in Nat /\ Len(Lhs) \in 0..Len(Lhs) /\ Lhs \in Seq(Unit)
      /\ UnitBase \in Nat /\ UnitBase >= 1
  BY OperandUnits, UnitFacts DEF Units
<1>2. /\ r \in [0..n -> [ unit : Unit, carry : Nat ]]
      /\ r[0] = [ unit |-> 0, carry |-> 0 ]
      /\ \A i \in 1..n :
           r[i] = [ unit  |-> (r[i - 1].carry + ColumnSums(i)[Len(Lhs)]) % UnitBase,
                    carry |-> (r[i - 1].carry + ColumnSums(i)[Len(Lhs)]) \div UnitBase ]
  BY ReferenceUnfold
<1>3. /\ s \in Arrays /\ Len(s) = n
      /\ \A i \in 1..n : s[i] = ColumnSums(i)[Len(Lhs)]
  BY <1>1, PartSumsFacts DEF PartSums
<1>4. d = [ k \in 1..n |-> r[k].unit ]
  BY DEF PaperUnits
<1>5. SubSeq(Lhs, 1, Len(Lhs)) = Lhs
  BY <1>1
<1>6. H(1) = Value(Lhs) * Value(Rhs)
  BY <1>1, <1>5, PartSumsValue
<1> HIDE DEF n, r, d, s
<1>7. \A i \in 0..n : r[i].unit \in Unit /\ r[i].carry \in Nat
  BY <1>2
<1>8. d \in Units /\ Len(d) = n /\ d \in Arrays /\ \A i \in 1..n : d[i] = r[i].unit
  <2>1. d \in Seq(Unit) /\ Len(d) = n /\ \A i \in 1..n : d[i] = r[i].unit
    BY <1>1, <1>4, <1>7
  <2> QED BY <2>1, UnitsAreNatural DEF Units
<1>9. top \in Nat
  BY <1>1, <1>7
<1>10. ASSUME NEW i \in 1..n
       PROVE  r[i].unit + UnitBase * r[i].carry = r[i - 1].carry + s[i]
  <2> DEFINE sum == r[i - 1].carry + s[i]
  <2>1. r[i - 1].carry \in Nat /\ s[i] \in Nat
    <3>1. i - 1 \in 0..n
      BY <1>1
    <3> QED BY <1>3, <1>7, <3>1 DEF Arrays
  <2>2. r[i].unit = sum % UnitBase /\ r[i].carry = sum \div UnitBase
    <3>1. sum = r[i - 1].carry + ColumnSums(i)[Len(Lhs)]
      BY <1>3
    <3>2. r[i] = [ unit |-> sum % UnitBase, carry |-> sum \div UnitBase ]
      BY <1>2, <3>1
    <3> QED BY <3>2
  <2>3. sum \in Nat
    BY <2>1
  <2> HIDE DEF sum
  <2>4. (sum % UnitBase) + UnitBase * (sum \div UnitBase) = sum
    BY <1>1, <2>3
  <2> QED BY <2>2, <2>4 DEF sum
<1>11. ASSUME NEW i \in 1..(n + 1) PROVE H(i) \in Nat
  <2>1. i \in Nat /\ i # 0
    BY <1>1
  <2> QED BY <1>1, <1>3, <2>1, HornerStep
<1>12. E \in [1..(n + 1) -> Int]
  <2>1. ASSUME NEW i \in 1..(n + 1) PROVE H(i) + r[i - 1].carry \in Int
    <3>1. i - 1 \in 0..n
      BY <1>1
    <3>2. r[i - 1].carry \in Nat
      BY <1>7, <3>1
    <3> QED BY <1>11, <3>2
  <2> QED BY <2>1
<1>13. E[n + 1] = top
  <2>1. n + 1 \in Nat /\ n + 1 # 0 /\ n + 1 > Len(s) /\ (n + 1) - 1 = n /\ n + 1 \in 1..(n + 1)
    BY <1>1, <1>3
  <2> DEFINE m == n + 1
  <2>2. m \in Nat /\ m # 0 /\ m > Len(s)
    BY <2>1
  <2> HIDE DEF m
  <2>3. Horner(UnitBase, s, m) = 0
    BY <1>1, <1>3, <2>2, HornerStep
  <2>4. H(n + 1) = 0
    BY <2>3 DEF m
  <2> QED BY <1>9, <2>1, <2>4
<1>14. ASSUME NEW i \in 1..n PROVE E[i] = d[i] + UnitBase * E[i + 1]
  <2>1. /\ i \in Nat /\ i # 0 /\ (i + 1) - 1 = i /\ i \in 1..(n + 1) /\ i + 1 \in 1..(n + 1)
        /\ i - 1 \in 0..n /\ i \in 0..n /\ i \in 1..Len(s)
    BY <1>1, <1>3
  <2>2. H(i) = UnitAt(s, i) + UnitBase * H(i + 1)
    BY <1>1, <1>3, <2>1, HornerStep
  <2>3. UnitAt(s, i) = s[i]
    BY <2>1 DEF UnitAt
  <2>4. E[i] = H(i) + r[i - 1].carry /\ E[i + 1] = H(i + 1) + r[i].carry
    BY <2>1
  <2>5. d[i] = r[i].unit
    BY <1>8
  <2> DEFINE a == s[i]
             h == H(i + 1)
             c == r[i - 1].carry
             e == r[i].carry
             u == r[i].unit
  <2>6. a \in Nat /\ h \in Nat /\ c \in Nat /\ e \in Nat /\ u \in Nat
    <3>1. a \in Nat
      BY <1>3, <2>1 DEF Arrays
    <3>2. h \in Nat
      BY <1>11, <2>1
    <3>3. c \in Nat /\ e \in Nat /\ u \in Unit
      BY <1>7, <2>1
    <3> QED BY <3>1, <3>2, <3>3, UnitFacts
  <2>7. u + UnitBase * e = c + a
    BY <1>10
  <2>8. E[i] = a + UnitBase * h + c /\ E[i + 1] = h + e /\ d[i] = u
    BY <2>2, <2>3, <2>4, <2>5
  <2> HIDE DEF a, h, c, e, u, E
  <2>9. UnitBase * (h + e) = UnitBase * h + UnitBase * e
        /\ UnitBase * h \in Nat /\ UnitBase * e \in Nat
    BY <1>1, <2>6
  <2> QED BY <2>6, <2>7, <2>8, <2>9
<1>15. Value(z) = E[1]
  <2> HIDE DEF E, top
  <2>1. E \in [1..(Len(d) + 1) -> Int] /\ E[Len(d) + 1] = top
    BY <1>8, <1>12, <1>13
  <2>2. \A i \in 1..Len(d) : E[i] = d[i] + UnitBase * E[i + 1]
    BY <1>8, <1>14
  <2> QED BY <1>8, <1>9, <2>1, <2>2, FromAppend
<1>16. E[1] = H(1)
  <2>1. r[0].carry = 0 /\ 1 - 1 = 0 /\ 1 \in 1..(n + 1) /\ H(1) \in Nat
    BY <1>1, <1>2, <1>11
  <2> QED BY <2>1
<1>17. Value(z) = Value(Lhs) * Value(Rhs)
  BY <1>6, <1>15, <1>16
<1> HIDE DEF z, top
<1>18. top \in Nat /\ d \in Units /\ Len(d) = n /\ Value(z) = Value(Lhs) * Value(Rhs)
  BY <1>8, <1>9, <1>17
<1> QED BY <1>18 DEF top, z, d, r, n

\* Nothing is carried out of the columns.
LEMMA NoTopCarry ==
  ASSUME AccTypes
  PROVE  ColumnReference[Len(Lhs) + Len(Rhs)].carry = 0
<1> DEFINE n == Len(Lhs) + Len(Rhs)
           top == ColumnReference[n].carry
           z == Append(PaperUnits, top)
<1>1. /\ top \in Nat /\ PaperUnits \in Units /\ Len(PaperUnits) = n
      /\ Value(z) = Value(Lhs) * Value(Rhs)
  BY PaperFacts
<1>2. /\ Lhs \in Arrays /\ Rhs \in Arrays /\ Len(Lhs) \in Nat /\ Len(Rhs) \in Nat
      /\ n \in Nat /\ UnitBase \in Nat /\ UnitBase >= 1
  BY OperandUnits, UnitsAreNatural, UnitFacts
<1>3. /\ \A k \in Int : UnitAt(Lhs, k) < UnitBase
      /\ \A k \in Int : UnitAt(Rhs, k) < UnitBase
  <2>1. /\ \A k \in Int : UnitAt(Lhs, k) \in Unit
        /\ \A k \in Int : UnitAt(Rhs, k) \in Unit
    BY OperandUnits, UnitsAreNatural
  <2>2. \A x \in Unit : x < UnitBase
    BY UnitFacts DEF Unit
  <2> QED BY <2>1, <2>2
<1>4. PICK w : Powers(UnitBase, w, n)
  BY <1>2, PowersExist
<1> DEFINE i == Len(Lhs)
           j == Len(Rhs)
<1>5. i \in Nat /\ j \in Nat /\ i >= Len(Lhs) /\ j >= Len(Rhs) /\ i + j <= n
  BY <1>2
<1>6. Horner(UnitBase, Lhs, 1) * Horner(UnitBase, Rhs, 1) < w[i + j]
  <2> HIDE DEF i, j, n
  <2> QED BY <1>2, <1>3, <1>4, <1>5, BelowProduct
<1>7. Value(z) < w[n]
  BY <1>1, <1>6 DEF Value, ValueFrom
<1>8. /\ z \in Arrays /\ Len(z) = n + 1 /\ z[n + 1] = top
  <2>1. PaperUnits \in Seq(Nat)
    BY <1>1, UnitsAreNatural DEF Arrays
  <2> QED BY <1>1, <2>1 DEF Arrays
<1> HIDE DEF z, top, n
<1>9. n \in 0..n /\ w[n] \in Nat /\ w[n] > 0
  BY <1>2, <1>4, PowerFacts
<1>10. Horner(UnitBase, z, 1) >= w[n] * Horner(UnitBase, z, n + 1)
  BY <1>2, <1>4, <1>8, <1>9, AboveItems
<1>11. Horner(UnitBase, z, n + 1) = top
  <2> DEFINE m == n + 1
             q == m + 1
  <2>1. m \in Nat /\ m # 0 /\ q \in Nat /\ q # 0 /\ q > Len(z) /\ m \in 1..Len(z)
    BY <1>2, <1>8
  <2>2. UnitAt(z, m) = top
    BY <1>8, <2>1 DEF UnitAt
  <2> HIDE DEF m
  <2>3. Horner(UnitBase, z, m) = UnitAt(z, m) + UnitBase * Horner(UnitBase, z, m + 1)
    BY <1>2, <1>8, <2>1, HornerStep
  <2>4. Horner(UnitBase, z, m + 1) = 0
    <3> HIDE DEF q
    <3>1. Horner(UnitBase, z, q) = 0
      BY <1>2, <1>8, <2>1, HornerStep
    <3> QED BY <3>1 DEF q
  <2>5. Horner(UnitBase, z, m) = top
    BY <1>1, <1>2, <2>2, <2>3, <2>4
  <2> QED BY <2>5 DEF m
<1>12. Value(z) >= w[n] * top
  BY <1>10, <1>11 DEF Value, ValueFrom
<1>13. w[n] * top < w[n]
  <2>1. w[n] * top \in Nat
    BY <1>1, <1>9
  <2>2. Value(z) \in Nat
    BY <1>2, <1>8, 1 \in Nat, 1 # 0, FromStep DEF Value
  <2> QED BY <1>7, <1>9, <1>12, <2>1, <2>2
<1>14. top = 0
  <2> SUFFICES ASSUME top >= 1 PROVE FALSE
    BY <1>1
  <2> DEFINE x == w[n]
  <2>1. x \in Nat /\ x * top < x
    BY <1>9, <1>13
  <2> HIDE DEF x
  <2>2. x * (top - 1) \in Nat /\ x * top = x * (top - 1) + x
    BY <1>1, <2>1
  <2> QED BY <2>1, <2>2
<1> QED BY <1>14 DEF top, n

\* The finished product has the digits on paper, and above them only zeros.
LEMMA ProductDigits ==
  ASSUME ProductInv, stage = "multiplied"
  PROVE  LET n == Len(Lhs) + Len(Rhs)
         IN  /\ \A k \in 1..n : UnitAt(product, k) = ColumnReference[k].unit
             /\ \A k \in (n + 1)..Len(product) : product[k] = 0
<1> DEFINE n == Len(Lhs) + Len(Rhs)
           z == Append(PaperUnits, 0)
<1>1. AccTypes
  BY DEF ProductInv, AccExact, AccInv
<1>2. /\ PaperUnits \in Units /\ Len(PaperUnits) = n
      /\ Value(z) = Value(Lhs) * Value(Rhs)
  BY <1>1, PaperFacts, NoTopCarry
<1>3. product \in Units /\ Value(product) = Value(z)
  BY <1>2, ProductValue
<1>4. n \in Nat /\ UnitBase \in Nat /\ UnitBase >= 1
  BY <1>1, OperandUnits, UnitFacts
<1>5. /\ z \in Units /\ Len(z) = n + 1 /\ z[n + 1] = 0
      /\ \A k \in 1..n : z[k] = PaperUnits[k]
  BY <1>2, <1>4, UnitFacts DEF Units
<1>6. \A k \in 1..n : PaperUnits[k] = ColumnReference[k].unit
  BY DEF PaperUnits
<1> HIDE DEF z, n
<1>7. /\ product \in Arrays /\ z \in Arrays /\ Len(product) \in Nat
      /\ \A k \in Int : UnitAt(product, k) < UnitBase
      /\ \A k \in Int : UnitAt(z, k) < UnitBase
  <2>1. /\ product \in Arrays /\ z \in Arrays /\ Len(product) \in Nat
        /\ \A k \in Int : UnitAt(product, k) \in Unit
        /\ \A k \in Int : UnitAt(z, k) \in Unit
    BY <1>3, <1>5, UnitsAreNatural
  <2>2. \A x \in Unit : x < UnitBase
    BY UnitFacts DEF Unit
  <2> QED BY <2>1, <2>2
<1>8. Horner(UnitBase, product, 1) = Horner(UnitBase, z, 1)
  BY <1>3 DEF Value, ValueFrom
<1>9. ASSUME NEW k \in Nat, k # 0 PROVE UnitAt(product, k) = UnitAt(z, k)
  BY <1>4, <1>7, <1>8, <1>9, UniqueItems
<1>10. ASSUME NEW k \in 1..n PROVE UnitAt(product, k) = ColumnReference[k].unit
  <2>1. k \in Nat /\ k # 0 /\ k \in 1..Len(z)
    BY <1>4, <1>5
  <2>2. UnitAt(z, k) = z[k]
    BY <2>1 DEF UnitAt
  <2> QED BY <1>5, <1>6, <1>9, <2>1, <2>2
<1>11. ASSUME NEW k \in (n + 1)..Len(product) PROVE product[k] = 0
  <2>1. k \in Nat /\ k # 0 /\ k \in 1..Len(product)
    BY <1>4, <1>7
  <2>2. UnitAt(product, k) = product[k]
    BY <2>1 DEF UnitAt
  <2>3. UnitAt(z, k) = 0
    <3>1. CASE k \in 1..Len(z)
      <4>1. k = n + 1
        BY <1>4, <1>5, <3>1
      <4> QED BY <1>5, <3>1, <4>1 DEF UnitAt
    <3>2. CASE k \notin 1..Len(z)
      BY <3>2 DEF UnitAt
    <3> QED BY <3>1, <3>2
  <2> QED BY <1>9, <2>1, <2>2, <2>3
<1> QED BY <1>10, <1>11 DEF n

\* Whatever the operands, the number of rows between two resolutions and the
\* sizes of Units and items: the finished product has the Units of the exact one
\* and fits its buffer.
THEOREM ProductIsAlwaysExact == MultiplySpec => []ProductIsExact
<1>1. ProductInv => ProductIsExact
  <2> SUFFICES ASSUME ProductInv, stage = "multiplied" PROVE ProductIsExact
    BY DEF ProductIsExact
  <2>1. /\ \A k \in 1..(Len(Lhs) + Len(Rhs)) : UnitAt(product, k) = ColumnReference[k].unit
        /\ \A k \in (Len(Lhs) + Len(Rhs) + 1)..Len(product) : product[k] = 0
    BY ProductDigits
  <2>2. Len(product) <= IF zacc = << >> THEN Len(Lhs) + Len(Rhs)
                                        ELSE Len(zacc) * perItem
    BY ProductValue
  <2> QED BY <2>1, <2>2 DEF ProductIsExact, Lhs, Rhs
<1> QED BY <1>1, InitProduct, NextProduct, PTL DEF MultiplySpec
=============================================================================
