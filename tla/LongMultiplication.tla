-------------------------- MODULE LongMultiplication --------------------------
(***************************************************************************)
(* The long multiplication inside decMultiplyOp, for finite operands.  A   *)
(* short multiplier goes Unit by Unit through decUnitAddSub.  For a longer *)
(* one both coefficients are regrouped into items of FASTDIGS digits;      *)
(* partial products are added up lazily in a wide accumulator, whose       *)
(* carries are only resolved every FASTLAZY rows and at the end; then the  *)
(* items are taken apart into Units again.                                 *)
(*                                                                         *)
(* DecArith states the same product as lhs.coeff * rhs.coeff.              *)
(***************************************************************************)
EXTENDS UnitArith

CONSTANTS
  Factors,         \* coefficients: sequences of Units, least significant first
  FASTDIGS,        \* digits of an item (9 or 8 in a build)
  FASTBASE,        \* 10^FASTDIGS
  FASTLAZY,        \* rows between resolutions of the carries (18 or 1844)
  AccMax           \* the largest value of an accumulator item (2^64 - 1)

\* The Units of an item, and what each counts in it.
perItem == FASTDIGS \div DECDPUN
powers ==
  LET power[p \in 0..perItem] == IF p = 0 THEN 1 ELSE UnitBase * power[p - 1]
  IN  power

\* Assembling item i of a coefficient, from its lowest Unit up.
ItemSums(units, i) ==
  LET sum[p \in 0..perItem] ==
        IF p = 0 THEN 0
        ELSE sum[p - 1] + UnitAt(units, (i - 1) * perItem + p) * powers[p - 1]
  IN  sum

Items(units) == [ i \in 1..((Len(units) + perItem - 1) \div perItem) |->
                    ItemSums(units, i)[perItem] ]

\* FASTLAZY rows, with what carries bring in, fit; in both builds one row more
\* would not: 19 * (10^9 - 1)^2 and 1845 * (10^8 - 1)^2 are above 2^64.
ASSUME FastAssumption ==
  /\ FASTDIGS \in Nat /\ perItem \in Nat \ {0}
  /\ FASTBASE = powers[perItem]
  /\ FASTLAZY \in Nat \ {0} /\ AccMax \in Nat
  /\ FASTLAZY * ((FASTBASE - 1) * (FASTBASE - 1)) + 2 * FASTBASE + FASTLAZY <= AccMax
ASSUME FactorAssumption == Factors \subseteq Seq(0..(UnitBase - 1)) \ {<< >>}

VARIABLES
  operands,        \* the coefficients, the longer one as lhs
  zacc,            \* the accumulator items
  row,             \* the item (or Unit) of rhs whose row is next
  lazy,            \* rows left before carries must be resolved
  item,            \* the item being resolved, or taken apart
  product,         \* the Units of the product
  stage

productVars == <<operands, zacc, row, lazy, item, product, stage>>

----------------------------------------------------------------------------
(* Setting up.                                                             *)

DigitsIn(units) == (Len(units) - 1) * DECDPUN + GetDigits(units[Len(units)])

\* The longer coefficient is the multiplicand.
Operands(l, r) == IF DigitsIn(l) < DigitsIn(r) THEN [ lhs |-> r, rhs |-> l ]
                                               ELSE [ lhs |-> l, rhs |-> r ]

\* Is the shorter operand worth the regrouping (NEEDTWO)?
IsFast(t) == DigitsIn(t.rhs) > 2 * DECDPUN

zlhi == Items(operands.lhs)
zrhi == Items(operands.rhs)
iacc == Len(zlhi) + Len(zrhi)

MultiplyStart(l, r) ==
  LET t == Operands(l, r)
      length == IF IsFast(t) THEN Len(Items(t.lhs)) + Len(Items(t.rhs)) ELSE 0
  IN  /\ operands = t
      /\ zacc = [ i \in 1..length |-> 0 ]
      /\ row = 1
      /\ lazy = FASTLAZY
      /\ item = 1
      /\ product = IF IsFast(t) THEN << >> ELSE <<0>>
      /\ stage = IF IsFast(t) THEN "rows" ELSE "units"

MultiplyInit == \E l, r \in Factors : MultiplyStart(l, r)

----------------------------------------------------------------------------
(* The fast path.                                                          *)

\* Mutation: one row too many is added before carries are resolved.
MustResolveLate(left, next) == left < 0 \/ next > Len(zrhi)

MustResolve(left, next) == left <= 0 \/ next > Len(zrhi)

\* The row of one item of rhs, added without looking at carries.
AddRow ==
  /\ stage = "rows"
  /\ zacc' = [ i \in 1..Len(zacc) |->
                 zacc[i] + (IF i - row + 1 \in 1..Len(zlhi)
                              THEN zlhi[i - row + 1] * zrhi[row] ELSE 0) ]
  /\ row' = row + 1
  /\ IF MustResolve(lazy - 1, row + 1)
       THEN stage' = "carries" /\ lazy' = FASTLAZY
       ELSE stage' = stage /\ lazy' = lazy - 1
  /\ UNCHANGED <<operands, item, product>>

\* What an item hands to the one two above it, and to the next one.
CarryAbove(n) == (n \div FASTBASE) \div FASTBASE
CarryNext(n) == (n \div FASTBASE) - CarryAbove(n) * FASTBASE

\* Mutation: the carry of two places goes into the next item.
ResolveNear(i, n) ==
  [ j \in 1..Len(zacc) |->
      CASE j = i     -> n % FASTBASE
        [] j = i + 1 -> zacc[j] + CarryNext(n) + CarryAbove(n)
        [] OTHER     -> zacc[j] ]

Resolve(i, n) ==
  [ j \in 1..Len(zacc) |->
      CASE j = i     -> n - CarryAbove(n) * FASTBASE * FASTBASE
                          - CarryNext(n) * FASTBASE
        [] j = i + 1 -> zacc[j] + CarryNext(n)
        [] j = i + 2 -> zacc[j] + CarryAbove(n)
        [] OTHER     -> zacc[j] ]

\* One turn of the loop that resolves carries, from the lowest item up.
ResolveItem ==
  /\ stage = "carries"
  /\ zacc' = Resolve(item, zacc[item])
  /\ IF item < Len(zacc)
       THEN item' = item + 1 /\ stage' = stage
       ELSE item' = 1 /\ stage' = IF row <= Len(zrhi) THEN "rows" ELSE "unchunk"
  /\ UNCHANGED <<operands, row, lazy, product>>

\* Taking an item apart: what is left of it after so many Units, and its Units;
\* the last one takes what is left.
ItemRests(n) ==
  LET rest[p \in 0..perItem] == IF p = 0 THEN n ELSE rest[p - 1] \div UnitBase
  IN  rest

UnitsOfItem(n) ==
  [ p \in 1..perItem |->
      LET part == ItemRests(n)[p - 1]
      IN  IF p < perItem THEN part % UnitBase ELSE part ]

UnchunkItem ==
  /\ stage = "unchunk"
  /\ product' = product \o UnitsOfItem(zacc[item])
  /\ IF item < Len(zacc) THEN item' = item + 1 /\ stage' = stage
                         ELSE item' = item /\ stage' = "multiplied"
  /\ UNCHANGED <<operands, zacc, row, lazy>>

----------------------------------------------------------------------------
(* The Units of a short multiplier, each with the whole multiplicand.      *)

AddUnit ==
  /\ stage = "units"
  /\ LET shift == row - 1
         mer   == operands.rhs[row]
         upper == UnitAddSub(SubSeq(product, row, Len(product)),
                             operands.lhs, 0, mer).units
     IN  product' = IF mer # 0 THEN SubSeq(product, 1, shift) \o upper
                               ELSE Append(product, 0)
  /\ row' = row + 1
  /\ stage' = IF row < Len(operands.rhs) THEN stage ELSE "multiplied"
  /\ UNCHANGED <<operands, zacc, lazy, item>>

MultiplyNext == AddRow \/ ResolveItem \/ UnchunkItem \/ AddUnit

MultiplySpec == MultiplyInit /\ [][MultiplyNext]_productVars

----------------------------------------------------------------------------
(* Properties.                                                             *)

\* No item ever outgrows the 64 bits of the accumulator, however many rows are
\* added between two resolutions and whatever the carries bring in.
AccumulatorFits ==
  \A i \in 1..Len(zacc) : zacc[i] \in 0..AccMax

\* The product by columns of Units, as on paper: the products that fall into a
\* column, added up from the lowest Unit of lhs, and the digits with carries.
ColumnSums(k) ==
  LET sum[i \in 0..Len(operands.lhs)] ==
        IF i = 0 THEN 0
        ELSE sum[i - 1] + operands.lhs[i] * UnitAt(operands.rhs, k + 1 - i)
  IN  sum

ColumnReference ==
  LET column[k \in 0..(Len(operands.lhs) + Len(operands.rhs))] ==
        IF k = 0 THEN [ unit |-> 0, carry |-> 0 ]
        ELSE LET sum == column[k - 1].carry + ColumnSums(k)[Len(operands.lhs)]
             IN  [ unit |-> sum % UnitBase, carry |-> sum \div UnitBase ]
  IN  column

\* The finished product has the digits of the exact one, by either path and
\* after any number of resolutions: no carry is lost, none leaves the array.
\* It is no longer than the buffers, which have a Unit for every Unit of the
\* operands (for every item, when regrouped).
ProductIsExact ==
  stage = "multiplied" =>
    LET length == Len(operands.lhs) + Len(operands.rhs)
        exact  == ColumnReference
        room   == IF zacc = << >> THEN length
                  ELSE Len(zacc) * perItem
    IN  /\ Len(product) <= room
        /\ \A k \in 1..length : UnitAt(product, k) = exact[k].unit
        /\ \A k \in (length + 1)..Len(product) : product[k] = 0
=============================================================================
