---------------------------- MODULE PowerCorrect ----------------------------
(***************************************************************************)
(* What square root and power promise: the root correctly rounded, the     *)
(* power within one unit in the last place.                                *)
(***************************************************************************)
EXTENDS ManipulationCorrect

----------------------------------------------------------------------------
(* Square root.                                                            *)

RootOf(lhs) == last.op = "squareroot" /\ ~IsSpecial(lhs) /\ lhs.coeff # 0 /\ ~lhs.neg

\* The order of (m/2)^2 * 10^(2q) and the operand.
HalvesSquared(m, q) ==
  LET e == Smaller(2 * q, last.lhs.exponent)
  IN  Sign(m * m * Ten[2 * q - e] - 4 * last.lhs.coeff * Ten[last.lhs.exponent - e])

\* An exact root has the exponent nearest the ideal one that it can have.
IsNearIdeal(root, ideal) ==
  CASE root.exponent = ideal -> TRUE
    [] root.exponent > ideal -> root.digits = last.set.digits
    [] root.exponent < ideal -> root.coeff % 10 # 0

\* The adjustment finds the rounded root from either neighbour of it.
Recovers(root, f, set) ==
  \A d \in {-1, 1} :
    root.digits = set.digits /\ GetDigits(root.coeff + d) = root.digits =>
      OrderReference(Adjusted([ root EXCEPT !.coeff = @ + d ], f, set), root) = 0

\* The root lies in the normal range.
HasNormalRoot(dn) ==
  dn.exponent + dn.digits - 1 \in 2 * last.set.emin..2 * last.set.emax

\* The root itself when it is exact, or the nearest number of the precision.
IsNearestRoot(root) ==
  LET m == 2 * root.coeff
  IN  /\ ~IsSpecial(root) /\ ~root.neg
      /\ HalvesSquared(m, root.exponent) # 0 =>
           /\ root.digits = last.set.digits
           /\ HalvesSquared(m - 1, root.exponent) < 0
           /\ HalvesSquared(m + 1, root.exponent) > 0

\* A normal root of an operand of no more digits than the precision is the
\* exact one, or all the digits of the one nearest to it whatever the rounding
\* mode, and says which, although no status is taken from the iteration in
\* three precisions that it comes from.
SqrtIsRounded ==
  RootOf(last.lhs) /\ HasNormalRoot(last.lhs) /\ HasDigits(last.lhs) =>
    /\ IsNearestRoot(last.dn)
    /\ IF HalvesSquared(2 * last.dn.coeff, last.dn.exponent) = 0
         THEN "Inexact" \notin last.status /\ IsNearIdeal(last.dn, Ideal(last.lhs))
         ELSE {"Inexact", "Rounded"} \subseteq last.status
    /\ Recovers([ last.dn EXCEPT !.exponent = @ - RootExponent(last.lhs) \div 2 ],
                Fraction(last.lhs), last.set)

----------------------------------------------------------------------------
(* Power.                                                                  *)

Integral == FiniteOperands /\ last.op = "power" /\ last.lhs.coeff # 0
            /\ last.rhs.coeff # 0 /\ GetInt(last.rhs) # {}

Exponent == CHOOSE n \in GetInt(last.rhs) : TRUE
Factor == last.lhs.coeff^Magnitude(Exponent)
FactorExponent == last.lhs.exponent * Magnitude(Exponent)

\* A bound for TLC: the digits of Factor.
IsSmallPower == last.lhs.digits * Magnitude(Exponent) <= 8

\* The order of the exact power, without its sign, and m * 10^q.
PowerOrder(m, q) ==
  LET e == Smaller(q, FactorExponent)
      f == Smaller(q + FactorExponent, 0)
  IN  IF Exponent > 0
        THEN Sign(Factor * Ten[FactorExponent - e] - m * Ten[q - e])
        ELSE Sign(Ten[-f] - m * Factor * Ten[q + FactorExponent - f])

PowerNegative == last.lhs.neg /\ Exponent % 2 = 1

\* A power that is computed without rounding in the wider context.
IsExactInside == /\ Exponent > 0
                 /\ GetDigits(Factor) <= PowerContext(last.rhs, last.set).digits

\* An integral power that neither overflows nor underflows is less than one
\* unit of its last place away from the exact one and has its sign, through
\* the inversion of lhs and every rounding on the way; it is correctly rounded
\* when the exact one fits the wider context.  An overflow is a real one.
PowerWithinUlp ==
  Integral /\ IsSmallPower =>
    CASE last.status \cap {"Overflow", "Underflow"} = {} ->
           /\ ~IsSpecial(last.dn) /\ last.dn.neg = PowerNegative
           /\ PowerOrder(last.dn.coeff - 1, last.dn.exponent) > 0
           /\ PowerOrder(last.dn.coeff + 1, last.dn.exponent) < 0
           /\ IsExactInside =>
                last.dn = RoundedOnce(PowerNegative, Factor, FactorExponent, last.set).dn
      [] "Overflow" \in last.status /\ Exponent > 0 ->
           PowerOrder(Ten[last.set.digits] - 1, Etop(last.set)) > 0
      [] OTHER -> TRUE

\* The comment on decNumberPower: the final result "will almost always be
\* correctly rounded, but may be up to 1 ulp in error in rare cases".  So a
\* power that overflows is an infinity or has the largest exponent.
OverflowIsLarge ==
  Integral /\ "Overflow" \in last.status =>
    \/ last.dn.kind = "infinite"
    \/ last.dn.exponent + last.dn.digits - 1 = last.set.emax
=============================================================================
