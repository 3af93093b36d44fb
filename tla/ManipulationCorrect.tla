------------------------- MODULE ManipulationCorrect -------------------------
(***************************************************************************)
(* What the operations on a number's representation promise, for operands  *)
(* the context can hold and, where it makes no difference, longer ones.    *)
(***************************************************************************)
EXTENDS ArithCorrect

FiniteResult == FiniteOperands /\ ~IsSpecial(last.dn)

HasDigits(dn) == dn.digits <= last.set.digits

----------------------------------------------------------------------------
(* Neighbours.                                                             *)

\* No coefficient of the precision, at any exponent of the context, lies
\* strictly between the integers low and high, which count units of 10^e.
NoneBetween(low, high, e) ==
  \A exp \in Etiny(last.set)..Etop(last.set) :
    LET unit  == Ten[exp - e]
        first == low \div unit + 1
        final == (high - 1) \div unit
    IN  \/ first > final
        \/ first >= Ten[last.set.digits]
        \/ final <= -(Ten[last.set.digits])

\* An infinity is one past the largest number, and past the operand.
Limit(dn, from, e) ==
  LET past == Ten[last.set.digits + Etop(last.set) - e]
  IN  IF dn.kind = "infinite"
        THEN Signed(dn.neg, Larger(past, Magnitude(from) + 1))
        ELSE At(dn, e)

IsNeighbour ==
  LET order == CASE last.op = "nextplus" -> -1
                 [] last.op = "nextminus" -> 1
                 [] last.op = "nexttoward" -> OrderReference(last.lhs, last.rhs)
      e    == Smaller(last.lhs.exponent, Etiny(last.set))
      from == At(last.lhs, e)
      to   == Limit(last.dn, from, e)
  IN  CASE order < 0 -> from < to /\ NoneBetween(from, to, e)
        [] order > 0 -> to < from /\ NoneBetween(to, from, e)
        [] order = 0 -> from = to /\ last.dn.neg = last.rhs.neg

\* Of operands whose distance to the bottom of the range TLC can count.
AsksNext == /\ FiniteOperands /\ last.op \in {"nextplus", "nextminus", "nexttoward"}
            /\ Magnitude(last.lhs.exponent - Etiny(last.set)) <= 9

\* nextplus, nextminus and nexttoward go to the neighbour: past the operand, in
\* the right direction, with no number of the context left out between; never
\* inexactly in sight of the context unless the neighbour is subnormal, zero
\* or infinite.  The step that does it adds a number 10^9 exponents away, in
\* the contexts where that is below every other number (and TLC can count the
\* exponents).
NextIsNeighbour ==
  AsksNext /\ Etop(last.set) - Etiny(last.set) <= 9
           /\ Etiny(last.set) > Tiny.exponent => IsNeighbour

\* The manual: "the closest value to the argument in the direction of", in any
\* context, for the code takes Tiny to be "smaller than tiniest".
NextIsClosest == AsksNext => IsNeighbour

----------------------------------------------------------------------------
(* Representations.                                                        *)

\* Numbers that compare equal are normalized to the very same representation,
\* also by a context that clamps or has no exponent low or high enough.
NormalizeIsCanonical ==
  FiniteOperands /\ last.op = "nexttoward" /\ OrderReference(last.lhs, last.rhs) = 0
    /\ last.lhs.coeff # 0 /\ last.lhs.neg = last.rhs.neg =>
      NumberNormalize(last.lhs, last.set).dn = NumberNormalize(last.rhs, last.set).dn

Digit(c, i) == (c \div Ten[i]) % 10

\* rotate moves every digit of the precision by the same distance around it,
\* the three steps on Units included; for operands of the precision.
RotateRotates ==
  FiniteResult /\ last.op = "rotate" /\ HasDigits(last.lhs) =>
    LET p == last.set.digits
        n == Signed(last.rhs.neg, last.rhs.coeff)
    IN  /\ \A i \in 0..(p - 1) :
             Digit(last.dn.coeff, (i + n) % p) = Digit(last.lhs.coeff, i)
        /\ HasDigits(last.dn)
        /\ last.dn.exponent = last.lhs.exponent /\ last.dn.neg = last.lhs.neg

\* shift is a multiplication or a division by a power of ten that loses what
\* does not fit; the digits are counted anew.
ShiftScales ==
  FiniteResult /\ last.op = "shift" /\ last.rhs.coeff # 0 =>
    LET c == last.lhs.coeff
        scaled == IF last.rhs.neg THEN c \div Ten[last.rhs.coeff]
                  ELSE (c * Ten[last.rhs.coeff]) % Ten[last.set.digits]
    IN  last.dn = Finite(last.lhs.neg, scaled, last.lhs.exponent)

\* rotate and shift put every digit where they are asked to and lose no other.
DigitsAreMoved == RotateRotates /\ ShiftScales

\* scaleb multiplies by a power of ten, rounded once where the exponent range
\* demands it, for exponents and counts up to the ends of the library's range;
\* for operands of the precision, when the new exponent is an Int.  (It may not
\* be: the count alone can have ten digits.)
ScaleBIsRounded ==
  FiniteOperands /\ last.op = "scaleb" /\ HasDigits(last.lhs)
    /\ "Invalid_operation" \notin last.status =>
      LET e == last.lhs.exponent
          n == Signed(last.rhs.neg, last.rhs.coeff)
      IN  IsIntSum(e, n) =>
            Returned = RoundedOnce(last.lhs.neg, last.lhs.coeff, e + n, last.set)

\* The truth table of a digitwise operation, for digits that are 0 or 1.
TruthOf(op, l, r) == CASE op = "land" -> l * r
                       [] op = "lor" -> Larger(l, r)
                       [] op = "xor" -> (l + r) % 2
                       [] op = "invert" -> 1 - l

\* The digitwise operations give every digit of the precision its truth value,
\* whatever stands above the precision in the same Unit or in another; they
\* fail exactly when an operand is no natural number or has another digit than
\* 0 and 1 within the precision, and count the digits of the result.
LogicalIsDigitwise ==
  FiniteOperands /\ last.op \in {"land", "lor", "xor", "invert"} =>
    LET places == 0..(last.set.digits - 1)
        IsLogical(dn) == /\ ~dn.neg /\ dn.exponent = 0
                         /\ \A i \in places : Digit(dn.coeff, i) \in {0, 1}
    IN  IF IsLogical(last.lhs) /\ (last.op = "invert" \/ IsLogical(last.rhs))
          THEN /\ last.dn = Finite(FALSE, last.dn.coeff, 0) /\ HasDigits(last.dn)
               /\ \A i \in places : Digit(last.dn.coeff, i) =
                    TruthOf(last.op, Digit(last.lhs.coeff, i), Digit(last.rhs.coeff, i))
               /\ last.status = {}
          ELSE Failed("Invalid_operation")

----------------------------------------------------------------------------
(* Rounding.                                                               *)

\* tointegralexact and tointegralvalue round to exponent 0 in the context's
\* mode, whatever its precision, and add to its status what was lost and
\* nothing.  The sticky status they copy into their work context, with which
\* the result is judged, makes no difference; unless it has a condition that
\* makes a result a NaN.  The work context has the operand's digits: where it
\* clamps, its range must have room for them.
ToIntegralIsRounded ==
  FiniteOperands /\ last.op \in {"tointegralexact", "tointegralvalue"}
    /\ last.lhs.exponent < 0 /\ last.set.status \cap DEC_NaNs = {}
    /\ HasRoom([ last.set EXCEPT !.digits = last.lhs.digits ]) =>
      LET drop == -last.lhs.exponent
          up   == RoundsAway(last.lhs.neg, last.lhs.coeff, drop, last.set.round)
          unit == Power(last.lhs.coeff, drop)
          c    == last.lhs.coeff \div unit + (IF up THEN 1 ELSE 0)
          lost == (IF last.lhs.coeff # 0 THEN {"Rounded"} ELSE {})
                    \cup (IF last.lhs.coeff % unit # 0 THEN {"Inexact"} ELSE {})
      IN  GetDigits(c) - 1 <= last.set.emax =>
            /\ last.dn = Finite(last.lhs.neg, c, 0)
            /\ dc.status = last.set.status
                 \cup (IF last.op = "tointegralexact" THEN lost ELSE {})

ProductOf(lhs, rhs) == Finite(lhs.neg # rhs.neg, lhs.coeff * rhs.coeff,
                             lhs.exponent + rhs.exponent)
Product == ProductOf(last.lhs, last.rhs)

FusedReference == SumReference(Product, last.fhs, last.set)

\* The library's exponents have room for the product.
HoldsProduct(lhs, rhs, set) ==
  LET wide == ProductContext(lhs, rhs, set)
  IN  HasRoom(wide) /\ lhs.exponent + rhs.exponent \in wide.emin..Etop(wide)

\* What a fused call asks for: operands and a context for mathematics, and a sum
\* that is not too long for the addition's shortcut.
FusedPromised ==
  /\ FiniteOperands /\ last.op = "fma"
  /\ IsFinite(last.lhs) /\ IsFinite(last.rhs) /\ IsFinite(last.fhs)
  /\ HasRoom(last.set) /\ HoldsProduct(last.lhs, last.rhs, last.set)
  /\ FMARestriction(last.lhs, last.rhs, last.fhs, last.set) = {}
  /\ Summable(Product, last.fhs, last.set)

\* fma is the exact product plus the exact addend, rounded once, when neither is
\* more than one digit longer than the precision.
FMAIsFused == FusedPromised => Returned = FusedReference

\* The manual and decNumber.c: the intermediate result is not rounded, only the
\* final one is; for operands that fit the precision.
FMARoundsOnce ==
  FiniteOperands /\ last.op = "fma"
    /\ Short(last.lhs) /\ Short(last.rhs) /\ Short(last.fhs) =>
      Returned = FusedReference
=============================================================================
