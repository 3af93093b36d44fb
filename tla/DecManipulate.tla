---------------------------- MODULE DecManipulate ----------------------------
(***************************************************************************)
(* The operations of decNumber.c that look at a number's representation:   *)
(* its neighbours, its trailing zeros, its digits shifted, rotated or      *)
(* taken as truth values, its exponent; and the fused multiply-add.        *)
(***************************************************************************)
EXTENDS DecDivide, UnitArith

----------------------------------------------------------------------------
(* decNumberNextPlus, decNumberNextMinus, decNumberNextToward: an operand  *)
(* plus or minus a number below every exponent range, rounded outwards.    *)

Tiny == Finite(FALSE, 1, DEC_MIN_EMIN - 1)

\* Mutation: the caller's rounding mode is kept.
NextUpRounded(rhs, set) == AddOp(rhs, Tiny, set, FALSE)

NextUp(rhs, set) == AddOp(rhs, Tiny, [ set EXCEPT !.round = "CEILING" ], FALSE)
NextDown(rhs, set) == AddOp(rhs, Tiny, [ set EXCEPT !.round = "FLOOR" ], TRUE)

\* Only a signalling NaN is reported.
OnlyInvalid(w) == [ w EXCEPT !.status = @ \cap {"Invalid_operation", DEC_sNaN} ]

\* The infinity of a sign has the largest number of that sign next to it.
NumberNextPlus(rhs, set) ==
  IF rhs.kind = "infinite" /\ rhs.neg THEN Status(Exact(MaxValue(TRUE, set)))
  ELSE Status(OnlyInvalid(NextUp(rhs, set)))

NumberNextMinus(rhs, set) ==
  IF rhs.kind = "infinite" /\ ~rhs.neg THEN Status(Exact(MaxValue(FALSE, set)))
  ELSE Status(OnlyInvalid(NextDown(rhs, set)))

IsNormal(dn, set) == /\ ~IsSpecial(dn) /\ ~IsZero(dn)
                     /\ dn.exponent + dn.digits - 1 >= set.emin

\* Towards a number the status of a subnormal result or an overflow is kept.
UnlessNormal(w, set) == IF IsNormal(w.dn, set) THEN Exact(w.dn) ELSE w

CopySign(lhs, rhs) == [ lhs EXCEPT !.neg = rhs.neg ]

NextTowardOp(lhs, rhs, set) ==
  LET order == Compare(lhs, rhs, FALSE)
      leaves == lhs.kind = "infinite" /\ lhs.neg = (order < 0)
  IN  CASE IsNaN(lhs) \/ IsNaN(rhs) -> NaNs(lhs, rhs, set, {})
        [] OTHER ->
             CASE order = 0 -> Exact(CopySign(lhs, rhs))
               [] order # 0 /\ leaves -> Exact(MaxValue(lhs.neg, set))
               [] order < 0 /\ ~leaves -> UnlessNormal(NextUp(lhs, set), set)
               [] order > 0 /\ ~leaves -> UnlessNormal(NextDown(lhs, set), set)

NumberNextToward(lhs, rhs, set) == Status(NextTowardOp(lhs, rhs, set))

----------------------------------------------------------------------------
(* decTrim, decNumberNormalize, decNumberTrim.                             *)

\* Mutation: trimming always ends at the decimal point.
TrailingToPoint(dn, all) ==
  Max({ d \in 0..(dn.digits - 1) :
          dn.coeff % Ten[d] = 0 /\ (dn.exponent <= 0 => d <= -dn.exponent) })

\* The trailing zeros of an even coefficient; the last digit is never one.
\* Trimming ends at the decimal point, unless there is none to end at.
Trailing(dn, all) ==
  LET Ends(d) == dn.coeff % Ten[d] = 0
      point   == IF all \/ dn.exponent > 0 THEN dn.digits ELSE -dn.exponent
  IN  Max({ d \in 0..(dn.digits - 1) : Ends(d) /\ d <= point })

\* A clamping context limits the exponent.
Trim(dn, set, all) ==
  LET room == IF set.clamp = 1 THEN Etop(set) - dn.exponent ELSE dn.digits
      d    == IF Trailing(dn, all) > room THEN room ELSE Trailing(dn, all)
  IN  CASE IsSpecial(dn) \/ dn.coeff % 2 = 1 -> dn
        [] IsZero(dn) -> [ dn EXCEPT !.exponent = 0 ]
        [] OTHER -> IF d <= 0 THEN dn
                    ELSE [ dn EXCEPT !.coeff = @ \div Ten[d], !.digits = @ - d,
                                     !.exponent = @ + d ]

NormalizeOp(rhs, set) ==
  LET w == Finalize(CopyFit(rhs, set, 0, {}), set)
  IN  IF IsNaN(rhs) THEN NaNs(rhs, rhs, set, {})
      ELSE [ w EXCEPT !.dn = Trim(w.dn, set, TRUE) ]

NumberNormalize(rhs, set) == Status(NormalizeOp(rhs, set))
NumberTrim(dn) == Trim(dn, ContextDefault("BASE"), FALSE)

----------------------------------------------------------------------------
(* decNumberToIntegralExact, decNumberToIntegralValue.  The work context   *)
(* is a copy of the caller's, its status included, and the status that is  *)
(* applied in the end is the work context's.                               *)

WithHistory(res, set) == Status(Work(res.dn, 0, set.status \cup res.status))

NumberToIntegralExact(rhs, set) ==
  LET workset == [ set EXCEPT !.digits = rhs.digits, !.traps = {} ]
  IN  CASE rhs.kind = "infinite" -> Status(Exact(rhs))
        [] IsNaN(rhs) -> Status(NaNs(rhs, rhs, set, {}))
        [] OTHER -> IF rhs.exponent >= 0 THEN Status(Exact(rhs))
                    ELSE WithHistory(NumberQuantize(rhs, Zero, workset), set)

NumberToIntegralValue(rhs, set) ==
  LET res == NumberToIntegralExact(rhs, set)
  IN  [ res EXCEPT !.status =
          (set.status \cup @) \cap {"Invalid_operation"} ]

----------------------------------------------------------------------------
(* decNumberShift, decNumberRotate, decNumberScaleB, decNumberLogB.        *)

\* A second operand that must be an integer no larger than limit.
Counts(rhs, limit) ==
  IF rhs.kind = "infinite" \/ rhs.exponent # 0 THEN {}
  ELSE { n \in GetInt(rhs) : Magnitude(n) <= limit }

Counted(lhs, rhs, set, limit, Operate(_, _, _)) ==
  LET counts == Counts(rhs, limit)
  IN  CASE IsNaN(lhs) \/ IsNaN(rhs) -> NaNs(lhs, rhs, set, {})
        [] ~IsNaN(lhs) /\ ~IsNaN(rhs) /\ counts = {} -> Fail("Invalid_operation")
        [] OTHER -> IF lhs.kind = "infinite" THEN Exact(lhs)
                    ELSE Operate(lhs, CHOOSE n \in counts : TRUE, set)

\* decDecap: without the leading drop digits.
Decap(dn, drop) ==
  LET c == IF drop >= dn.digits THEN 0 ELSE dn.coeff % Ten[dn.digits - drop]
  IN  [ dn EXCEPT !.coeff = c, !.digits = GetDigits(c) ]

ShiftLeft(dn, n, set) ==
  LET excess == dn.digits + n - set.digits
      kept   == IF excess > 0 THEN Decap(dn, excess) ELSE dn
  IN  CASE n = set.digits -> [ dn EXCEPT !.coeff = 0, !.digits = 1 ]
        [] n < set.digits -> IF kept.coeff = 0 THEN kept ELSE ShiftToMost(kept, n)

ShiftRight(dn, n) ==
  IF n >= dn.digits THEN [ dn EXCEPT !.coeff = 0, !.digits = 1 ]
  ELSE [ dn EXCEPT !.coeff = @ \div Ten[n], !.digits = @ - n ]

ShiftBy(dn, n, set) ==
  Exact(IF n > 0 THEN ShiftLeft(dn, n, set) ELSE ShiftRight(dn, -n))

NumberShift(lhs, rhs, set) == Status(Counted(lhs, rhs, set, set.digits, ShiftBy))

\* Mutation: a full top Unit is taken for an empty one.
MsuDigitsModulo(n) == n % DECDPUN

\* The digits in the top Unit of n digits (the macro MSUDIGITS).
MsuDigits(n) == n - (D2U(n) - 1) * DECDPUN

\* Step 1: down by less than a Unit, so that the final lowest digit starts a
\* Unit.  The digits shifted out go above the top one, split over two Units
\* when the top Unit has not enough room.
RotatePart(units, shift, set) ==
  LET n     == Len(units)
      save  == units[1] % Ten[shift]
      low   == ShiftToLeast(units, shift)
      over  == shift - MsuDigits(set.digits)
      below == (save % Ten[over]) * Ten[DECDPUN - over]
  IN  IF over > 0
        THEN [ i \in 1..n |-> CASE i = n -> save \div Ten[over]
                               [] i = n - 1 -> low[i] + below
                               [] i < n - 1 -> low[i] ]
        ELSE [ i \in 1..n |-> low[i] + (IF i = n THEN save * Ten[-over] ELSE 0) ]

\* Step 2: the Units that go round shift down so that the final top digit ends
\* its Unit; what is shifted out fills the top Unit.
RotateLower(units, count, set) ==
  LET msud  == MsuDigits(set.digits)
      save  == units[1] % Ten[DECDPUN - msud]
      lower == ShiftToLeast(SubSeq(units, 1, count), DECDPUN - msud)
  IN  [ i \in 1..Len(units) |->
          (IF i <= count THEN lower[i] ELSE units[i])
          + (IF i = Len(units) THEN save * Ten[msud] ELSE 0) ]

\* Step 3 (three reversals): the lower Units go to the top.
RotateUnits(units, count) == SubSeq(units, count + 1, Len(units)) \o SubSeq(units, 1, count)

\* decGetDigits of Units.  Nothing is cut off an operand longer than the
\* precision, whose extra digits can leave more in a Unit than it may hold.
UnitDigits(units) ==
  LET top == Max({ 1 } \cup { i \in 1..Len(units) : units[i] # 0 })
  IN  (top - 1) * DECDPUN + Min({ DECDPUN, GetDigits(units[top]) })

\* A left rotation by n of the Units of the precision, as a right one.
RotateBy(dn, n, set) ==
  LET left   == IF n < 0 THEN set.digits + n ELSE n
      right  == set.digits - left
      count  == right \div DECDPUN
      source == UnitsOf(dn)
      units  == [ i \in 1..D2U(set.digits) |-> UnitAt(source, i) ]
      parted == RotatePart(units, right % DECDPUN, set)
      turned == IF count = 0 THEN parted
                ELSE RotateUnits(RotateLower(parted, count, set), count)
  IN  IF left \in {0, set.digits} THEN Exact(dn)
      ELSE Exact([ dn EXCEPT !.coeff = CoeffOf(turned),
                             !.digits = UnitDigits(turned) ])

NumberRotate(lhs, rhs, set) ==
  Status(Counted(lhs, rhs, set, set.digits, RotateBy))

\* Is a + b an Int, and the sum of Ints as the builds make it: one of more than
\* 32 bits wraps (C leaves it undefined).  No number larger than an Int occurs.
MaxInt == 2147483647
IsIntSum(a, b) == IF b < 0 THEN a >= -MaxInt - b - 1 ELSE a <= MaxInt - b
AddInt(a, b) == CASE IsIntSum(a, b) -> a + b
                  [] ~IsIntSum(a, b) /\ b < 0 -> (a + MaxInt) + (b + MaxInt) + 2
                  [] ~IsIntSum(a, b) /\ b >= 0 -> (a - MaxInt) + (b - MaxInt) - 2

\* Mutation: the new exponent is not checked.
ScaleByUnfinished(dn, n, set) == Exact([ dn EXCEPT !.exponent = AddInt(@, n) ])

ScaleBy(dn, n, set) ==
  Finalize(Exact([ dn EXCEPT !.exponent = AddInt(@, n) ]), set)

NumberScaleB(lhs, rhs, set) ==
  Status(Counted(lhs, rhs, set, 2 * (set.digits + set.emax), ScaleBy))

\* The adjusted exponent, whatever the precision.
LogB(rhs, set) ==
  CASE IsNaN(rhs) -> NaNs(rhs, rhs, set, {})
    [] rhs.kind = "infinite" -> Exact(Infinity(FALSE))
    [] IsZero(rhs) -> Work(Infinity(TRUE), 0, {"Division_by_zero"})
    [] OTHER -> LET ae == rhs.exponent + rhs.digits - 1
                IN  Exact(Finite(ae < 0, Magnitude(ae), 0))

NumberLogB(rhs, set) == Status(LogB(rhs, set))

----------------------------------------------------------------------------
(* decNumberAnd, Or, Xor, Invert: the digits of the precision as truth     *)
(* values, each in loops of its own: over Units, and in a Unit over the    *)
(* digits from i up.  A Unit is a set, empty when a digit in it is neither *)
(* 0 nor 1; in the top Unit the loop is left at the last digit of the      *)
(* precision.                                                              *)

AndUnit(a, b, top, set) ==
  LET from[i \in 0..(DECDPUN - 1)] ==
        LET x    == a \div Ten[i]
            y    == b \div Ten[i]
            bit  == IF x % 2 = 1 /\ y % 2 = 1 THEN Ten[i] ELSE 0
            done == i = DECDPUN - 1 \/ (top /\ i = MsuDigits(set.digits) - 1)
        IN  IF x % 10 > 1 \/ y % 10 > 1 THEN {}
            ELSE { bit + rest : rest \in IF done THEN {0} ELSE from[i + 1] }
  IN  IF a = 0 /\ b = 0 THEN {0} ELSE from[0]

OrUnit(a, b, top, set) ==
  LET from[i \in 0..(DECDPUN - 1)] ==
        LET x    == a \div Ten[i]
            y    == b \div Ten[i]
            bit  == IF x % 2 = 1 \/ y % 2 = 1 THEN Ten[i] ELSE 0
            done == i = DECDPUN - 1 \/ (top /\ i = MsuDigits(set.digits) - 1)
        IN  IF x % 10 > 1 \/ y % 10 > 1 THEN {}
            ELSE { bit + rest : rest \in IF done THEN {0} ELSE from[i + 1] }
  IN  IF a = 0 /\ b = 0 THEN {0} ELSE from[0]

\* Mutation: the loop is left one digit late.
XorUnitLate(a, b, top, set) ==
  LET from[i \in 0..(DECDPUN - 1)] ==
        LET x    == a \div Ten[i]
            y    == b \div Ten[i]
            bit  == IF x % 2 # y % 2 THEN Ten[i] ELSE 0
            done == i = DECDPUN - 1 \/ (top /\ i = MsuDigits(set.digits))
        IN  IF x % 10 > 1 \/ y % 10 > 1 THEN {}
            ELSE { bit + rest : rest \in IF done THEN {0} ELSE from[i + 1] }
  IN  IF a = 0 /\ b = 0 THEN {0} ELSE from[0]

XorUnit(a, b, top, set) ==
  LET from[i \in 0..(DECDPUN - 1)] ==
        LET x    == a \div Ten[i]
            y    == b \div Ten[i]
            bit  == IF x % 2 # y % 2 THEN Ten[i] ELSE 0
            done == i = DECDPUN - 1 \/ (top /\ i = MsuDigits(set.digits) - 1)
        IN  IF x % 10 > 1 \/ y % 10 > 1 THEN {}
            ELSE { bit + rest : rest \in IF done THEN {0} ELSE from[i + 1] }
  IN  IF a = 0 /\ b = 0 THEN {0} ELSE from[0]

\* A Unit of zeros has digits to invert: none is skipped.
InvertUnit(a, top, set) ==
  LET from[i \in 0..(DECDPUN - 1)] ==
        LET x    == a \div Ten[i]
            bit  == IF x % 2 = 0 THEN Ten[i] ELSE 0
            done == i = DECDPUN - 1 \/ (top /\ i = MsuDigits(set.digits) - 1)
        IN  IF x % 10 > 1 THEN {}
            ELSE { bit + rest : rest \in IF done THEN {0} ELSE from[i + 1] }
  IN  from[0]

\* What is tested before the loops and done after them: decGetDigits, no
\* exponent, no sign.
Logical(operands, units) ==
  LET digits == [ i \in DOMAIN units |-> CHOOSE unit \in units[i] : TRUE ]
  IN  IF \/ \E dn \in operands : IsSpecial(dn) \/ dn.neg \/ dn.exponent # 0
         \/ \E i \in DOMAIN units : units[i] = {}
        THEN Fail("Invalid_operation")
        ELSE Exact([ Finite(FALSE, CoeffOf(digits), 0)
                       EXCEPT !.digits = UnitDigits(digits) ])

NumberAnd(lhs, rhs, set) ==
  LET ua   == UnitsOf(lhs)
      ub   == UnitsOf(rhs)
      msuc == D2U(set.digits)
  IN  Status(Logical({lhs, rhs}, [ uc \in 1..msuc |->
        AndUnit(UnitAt(ua, uc), UnitAt(ub, uc), uc = msuc, set) ]))

NumberOr(lhs, rhs, set) ==
  LET ua   == UnitsOf(lhs)
      ub   == UnitsOf(rhs)
      msuc == D2U(set.digits)
  IN  Status(Logical({lhs, rhs}, [ uc \in 1..msuc |->
        OrUnit(UnitAt(ua, uc), UnitAt(ub, uc), uc = msuc, set) ]))

NumberXor(lhs, rhs, set) ==
  LET ua   == UnitsOf(lhs)
      ub   == UnitsOf(rhs)
      msuc == D2U(set.digits)
  IN  Status(Logical({lhs, rhs}, [ uc \in 1..msuc |->
        XorUnit(UnitAt(ua, uc), UnitAt(ub, uc), uc = msuc, set) ]))

NumberInvert(rhs, set) ==
  LET ua   == UnitsOf(rhs)
      msuc == D2U(set.digits)
  IN  Status(Logical({rhs}, [ uc \in 1..msuc |->
        InvertUnit(UnitAt(ua, uc), uc = msuc, set) ]))

----------------------------------------------------------------------------
(* decCheckMath, decNumberFMA: a product with room for all of its digits,  *)
(* and one addition.                                                       *)

DEC_MAX_MATH == 999999

CheckMath(dn, set) ==
  LET top == dn.exponent + dn.digits
  IN  CASE IsSpecial(dn) -> {}
        [] ~IsSpecial(dn) /\ (set.digits > DEC_MAX_MATH \/ set.emax > DEC_MAX_MATH
                              \/ -set.emin > DEC_MAX_MATH) -> {"Invalid_context"}
        [] OTHER -> IF ~IsZero(dn) /\ (dn.digits > DEC_MAX_MATH
                         \/ top > DEC_MAX_MATH + 1 \/ top < 2 * (1 - DEC_MAX_MATH))
                      THEN {"Invalid_operation"} ELSE {}

\* The operands are checked in order, up to the first that is outside.
FMARestriction(lhs, rhs, fhs, set) ==
  CASE CheckMath(lhs, set) # {} -> CheckMath(lhs, set)
    [] CheckMath(lhs, set) = {} /\ CheckMath(rhs, set) # {} -> CheckMath(rhs, set)
    [] OTHER -> CheckMath(fhs, set)

\* Mutation: the product is rounded as well.
ProductContextRounded(lhs, rhs, set) == set

\* Room for every digit and every exponent of the product.
ProductContext(lhs, rhs, set) ==
  [ set EXCEPT !.digits = lhs.digits + rhs.digits,
               !.emax = DEC_MAX_EMAX, !.emin = DEC_MIN_EMIN ]

\* The product, acc, and the addend; a signalling NaN is already a NaN.
FMAAdd(acc, fhs, set) ==
  LET sum == AddOp(acc.dn, IF DEC_sNaN \in acc.status THEN Zero ELSE fhs, set, FALSE)
  IN  IF "Invalid_operation" \in acc.status /\ DEC_sNaN \notin acc.status THEN acc
      ELSE Work(sum.dn, sum.residue, sum.status \cup acc.status)

FMAOp(lhs, rhs, fhs, set) ==
  LET restriction == FMARestriction(lhs, rhs, fhs, set)
  IN  IF restriction # {} THEN Work(Zero, 0, restriction)
      ELSE FMAAdd(MultiplyOp(lhs, rhs, ProductContext(lhs, rhs, set)), fhs, set)

NumberFMA(lhs, rhs, fhs, set) == Status(FMAOp(lhs, rhs, fhs, set))

----------------------------------------------------------------------------
(* The quiet operations: no context, no status.                            *)

Quiet(dn) == [ dn |-> dn, status |-> {} ]

NumberCopy(rhs) == Quiet(rhs)
NumberCopyAbs(rhs) == Quiet([ rhs EXCEPT !.neg = FALSE ])
NumberCopyNegate(rhs) == Quiet([ rhs EXCEPT !.neg = ~@ ])
NumberCopySign(lhs, rhs) == Quiet(CopySign(lhs, rhs))

NumberSameQuantum(lhs, rhs) ==
  LET same == CASE IsNaN(lhs) \/ IsNaN(rhs) -> IsNaN(lhs) /\ IsNaN(rhs)
                [] ~IsNaN(lhs) /\ ~IsNaN(rhs) /\ lhs.kind # rhs.kind -> FALSE
                [] OTHER -> lhs.kind = "infinite" \/ lhs.exponent = rhs.exponent
  IN  Quiet(Finite(FALSE, IF same THEN 1 ELSE 0, 0))
=============================================================================
