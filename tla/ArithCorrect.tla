---------------------------- MODULE ArithCorrect ----------------------------
(***************************************************************************)
(* The arithmetic calls of a session against their reference: the exact    *)
(* result rounded once.                                                    *)
(***************************************************************************)
EXTENDS LuaSession, DecReference

Negated(dn) == [ dn EXCEPT !.neg = ~@ ]

FiniteOperands == /\ Computed /\ last.op # "tonumber"
                  /\ ~IsSpecial(last.lhs) /\ ~IsSpecial(last.rhs)

Returned == [ dn |-> last.dn, status |-> last.status ]

RoundedReference(op, lhs, rhs, set) ==
  CASE op = "add"  -> SumReference(lhs, rhs, set)
    [] op = "sub"  -> SumReference(lhs, Negated(rhs), set)
    [] op = "mul"  -> ProductReference(lhs, rhs, set)
    [] op = "plus" -> SumReference(ZeroLike(lhs), lhs, set)
    [] op = "neg"  -> SumReference(ZeroLike(lhs), Negated(lhs), set)
    [] op = "abs"  -> SumReference(ZeroLike(lhs), [ lhs EXCEPT !.neg = FALSE ], set)

\* What the promise asks of a call: a sum or a difference must not be too long
\* for the shortcut, and the context must have room.
Promised ==
  /\ FiniteOperands /\ IsFinite(last.lhs) /\ IsFinite(last.rhs)
  /\ HasRoom(last.set)
  /\ last.op \in {"add", "sub"} => Summable(last.lhs, last.rhs, last.set)

\* Sums, differences, products, plus, minus and abs are the exact result
\* rounded once, in sign, coefficient, exponent and every status flag, for
\* operands outside the exponent range too: the residue the code carries
\* through two shortenings (decSetCoeff for the precision, then again in
\* decSetSubnormal) never rounds twice.
CorrectlyRounded ==
  Promised /\ last.op \in {"add", "sub", "mul", "plus", "neg", "abs"} =>
    Returned = RoundedReference(last.op, last.lhs, last.rhs, last.set)

\* The number of two that is better, fitted to the context; when neither is, one
\* of them, the same as with the operands swapped.
IsBetter(res, better, lhs, rhs, swapped, set) ==
  LET Fit(dn) == RoundedOnce(dn.neg, dn.coeff, dn.exponent, set)
  IN  /\ better > 0 => res = Fit(lhs)
      /\ better < 0 => res = Fit(rhs)
      /\ better = 0 => res \in { Fit(lhs), Fit(rhs) } /\ res = swapped

\* What it takes to order two numbers, and for the better one to be fitted.
Orderable == /\ FiniteOperands /\ IsFinite(last.lhs) /\ IsFinite(last.rhs)
             /\ last.op = "compare" \/ HasRoom(last.set)

\* compare returns the order of the exact values, whatever the exponents, and
\* no status.  The extremum of two finite numbers is one of them fitted to the
\* context: rounded once, never the one that compares lower (higher for a
\* minimum); and it does not depend on the order of the operands, zeros of
\* different signs and equal numbers of different exponents included.
OrderIsExact ==
  last.op \in {"compare", "max", "min"} /\ Orderable =>
    LET order == OrderReference(last.lhs, last.rhs)
    IN  CASE last.op = "compare" ->
               Returned = [ dn |-> SignNumber(order), status |-> {} ]
          [] last.op = "max" ->
               IsBetter(Returned, order, last.lhs, last.rhs,
                        NumberMax(last.rhs, last.lhs, last.set), last.set)
          [] last.op = "min" ->
               IsBetter(Returned, -order, last.lhs, last.rhs,
                        NumberMin(last.rhs, last.lhs, last.set), last.set)

\* quantize gives its first operand the exponent of the second, rounding once,
\* or fails because the coefficient would need more than the precision or the
\* exponent more than its range.  (Where all nines round up past the exponent
\* range, the code reports an overflow instead of the failure.)
QuantizeIsExact ==
  FiniteOperands /\ last.op = "quantize" =>
    LET exact == QuantizeReference(last.lhs, last.rhs.exponent, last.set)
    IN  IF "Overflow" \in last.status
          THEN IsNaN(exact.dn) /\ last.rhs.exponent > last.lhs.exponent
          ELSE Returned = exact

----------------------------------------------------------------------------
(* Division.  The identities below are those of operands the context can   *)
(* hold; longer ones have remainders that must be rounded.                 *)

Divisible == FiniteOperands /\ ~IsZero(last.rhs)

Short(dn) == /\ dn.digits <= last.set.digits
             /\ dn.exponent >= Etiny(last.set)
             /\ dn.exponent + dn.digits - 1 <= last.set.emax

ShortOperands == Divisible /\ Short(last.lhs) /\ Short(last.rhs)

HasDigitsFor(n) == GetDigits(n) <= last.set.digits

\* The product the floor computes, and the quotient moved by one, are exact.
FloorFits(quot) == /\ HasDigitsFor(quot.coeff * last.rhs.coeff)
                   /\ HasDigitsFor(quot.coeff + 1)

Failed(flag) == Returned = [ dn |-> QNaN, status |-> {flag} ]

\* The exponent at which operands and result are integers: clamping may have
\* folded the result below both operands.
Common == Smaller(last.dn.exponent,
                  Smaller(last.lhs.exponent, last.rhs.exponent))

\* A quotient is exact, with the exponent as near the difference of the
\* operands' exponents as it can be, or the exact quotient rounded once,
\* although it is found in Units and carries at most a sticky residue.
QuotientIsExact ==
  Divisible /\ last.op = "divide" =>
    Returned = QuotientReference(last.lhs, last.rhs, last.set)

\* lhs = lhs:divideinteger(rhs) * rhs + lhs:remainder(rhs), exactly, with a
\* remainder that is smaller than the divisor and has the sign of lhs; the two
\* fail together, when the integer quotient is longer than the precision.
IsRemainderOf(quot) ==
  LET rem == At(last.dn, Common)
  IN  IF IsNaN(quot.dn)
        THEN Returned = quot /\ Failed("Division_impossible")
        ELSE /\ At(last.lhs, Common) = At(quot.dn, 0) * At(last.rhs, Common) + rem
             /\ Magnitude(rem) < Magnitude(At(last.rhs, Common))
             /\ rem # 0 => last.dn.neg = last.lhs.neg

IsRemainder == IsRemainderOf(NumberDivideInteger(last.lhs, last.rhs, last.set))

\* remaindernear leaves at most half the divisor and differs from lhs by a whole
\* multiple of it, an even one in a tie.
IsNearRemainder ==
  LET lhs  == At(last.lhs, Common)
      rhs  == At(last.rhs, Common)
      rem  == At(last.dn, Common)
      quot == Magnitude(lhs - rem) \div Magnitude(rhs)
  IN  /\ Magnitude(lhs - rem) = quot * Magnitude(rhs)
      /\ 2 * Magnitude(rem) <= Magnitude(rhs)
      /\ 2 * Magnitude(rem) = Magnitude(rhs) => quot % 2 = 0

\* The remainders are those of their definitions, and never inexact.
RemainderIdentity ==
  ShortOperands /\ last.op \in {"remainder", "remaindernear"} =>
    /\ last.op = "remainder" => IsRemainder
    /\ ~Failed("Division_impossible") =>
         /\ ~IsSpecial(last.dn) /\ "Inexact" \notin last.status
         /\ last.op = "remaindernear" => IsNearRemainder

\* a % b = a - floor(a/b) * b: the exact modulo, which lies between zero and
\* the divisor, rounded once.  floor finds the quotient of the same identity
\* whenever quotient times divisor, which it computes to see whether there was a
\* remainder, fits the precision.
ModIsFloored ==
  ShortOperands /\ last.op = "mod" /\ ~Failed("Division_impossible") =>
    LET lhs == At(last.lhs, Common)
        rhs == At(last.rhs, Common)
        mod == IF rhs > 0 THEN lhs % rhs ELSE -((-lhs) % (-rhs))
        quot == NumberDivideInteger(last.lhs, last.rhs, last.set).dn
        floor == Floor(last.lhs, last.rhs, last.set).dn
    IN  /\ IF mod = 0 THEN last.dn.coeff = 0
           ELSE last.dn = RoundedOnce(mod < 0, Magnitude(mod), Common, last.set).dn
        /\ FloorFits(quot) =>
             At(floor, 0) * rhs = lhs - mod
=============================================================================
