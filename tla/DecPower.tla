------------------------------ MODULE DecPower ------------------------------
(***************************************************************************)
(* Square root and power (decNumberSquareRoot, decNumberPower).  Both      *)
(* compute in work contexts of their own precision, built from the         *)
(* operations of DecArith and DecDivide, and fit the result at the end.    *)
(***************************************************************************)
EXTENDS DecManipulate

----------------------------------------------------------------------------
(* decNumberSquareRoot: Hull and Abrham's properly rounded root.           *)

RootContext(digits) == [ ContextDefault("DECIMAL64") EXCEPT !.digits = digits ]

\* rhs = f * 10^exp with an even exp, and f in 0.01 .. 1.
RootExponent(rhs) == 2 * ((rhs.exponent + rhs.digits + 1) \div 2)
IsEvenRoot(rhs) == RootExponent(rhs) = rhs.exponent + rhs.digits
Fraction(rhs) ==
  [ rhs EXCEPT !.exponent = -rhs.digits - (IF IsEvenRoot(rhs) THEN 0 ELSE 1) ]

\* The assignment to approx, which rounds to the precision of the root.
Assign(dn, set) == AddOp(Zero, dn, RootContext(set.digits), FALSE).dn

\* A straight line through the root of f.
FirstApproximation(rhs, set) ==
  LET factor == Finite(FALSE, IF IsEvenRoot(rhs) THEN 819 ELSE 259,
                       IF IsEvenRoot(rhs) THEN -3 ELSE -2)
      offset == Finite(FALSE, IF IsEvenRoot(rhs) THEN 259 ELSE 819,
                       IF IsEvenRoot(rhs) THEN -3 ELSE -4)
      ctx    == RootContext(set.digits)
  IN  AddOp(MultiplyOp(factor, Fraction(rhs), ctx).dn, offset, ctx, FALSE).dn

\* a = 0.5 * (a + f/a)
Newton(f, a, ctx, set) ==
  LET sum == AddOp(DivideOp(f, a, ctx, "divide").dn, a, ctx, FALSE).dn
  IN  Assign(MultiplyOp(sum, Finite(FALSE, 5, -1), ctx).dn, set)

\* The working precision of a turn of the loop: 4, 6, 10, ... up to two more
\* than the precision of the root, which is that of the last turn.
TurnDigits(turn, set) ==
  IF 2^turn < set.digits THEN 2^turn + 2 ELSE set.digits + 2

Turns(set) == Min({ turn \in 1..set.digits : TurnDigits(turn, set) = set.digits + 2 })

Approximation(rhs, set) ==
  LET a[turn \in 0..Turns(set)] ==
        IF turn = 0 THEN FirstApproximation(rhs, set)
        ELSE Newton(Fraction(rhs), a[turn - 1],
                    RootContext(TurnDigits(turn, set)), set)
  IN  a[Turns(set)]

IsSquareAbove(dn, f, ctx) == Compare(f, MultiplyOp(dn, dn, ctx).dn, FALSE) < 0
IsSquareBelow(dn, f, ctx) == Compare(MultiplyOp(dn, dn, ctx).dn, f, FALSE) < 0

\* Mutation: the approximation is taken as it is.
AdjustedNever(a, f, set) == a

\* One ulp away from the root that is too high or too low.
MovedByUlp(a, high, low, ctx, set) ==
  IF high \/ low
    THEN Assign(AddOp(a, Finite(FALSE, 1, -set.digits),
                      [ ctx EXCEPT !.round = IF high THEN "UP" ELSE "DOWN" ],
                      high).dn, set)
    ELSE a

\* The approximation is within one ulp of the root: it is compared with f half
\* an ulp below and half an ulp above, squared, and moved by one ulp if need be.
Adjusted(a, f, set) ==
  LET ctx  == RootContext(set.digits + 1)
      up   == [ ctx EXCEPT !.round = "UP" ]
      down == [ ctx EXCEPT !.round = "DOWN" ]
      half == Finite(FALSE, 5, -set.digits - 1)
  IN  MovedByUlp(a, IsSquareAbove(AddOp(a, half, ctx, TRUE).dn, f, up),
                 IsSquareBelow(AddOp(a, half, up, FALSE).dn, f, down), ctx, set)

\* A root can only be exact when it is short enough to be squared, trailing
\* zeros left aside.
IsSquareRootOf(square, rhs) ==
  square.status = {} /\ Compare(square.dn, rhs, FALSE) = 0

IsExactRoot(short, rhs, set) ==
  /\ 2 * short.digits - 1 <= set.digits
  /\ IsSquareRootOf(MultiplyOp(short, short, RootContext(set.digits + 1)), rhs)

\* The preferred exponent of the root.
Ideal(rhs) == rhs.exponent \div 2

\* An exact root loses trailing zeros until it has the ideal exponent.
ExactRoot(w, ideal, set) ==
  LET dropped == w.dn.digits - Trim(w.dn, set, TRUE).digits
      todrop  == Min({ dropped, ideal - w.dn.exponent })
  IN  CASE ideal < w.dn.exponent -> Raise(w, {"Rounded"})
        [] ideal >= w.dn.exponent ->
             [ w EXCEPT !.dn.coeff = @ \div Ten[todrop], !.dn.digits = @ - todrop,
                        !.dn.exponent = @ + todrop ]

\* A normal inexact result gets all the digits of the precision.  The test
\* reads the exponent whatever the result is.
FilledUp(w, set) ==
  LET shift == set.digits - w.dn.digits
  IN  IF /\ "Inexact" \in w.status /\ shift > 0
         /\ w.dn.exponent + w.dn.digits - 1 >= set.emin
        THEN [ w EXCEPT !.dn = Padded(@, shift) ]
        ELSE w

RootResult(w, rhs, set) ==
  FilledUp(IF IsExactRoot(Trim(w.dn, set, TRUE), rhs, set)
             THEN ExactRoot(w, Ideal(rhs), set)
             ELSE Raise(w, {"Inexact", "Rounded"}), set)

\* The root for a given approximation of the root of the fraction.
SquareRootFrom(approx, rhs, set) ==
  LET a == Adjusted(approx, Fraction(rhs), set)
  IN  RootResult(Finalize(Exact([ a EXCEPT !.exponent = @ + RootExponent(rhs) \div 2 ]),
                          set), rhs, set)

SquareRootOp(rhs, set) ==
  CASE IsNaN(rhs) -> NaNs(rhs, rhs, set, {})
    [] rhs.kind = "infinite" ->
         IF rhs.neg THEN Fail("Invalid_operation") ELSE Exact(rhs)
    [] IsZero(rhs) -> Exact([ rhs EXCEPT !.exponent = Ideal(rhs) ])
    [] ~IsSpecial(rhs) /\ ~IsZero(rhs) ->
         IF rhs.neg THEN Fail("Invalid_operation")
         ELSE SquareRootFrom(Approximation(rhs, set), rhs, set)

NumberSquareRoot(rhs, set) == Status(SquareRootOp(rhs, set))

----------------------------------------------------------------------------
(* decNumberPower.  A power that is not an integer of at most nine digits  *)
(* is exp(ln(lhs) * rhs), of which only the case lhs = 1, where ln is an   *)
(* exact zero, is modelled.                                                *)

One == Finite(FALSE, 1, 0)

\* A one with all the digits of the precision, deemed inexact.
PaddedOne(set) ==
  Work(Finite(FALSE, Ten[set.digits - 1], 1 - set.digits), 0, {"Inexact", "Rounded"})

\* rhs is an infinity: the limit of the powers.
PowerToInfinity(lhs, rhs, set) ==
  LET order == Compare(lhs, One, FALSE)
  IN  CASE lhs.neg /\ ~IsZero(lhs) -> Fail("Invalid_operation")
        [] order = 0 -> PaddedOne(set)
        [] OTHER -> Exact(IF (order < 0) = rhs.neg THEN Infinity(FALSE) ELSE Zero)

\* decGetInt again: an integer, and an odd one, may be too large for GetInt.
IsWhole(dn) == IsZero(dn) \/ dn.exponent >= 0 \/ dn.coeff % Ten[-dn.exponent] = 0
IsOdd(dn) == /\ dn.exponent <= 0 /\ IsWhole(dn)
             /\ (dn.coeff \div Ten[-dn.exponent]) % 2 = 1

\* The sign of the power of a negative number.
PowerSign(lhs, rhs) == lhs.neg /\ IsOdd(rhs)

\* lhs is an infinity or a zero, which large is the infinite power of.
PowerOfExtreme(lhs, rhs, large) ==
  IF large THEN Exact(Infinity(PowerSign(lhs, rhs)))
           ELSE Exact(Finite(PowerSign(lhs, rhs), 0, 0))

PowerOfInfinity(lhs, rhs) ==
  CASE IsZero(rhs) -> Exact(One)
    [] ~IsZero(rhs) /\ ~IsWhole(rhs) /\ lhs.neg -> Fail("Invalid_operation")
    [] OTHER -> PowerOfExtreme(lhs, rhs, ~rhs.neg)

PowerOfZero(lhs, rhs) ==
  IF IsZero(rhs) THEN Fail("Invalid_operation")
                 ELSE PowerOfExtreme(lhs, rhs, rhs.neg)

\* The result of the work in the precision of the caller.
FitInto(w, set) == Finalize(CopyFit(w.dn, set, 0, w.status), set)

\* Not by squaring: the power of one, integral or not.
PowerOfOne(lhs, rhs, set) ==
  LET restriction == IF CheckMath(lhs, set) # {} THEN CheckMath(lhs, set)
                                                 ELSE CheckMath(rhs, set)
  IN  CASE lhs.neg -> Fail("Invalid_operation")
        [] ~lhs.neg /\ restriction # {} -> Work(Zero, 0, restriction)
        [] OTHER -> FitInto(IF IsWhole(rhs) THEN Exact(One) ELSE PaddedOne(set), set)

\* The powers the model has a result for.
HasPower(lhs, rhs) ==
  \/ IsSpecial(lhs) \/ IsSpecial(rhs) \/ IsZero(lhs) \/ lhs.neg
  \/ GetInt(rhs) # {}
  \/ Compare(lhs, One, FALSE) = 0

----------------------------------------------------------------------------
(* An integral power: repeated squaring in a wider context.                *)

\* Mutation: the working precision has no guard digits.
PowerContextTight(rhs, set) ==
  [ set EXCEPT !.round = "HALF_EVEN", !.digits = @ + rhs.digits + rhs.exponent - 1 ]

\* Two more digits than the result and the exponent have together.
PowerContext(rhs, set) ==
  [ set EXCEPT !.round = "HALF_EVEN", !.digits = @ + rhs.digits + rhs.exponent + 2 ]

\* An operation that replaces the accumulator.
Into(w, op) == [ op EXCEPT !.status = @ \cup w.status ]

\* Hopeless: an overflow, or an underflow down to zero.
Abandoned(w) == \/ "Overflow" \in w.status
                \/ "Underflow" \in w.status /\ IsZero(w.dn)

\* The significant bits of n, and the bit that counts 2^i.
Bits(n) == Min({ k \in 0..30 : n < 2^k } \cup { 31 })
Bit(n, i) == (n \div 2^i) % 2

\* One bit, from the highest to the lowest: multiply, and square for the next.
PowerBit(w, bit, lowest, x, aset) ==
  LET product == IF bit = 1 THEN Into(w, MultiplyOp(w.dn, x, aset)) ELSE w
  IN  CASE Abandoned(w) -> w
        [] ~Abandoned(w) /\ lowest -> product
        [] ~Abandoned(w) /\ ~lowest ->
             Into(product, MultiplyOp(product.dn, product.dn, aset))

\* base is x with the status of the inversion it may come from; the
\* accumulator starts as one.
Powered(base, n, aset) ==
  LET acc[k \in 0..Bits(n)] ==
        IF k = 0 THEN Work(One, 0, base.status)
        ELSE PowerBit(acc[k - 1], Bit(n, Bits(n) - k), k = Bits(n), base.dn, aset)
  IN  acc[Bits(n)]

\* After an overflow or an underflow the sign is forced and the accumulator
\* is finalized as it is, at its own length.
PowerResult(w, neg, set) ==
  IF w.status \cap {"Overflow", "Underflow"} # {}
    THEN Finalize(Work([ w.dn EXCEPT !.neg = neg ], 0, w.status), set)
    ELSE FitInto(w, set)

\* A negative power is one of the inverse.
PowerBase(lhs, rhs, aset) ==
  IF rhs.neg THEN DivideOp(One, lhs, aset, "divide") ELSE Exact(lhs)

PowerInteger(lhs, rhs, n, set) ==
  LET aset == PowerContext(rhs, set)
  IN  IF n = 0 THEN Exact(One)
      ELSE PowerResult(Powered(PowerBase(lhs, rhs, aset), Magnitude(n), aset),
                       PowerSign(lhs, rhs), set)

PowerOp(lhs, rhs, set) ==
  CASE IsNaN(lhs) \/ IsNaN(rhs) -> NaNs(lhs, rhs, set, {})
    [] rhs.kind = "infinite" /\ ~IsNaN(lhs) -> PowerToInfinity(lhs, rhs, set)
    [] lhs.kind = "infinite" /\ ~IsSpecial(rhs) -> PowerOfInfinity(lhs, rhs)
    [] IsZero(lhs) /\ ~IsSpecial(rhs) -> PowerOfZero(lhs, rhs)
    [] OTHER -> IF GetInt(rhs) = {} THEN PowerOfOne(lhs, rhs, set)
                ELSE PowerInteger(lhs, rhs, CHOOSE n \in GetInt(rhs) : TRUE, set)

NumberPower(lhs, rhs, set) == Status(PowerOp(lhs, rhs, set))
=============================================================================
