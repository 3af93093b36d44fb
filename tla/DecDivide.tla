------------------------------ MODULE DecDivide ------------------------------
(***************************************************************************)
(* Division: decDivideOp of decNumber.c in its four forms (divide, integer *)
(* divide, remainder, remainder-near), the public functions, and the two   *)
(* Lua operators built from them, mod and floor.                           *)
(*                                                                         *)
(* The quotient is developed one Unit at a time.  How a Unit is found by   *)
(* estimates and subtractions is the subject of LongDivision; here it is   *)
(* the integer quotient of the two coefficients, left-aligned in Units.    *)
(***************************************************************************)
EXTENDS DecArith

Divisions == { "divide", "divideint", "remainder", "remnear" }
Remainders == { "remainder", "remnear" }

----------------------------------------------------------------------------
(* Special operands, zeros, and quotients known to be below one.           *)

DivideInfinities(lhs, rhs, set, op) ==
  LET neg  == lhs.neg # rhs.neg
      tiny == Finite(neg, 0, Etiny(set))
  IN  CASE lhs.kind = "infinite" ->
             IF rhs.kind = "infinite" \/ op \in Remainders
               THEN Fail("Invalid_operation") ELSE Exact(Infinity(neg))
        [] lhs.kind # "infinite" ->
             Finalize(CASE op \in Remainders -> CopyFit(lhs, set, 0, {})
                        [] op = "divide"     -> Work(tiny, 0, {"Clamped"})
                        [] op = "divideint"  -> Exact(Finite(neg, 0, 0)),
                      set)

DivideByZero(lhs, rhs, op) ==
  CASE IsZero(lhs) -> Fail("Division_undefined")
    [] ~IsZero(lhs) /\ op \in Remainders -> Fail("Invalid_operation")
    [] ~IsZero(lhs) /\ op \notin Remainders ->
         Work(Infinity(lhs.neg # rhs.neg), 0, {"Division_by_zero"})

\* The exponent of a remainder.
RestExponent(lhs, rhs) ==
  IF rhs.exponent < lhs.exponent THEN rhs.exponent ELSE lhs.exponent

DivideZero(lhs, rhs, set, op) ==
  LET neg   == lhs.neg # rhs.neg
      lower == RestExponent(lhs, rhs)
  IN  CASE op = "divide" ->
             Finalize(Exact(Finite(neg, 0, lhs.exponent - rhs.exponent)), set)
        [] op = "divideint" -> Exact(Finite(neg, 0, 0))
        [] op \in Remainders -> Exact([ lhs EXCEPT !.exponent = lower ])

\* The exponent of the quotient, as if its coefficient were 0.xxx.
AdjustedQuotient(lhs, rhs) ==
  (lhs.exponent + lhs.digits) - (rhs.exponent + rhs.digits)

\* Mutation: operands of the same magnitude are taken for clearly below.
IsBelowOrClose(lhs, rhs, op) == op # "divide" /\ AdjustedQuotient(lhs, rhs) <= 0

\* Mutation: both remainders end as early.
IsBelowAlike(lhs, rhs, op) ==
  /\ op # "divide" /\ AdjustedQuotient(lhs, rhs) < 0
  /\ op \in Remainders => lhs.exponent <= rhs.exponent

\* x rem y is x itself, and x divideint y is 0, when x is clearly below y.
IsBelow(lhs, rhs, op) ==
  LET exponent == AdjustedQuotient(lhs, rhs)
  IN  CASE op = "divide" -> FALSE
        [] op = "divideint" -> exponent < 0
        [] op = "remainder" -> exponent < 0 /\ lhs.exponent <= rhs.exponent
        [] op = "remnear" -> exponent < -1 /\ lhs.exponent <= rhs.exponent

DivideBelow(lhs, rhs, set, op) ==
  IF op = "divideint" THEN Exact(Finite(lhs.neg # rhs.neg, 0, 0))
                      ELSE Finalize(CopyFit(lhs, set, 0, {}), set)

----------------------------------------------------------------------------
(* divide: Units of quotient until there is more than the precision, or no *)
(* remainder and an exponent low enough.                                   *)

\* Both coefficients with their most significant Units aligned.
Aligned(c, units, length) == c * UnitBase^(length - units)

DivideStart(lhs, rhs) ==
  LET lunits == D2U(lhs.digits)
      runits == D2U(rhs.digits)
      length == IF lunits > runits THEN lunits ELSE runits
  IN  [ rest |-> Aligned(lhs.coeff, lunits, length),
        by   |-> Aligned(rhs.coeff, runits, length),
        acc  |-> 0, digits |-> 0, lsu |-> 0, done |-> FALSE,
        exponent |-> lhs.exponent - rhs.exponent + DECDPUN * (lunits - runits) ]

\* The next Unit of the quotient; leading zero Units are not kept.
DivideUnit(s, maxexponent, set) ==
  LET unit   == s.rest \div s.by
      rest   == s.rest % s.by
      kept   == s.digits # 0 \/ unit # 0
      digits == CASE s.digits # 0 -> s.digits + DECDPUN
                  [] s.digits = 0 /\ unit # 0 -> GetDigits(unit)
                  [] s.digits = 0 /\ unit = 0 -> 0
      next   == [ s EXCEPT !.acc = @ * UnitBase + unit, !.digits = digits,
                           !.lsu = unit, !.rest = rest ]
  IN  IF (kept /\ digits > set.digits) \/ (rest = 0 /\ s.exponent <= maxexponent)
        THEN [ next EXCEPT !.done = TRUE ]
        ELSE [ next EXCEPT !.rest = rest * UnitBase, !.exponent = @ - DECDPUN ]

\* Mutation: the exponent of an exact quotient has no upper limit.
TrimEveryZero(s, maxexponent) ==
  LET Zeros(d) == s.rest = 0 /\ s.lsu # 0 /\ s.lsu % Ten[d] = 0
      drop     == Max({ 0 } \cup { d \in 1..(DECDPUN - 1) : Zeros(d) })
  IN  Finite(FALSE, s.acc \div Ten[drop], s.exponent + drop)

\* An exact quotient ends in up to DECDPUN - 1 zeros the last Unit brought.
TrimQuotient(s, maxexponent) ==
  LET CanDrop(d) == s.lsu % Ten[d] = 0 /\ s.exponent + d <= maxexponent
      drop == IF s.rest # 0 \/ s.lsu = 0 THEN 0
              ELSE Max({ 0 } \cup { d \in 1..(DECDPUN - 1) : CanDrop(d) })
  IN  Finite(FALSE, s.acc \div Ten[drop], s.exponent + drop)

\* The units of the quotient of lhs and rhs, and the rest.
DivideUnits(lhs, rhs, set) ==
  LET maxexponent == lhs.exponent - rhs.exponent
      state[k \in Nat] ==
        LET s == IF k = 0 THEN DivideStart(lhs, rhs) ELSE state[k - 1]
        IN  IF s.done THEN s ELSE DivideUnit(s, maxexponent, set)
  IN  state[D2U(set.digits) + D2U(lhs.digits) + 1]

DivideNonZero(lhs, rhs, set) ==
  LET end == DivideUnits(lhs, rhs, set)
      q   == [ TrimQuotient(end, lhs.exponent - rhs.exponent)
               EXCEPT !.neg = (lhs.neg # rhs.neg) ]
  IN  Finalize(CopyFit(q, set, IF end.rest # 0 THEN 1 ELSE 0, {}), set)

----------------------------------------------------------------------------
(* The integer forms: the Units of the integer part, and what is left.     *)

\* The coefficient of dn at a lower exponent.
CoeffAt(dn, e) == dn.coeff * Ten[dn.exponent - e]

IntegerQuotient(lhs, rhs) ==
  LET e == RestExponent(lhs, rhs) IN CoeffAt(lhs, e) \div CoeffAt(rhs, e)

\* The remainder, or for remnear the one nearer to zero.
RestOf(lhs, rhs, op) ==
  LET e      == RestExponent(lhs, rhs)
      den    == CoeffAt(rhs, e)
      rest   == CoeffAt(lhs, e) % den
      nearer == /\ op = "remnear"
                /\ \/ 2 * rest > den
                   \/ 2 * rest = den /\ IntegerQuotient(lhs, rhs) % 2 = 1
  IN  CASE rest = 0 -> Finite(FALSE, 0, e)
        [] rest # 0 /\ nearer -> Finite(~lhs.neg, den - rest, e)
        [] rest # 0 /\ ~nearer -> Finite(lhs.neg, rest, e)

\* Taking the nearer remainder would round an all-nines quotient up.
NinesRoundUp(lhs, rhs, set, op) ==
  LET res == RestOf(lhs, rhs, op)
  IN  /\ ~IsZero(res) /\ res.neg # lhs.neg
      /\ IntegerQuotient(lhs, rhs) = Ten[set.digits] - 1

DivideInteger(lhs, rhs, set, op) ==
  LET quot == IntegerQuotient(lhs, rhs)
      impossible == \/ GetDigits(quot) > set.digits
                    \/ op = "remnear" /\ NinesRoundUp(lhs, rhs, set, op)
  IN  IF impossible THEN Fail("Division_impossible")
      ELSE Finalize(IF op = "divideint" THEN Exact(Finite(lhs.neg # rhs.neg, quot, 0))
                    ELSE CopyFit(RestOf(lhs, rhs, op), set, 0, {}),
                    set)

DivideOp(lhs, rhs, set, op) ==
  CASE IsNaN(lhs) \/ IsNaN(rhs) -> NaNs(lhs, rhs, set, {})
    [] ~IsNaN(lhs) /\ ~IsNaN(rhs) /\ (IsSpecial(lhs) \/ IsSpecial(rhs)) ->
         DivideInfinities(lhs, rhs, set, op)
    [] ~IsSpecial(lhs) /\ IsZero(rhs) -> DivideByZero(lhs, rhs, op)
    [] IsZero(lhs) /\ ~IsSpecial(rhs) /\ ~IsZero(rhs) ->
         DivideZero(lhs, rhs, set, op)
    [] OTHER -> CASE IsBelow(lhs, rhs, op) -> DivideBelow(lhs, rhs, set, op)
                  [] ~IsBelow(lhs, rhs, op) /\ op = "divide" ->
                       DivideNonZero(lhs, rhs, set)
                  [] ~IsBelow(lhs, rhs, op) /\ op # "divide" ->
                       DivideInteger(lhs, rhs, set, op)

NumberDivide(lhs, rhs, set)        == Status(DivideOp(lhs, rhs, set, "divide"))
NumberDivideInteger(lhs, rhs, set) == Status(DivideOp(lhs, rhs, set, "divideint"))
NumberRemainder(lhs, rhs, set)     == Status(DivideOp(lhs, rhs, set, "remainder"))
NumberRemainderNear(lhs, rhs, set) == Status(DivideOp(lhs, rhs, set, "remnear"))

----------------------------------------------------------------------------
(* ldecNumber.c: mod and floor.  Every step ors its status into the        *)
(* context.                                                                *)

\* The result of a second step on the result of the first.
Then(first, second) == [ second EXCEPT !.status = @ \cup first.status ]

\* Mutation: a zero remainder is moved to the divisor's sign as well.
ModAlwaysMoved(rem, lhs, rhs, set) ==
  IF lhs.neg # rhs.neg THEN Then(rem, NumberAdd(rem.dn, rhs, set)) ELSE rem

\* A nonzero remainder is moved to the sign of the divisor.
Moved(rem, lhs, rhs, set) ==
  IF lhs.neg # rhs.neg /\ ~IsZero(rem.dn)
    THEN Then(rem, NumberAdd(rem.dn, rhs, set)) ELSE rem

Mod(lhs, rhs, set) == Moved(NumberRemainder(lhs, rhs, set), lhs, rhs, set)

\* floor, from the end: one is subtracted from the integer quotient unless the
\* comparison says that the quotient times the divisor, rounded, equals the
\* dividend.
FloorCompared(quot, order, set) ==
  IF IsZero(order.dn) THEN [ quot EXCEPT !.status = order.status ]
  ELSE Then(order, NumberSubtract(quot.dn, Finite(FALSE, 1, 0), set))

FloorBack(quot, back, lhs, set) ==
  FloorCompared(quot, Then(back, NumberCompare(back.dn, lhs, set)), set)

FloorQuotient(quot, lhs, rhs, set) ==
  IF lhs.neg = rhs.neg THEN quot
  ELSE FloorBack(quot, Then(quot, NumberMultiply(quot.dn, rhs, set)), lhs, set)

Floor(lhs, rhs, set) ==
  FloorQuotient(NumberDivideInteger(lhs, rhs, set), lhs, rhs, set)
=============================================================================
