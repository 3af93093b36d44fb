---------------------------- MODULE DecReference ----------------------------
(***************************************************************************)
(* What the arithmetic promises, stated without its algorithm: the result  *)
(* of an operation is the exact mathematical result, rounded once to the   *)
(* context.  An exact value is (-1)^neg * n * 10^e for a natural n; no     *)
(* residue, no Unit, no intermediate rounding appears here.                *)
(***************************************************************************)
EXTENDS DecNumber

Larger(a, b) == IF a > b THEN a ELSE b
Smaller(a, b) == IF a < b THEN a ELSE b

\* The digits of n * 10^e that cannot be kept.
Excess(n, e, set) ==
  Larger(0, Larger(GetDigits(n) - set.digits, Etiny(set) - e))

\* Does quot + rest / power round away from zero, for 0 <= rest < power?
Away(neg, quot, rest, power, round) ==
  /\ rest # 0
  /\ CASE round = "UP"        -> TRUE
       [] round = "DOWN"      -> FALSE
       [] round = "CEILING"   -> ~neg
       [] round = "FLOOR"     -> neg
       [] round = "HALF_UP"   -> 2 * rest >= power
       [] round = "HALF_DOWN" -> 2 * rest > power
       [] round = "HALF_EVEN" -> \/ 2 * rest > power
                                 \/ 2 * rest = power /\ quot % 2 = 1
       [] round = "05UP"      -> quot % 5 = 0

\* The power of ten of the digits dropped from n.  From one digit more than n
\* has, all powers leave nothing but a fraction below a tenth.
Power(n, drop) == Ten[Smaller(drop, GetDigits(n) + 1)]

\* Does n / 10^drop round away from zero?
RoundsAway(neg, n, drop, round) ==
  Away(neg, n \div Power(n, drop), n % Power(n, drop), Power(n, drop), round)

\* The largest finite value of the sign, or an infinity.
Overflowed(neg, set) ==
  IF \/ set.round = "DOWN"
     \/ set.round = "CEILING" /\ neg
     \/ set.round = "FLOOR" /\ ~neg
    THEN Finite(neg, Ten[set.digits] - 1, Etop(set))
    ELSE Infinity(neg)

\* A zero keeps its exponent as far as the context has it.
ZeroResult(neg, e, set) ==
  LET top == IF set.clamp = 1 THEN Etop(set) ELSE set.emax
      exp == Smaller(top, Larger(Etiny(set), e))
  IN  [ dn |-> Finite(neg, 0, exp),
        status |-> IF exp # e THEN {"Clamped"} ELSE {} ]

\* A nonzero number that fits, with the exponent folded down when clamping.
Folded(neg, c, e, set) ==
  LET fold == IF set.clamp = 1 THEN Larger(0, e - Etop(set)) ELSE 0
  IN  [ dn |-> Finite(neg, c * Ten[fold], e - fold),
        status |-> IF fold > 0 THEN {"Clamped"} ELSE {} ]

\* The flags that describe the loss of drop digits.
Loss(n, e, drop, set) ==
  LET inexact   == n % Power(n, drop) # 0
      subnormal == e + GetDigits(n) - 1 < set.emin
  IN  (IF drop > 0 THEN {"Rounded"} ELSE {})
      \cup (IF inexact THEN {"Inexact"} ELSE {})
      \cup (IF subnormal THEN {"Subnormal"} ELSE {})
      \cup (IF subnormal /\ inexact THEN {"Underflow"} ELSE {})

Flagged(result, flags) ==
  [ dn |-> result.dn, status |-> result.status \cup flags ]

\* The rounded coefficient c in its place: 99..9 rounded up carries into the
\* exponent, and the exponent may be too high for the context.
Placed(neg, c, e, loss, set) ==
  LET carried == GetDigits(c) > set.digits
      coeff   == IF carried THEN Ten[set.digits - 1] ELSE c
      exp     == IF carried THEN e + 1 ELSE e
      fitted  == Folded(neg, coeff, exp, set)
  IN  CASE coeff = 0 -> [ dn |-> Finite(neg, 0, exp),
                          status |-> loss \cup {"Clamped"} ]
        [] coeff # 0 /\ exp + GetDigits(coeff) - 1 > set.emax ->
             [ dn |-> Overflowed(neg, set),
               status |-> loss \cup {"Overflow", "Inexact", "Rounded"} ]
        [] coeff # 0 /\ exp + GetDigits(coeff) - 1 <= set.emax ->
             Flagged(fitted, loss)

NonZeroResult(neg, n, e, set) ==
  LET drop == Excess(n, e, set)
      up   == IF RoundsAway(neg, n, drop, set.round) THEN 1 ELSE 0
  IN  Placed(neg, n \div Power(n, drop) + up, e + drop,
             Loss(n, e, drop, set), set)

RoundedOnce(neg, n, e, set) ==
  IF n = 0 THEN ZeroResult(neg, e, set) ELSE NonZeroResult(neg, n, e, set)

----------------------------------------------------------------------------
(* The exact results, for finite operands.                                 *)

\* The signed integer of dn at the (lower or equal) exponent e.
At(dn, e) == (IF dn.neg THEN -1 ELSE 1) * dn.coeff * Ten[dn.exponent - e]

\* An exact sum of zero is +0, or -0 when rounding to the floor, unless both
\* operands have the same sign.
SumReference(lhs, rhs, set) ==
  LET e   == Smaller(lhs.exponent, rhs.exponent)
      sum == At(lhs, e) + At(rhs, e)
      neg == CASE sum # 0 -> sum < 0
               [] sum = 0 /\ lhs.neg = rhs.neg -> lhs.neg
               [] sum = 0 /\ lhs.neg # rhs.neg -> set.round = "FLOOR"
  IN  RoundedOnce(neg, IF sum < 0 THEN -sum ELSE sum, e, set)

ProductReference(lhs, rhs, set) ==
  RoundedOnce(lhs.neg # rhs.neg, lhs.coeff * rhs.coeff,
              lhs.exponent + rhs.exponent, set)

\* The exact quotient at the greatest exponent, not above the difference of
\* the exponents, where it is an integer; a quotient that has no such exponent
\* before the precision is used up is cut there, one last digit standing for
\* what follows.
QuotientReference(lhs, rhs, set) ==
  LET Scaled(k) == lhs.coeff * Ten[k]
      Ends(k)   == Scaled(k) % rhs.coeff = 0
      enough == CHOOSE k \in 0..(set.digits + rhs.digits) :
                  /\ Ends(k) \/ GetDigits(Scaled(k) \div rhs.coeff) > set.digits
                  /\ \A j \in 0..(k - 1) :
                       ~Ends(j) /\ GetDigits(Scaled(j) \div rhs.coeff) <= set.digits
      quot == Scaled(enough) \div rhs.coeff
      exp  == lhs.exponent - rhs.exponent - enough
      neg  == lhs.neg # rhs.neg
  IN  IF Ends(enough) THEN RoundedOnce(neg, quot, exp, set)
                      ELSE RoundedOnce(neg, 10 * quot + 1, exp - 1, set)

\* -1, 0 or 1 as the values of lhs and rhs are ordered.
OrderReference(lhs, rhs) ==
  LET e == Smaller(lhs.exponent, rhs.exponent)
      l == At(lhs, e)
      r == At(rhs, e)
  IN  IF l < r THEN -1 ELSE IF l > r THEN 1 ELSE 0

\* Rescaling to exponent e: possible when no more than the precision and the
\* exponent range are needed; then only the digits below e are rounded off.
\* A clamping context folds the exponent down afterwards.
QuantizeFlags(lhs, c, e, drop, set) ==
  (IF lhs.coeff # 0 /\ drop > 0 THEN {"Rounded"} ELSE {})
  \cup (IF lhs.coeff % Ten[drop] # 0 THEN {"Inexact"} ELSE {})
  \cup (IF c # 0 /\ e + GetDigits(c) - 1 < set.emin THEN {"Subnormal"} ELSE {})

QuantizeReference(lhs, e, set) ==
  LET drop  == Larger(0, e - lhs.exponent)
      up    == IF RoundsAway(lhs.neg, lhs.coeff, drop, set.round) THEN 1 ELSE 0
      c     == IF drop > 0 THEN lhs.coeff \div Ten[drop] + up
               ELSE lhs.coeff * Ten[lhs.exponent - e]
      fits  == /\ e \in Etiny(set)..set.emax
               /\ GetDigits(c) <= set.digits
               /\ e + GetDigits(c) - 1 <= set.emax
      folded == IF c = 0 THEN ZeroResult(lhs.neg, e, set)
                         ELSE Folded(lhs.neg, c, e, set)
  IN  IF ~fits THEN [ dn |-> QNaN, status |-> {"Invalid_operation"} ]
      ELSE [ folded EXCEPT !.status = @ \cup QuantizeFlags(lhs, c, e, drop, set) ]

----------------------------------------------------------------------------
(* Where the promise holds.                                                *)

\* A finite decNumber: its digit count is that of its coefficient.
IsFinite(dn) ==
  /\ dn.neg \in BOOLEAN /\ dn.coeff \in Nat /\ dn.exponent \in Int
  /\ dn = Finite(dn.neg, dn.coeff, dn.exponent)

\* A clamping context must have room for its precision in its exponents.  (In
\* one without, decFinalize takes the Infinity of an overflow, of exponent 0,
\* for a number to fold down.)
HasRoom(set) == set.clamp = 1 => Etop(set) >= 0

\* The contexts the setters leave, with room.
ContextFields == { "digits", "emax", "emin", "round", "clamp", "traps", "status" }
Roomy(set) ==
  /\ set = [ field \in ContextFields |-> set[field] ]
  /\ set.digits \in Nat /\ set.digits >= 1
  /\ set.emax \in Nat
  /\ set.emin \in Int /\ set.emin <= 0
  /\ set.round \in Roundings
  /\ set.clamp \in {0, 1}
  /\ HasRoom(set)

\* decAddOp's shortcut for an operand "that cannot affect the answer, except as
\* a residue" compares lengths.  It is right when the other operand is at most
\* one digit longer than the precision; see FMARoundsOnce for one that is not.
NotLong(dn, set) == dn.digits <= set.digits + 1

\* And it needs two digits: a residue below the coefficient 1 does not make it
\* less.  A sum with a zero is right at any precision.
Summable(lhs, rhs, set) ==
  \/ lhs.coeff = 0
  \/ rhs.coeff = 0
  \/ set.digits >= 2 /\ NotLong(lhs, set) /\ NotLong(rhs, set)
=============================================================================
