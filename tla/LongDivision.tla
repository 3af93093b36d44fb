---------------------------- MODULE LongDivision ----------------------------
(***************************************************************************)
(* The long division inside decDivideOp, Unit by Unit.  The dividend is    *)
(* left-aligned in the buffer var1; the divisor slides below it from the   *)
(* left.  In each position a multiple of the divisor, estimated from the   *)
(* two top Units of each, is subtracted until what is left is too low; the *)
(* sum of the multiples is a Unit of the quotient.                         *)
(*                                                                         *)
(* DecDivide states the same quotients and remainders as integer divisions;*)
(* the property QuotientMatches ties the two together.                     *)
(***************************************************************************)
EXTENDS DecDivide, UnitArith

CONSTANTS
  Dividends,       \* nonzero finite numbers
  Divisors,        \* nonzero finite numbers
  Precisions       \* the digits of the context (reqdigits)

\* A number has at least one digit, its Units hold digits only, and the most
\* significant one is not zero (decNumber.h: no leading zeros).
ASSUME OperandAssumption ==
  /\ Precisions \subseteq Nat \ {0}
  /\ \A dn \in Dividends \cup Divisors :
       /\ dn.digits \in Nat \ {0}
       /\ dn.exponent \in Int
       /\ UnitsOf(dn) \in Seq(0..(UnitBase - 1))
       /\ UnitsOf(dn)[D2U(dn.digits)] # 0

VARIABLES
  task,            \* the operands, the operation and the precision
  var1,            \* the buffer of the dividend, then of what is left of it
  var1units,       \* the Units of var1 in use
  var2ulen,        \* the length of the divisor with its padding, in Units
  exponent,
  thisunit,        \* the Unit of the quotient being found
  acc,             \* the Units of the quotient, least significant first
  accdigits,
  pc

vars == <<task, var1, var1units, var2ulen, exponent, thisunit, acc, accdigits, pc>>

----------------------------------------------------------------------------
(* Setting up.                                                             *)

Tasks ==
  { t \in [ lhs : Dividends, rhs : Divisors, op : Divisions, digits : Precisions ] :
      ~IsBelow(t.lhs, t.rhs, t.op) }

IsDivide(t) == t.op = "divide"

\* Mutation: no room beyond the digits themselves.
BufferUnitsTight(t) ==
  LET slide == t.rhs.digits + t.digits - 1
  IN  D2U(IF t.lhs.digits > slide THEN t.lhs.digits ELSE slide)

\* Room for the divisor to slide, for rounding, leading zeros, alignment.
BufferUnits(t) ==
  LET slide == t.rhs.digits + t.digits - 1
      digits == IF t.lhs.digits > slide THEN t.lhs.digits ELSE slide
  IN  D2U(digits) + (IF IsDivide(t) THEN 2 ELSE 3)

LeftAligned(t) ==
  LET n      == BufferUnits(t)
      source == UnitsOf(t.lhs)
  IN  [ i \in 1..n |-> UnitAt(source, i - (n - Len(source))) ]

\* The exponent of the quotient's first Unit: corrected for the leading
\* zeros of the two top Units.
FirstExponent(t) ==
  LET Msu(dn) == UnitsOf(dn)[D2U(dn.digits)]
  IN  AdjustedQuotient(t.lhs, t.rhs) - GetDigits(Msu(t.lhs)) + GetDigits(Msu(t.rhs))

\* The integer forms shift the dividend so that the quotient ends with a Unit.
AlignShift(t) ==
  LET e == FirstExponent(t)
  IN  CASE IsDivide(t) -> 0
        [] ~IsDivide(t) /\ e < 0 -> -e
        [] ~IsDivide(t) /\ e >= 0 -> DECDPUN - (e % DECDPUN)

\* divide skips a first Unit that would be zero.
SkipsFirst(t) ==
  /\ IsDivide(t)
  /\ LeftAligned(t)[BufferUnits(t)] < UnitsOf(t.rhs)[D2U(t.rhs.digits)]

Init ==
  /\ task \in Tasks
  /\ var1 = ShiftToLeast(LeftAligned(task), AlignShift(task))
  /\ var1units = BufferUnits(task)
  /\ var2ulen = BufferUnits(task) - (IF SkipsFirst(task) THEN 1 ELSE 0)
  /\ exponent = FirstExponent(task) + AlignShift(task)
                  - (IF SkipsFirst(task) THEN DECDPUN ELSE 0)
  /\ thisunit = 0
  /\ acc = << >>
  /\ accdigits = 0
  /\ pc = "inner"

----------------------------------------------------------------------------
(* The inner loop.                                                         *)

var2 == UnitsOf(task.rhs)

\* The Units in use once leading zero Units are stripped, at least one.
InUse == Max({ 1 } \cup { i \in 1..var1units : var1[i] # 0 })

\* Unit i of the divisor in its present position.
Divisor(i) == UnitAt(var2, i - (var2ulen - Len(var2)))

\* Equal lengths are compared from the top Unit down.
Differ == { i \in 1..InUse : var1[i] # Divisor(i) }
IsEqual == InUse = var2ulen /\ Differ = {}
IsLower == \/ InUse < var2ulen
           \/ InUse = var2ulen /\ Differ # {}
                /\ var1[Max(Differ)] < Divisor(Max(Differ))

\* The top of the divisor, one added when Units below are not looked at.
Msu2 == var2[Len(var2)]
Msu2Plus == Msu2 + (IF Len(var2) > 1 THEN 1 ELSE 0)
\* Mutation: the Units below the two top ones are ignored.
Msu2PairLow ==
  Msu2 * UnitBase + (IF Len(var2) > 1 THEN var2[Len(var2) - 1] ELSE 0)

Msu2Pair == Msu2 * UnitBase
              + (IF Len(var2) > 1 THEN var2[Len(var2) - 1] ELSE 0)
              + (IF Len(var2) > 2 THEN 1 ELSE 0)

\* How often the divisor can be subtracted, at least once.
Multiplier ==
  SafeMultiple(var1[InUse] * UnitBase + var1[InUse - 1],
               IF InUse = var2ulen THEN Msu2Pair ELSE Msu2Plus)

Shift == var2ulen - Len(var2)

\* var1 - var2 * mult over the Units where they overlap.
Difference ==
  UnitAddSub(SubSeq(var1, Shift + 1, InUse), var2, 0, -Multiplier)

CanSubtract == pc = "inner" /\ ~IsLower /\ ~IsEqual

TooLow ==
  /\ pc = "inner" /\ IsLower
  /\ var1units' = InUse
  /\ pc' = "outer"
  /\ UNCHANGED <<task, var1, var2ulen, exponent, thisunit, acc, accdigits>>

Identical ==
  /\ pc = "inner" /\ IsEqual
  /\ thisunit' = thisunit + 1
  /\ var1' = [ var1 EXCEPT ![1] = 0 ]
  /\ var1units' = 1
  /\ pc' = "outer"
  /\ UNCHANGED <<task, var2ulen, exponent, acc, accdigits>>

Subtract ==
  /\ CanSubtract
  /\ thisunit' = thisunit + Multiplier
  /\ LET units == Difference.units
     IN  var1' = [ i \in 1..Len(var1) |->
                     IF i \in (Shift + 1)..(Shift + Len(units))
                       THEN units[i - Shift] ELSE var1[i] ]
  /\ var1units' = InUse
  /\ UNCHANGED <<task, var2ulen, exponent, acc, accdigits, pc>>

----------------------------------------------------------------------------
(* The outer loop: a Unit of the quotient is complete.                     *)

Kept == acc # << >> \/ thisunit # 0
NextDigits == IF acc = << >> THEN GetDigits(thisunit) ELSE accdigits + DECDPUN
NothingLeft == var1[1] = 0 /\ var1units = 1
maxexponent == task.lhs.exponent - task.rhs.exponent

\* Enough digits; or nothing left (and, for a quotient, the exponent low
\* enough); or the last Unit of an integer.
Finished ==
  \/ Kept /\ NextDigits > task.digits
  \/ NothingLeft /\ task.op \in Remainders
  \/ NothingLeft /\ IsDivide(task) /\ exponent <= maxexponent
  \/ exponent = 0 /\ ~IsDivide(task)

NextUnit ==
  /\ pc = "outer"
  /\ IF Kept THEN acc' = <<thisunit>> \o acc /\ accdigits' = NextDigits
             ELSE UNCHANGED <<acc, accdigits>>
  /\ IF Finished
       THEN /\ pc' = "done"
            /\ UNCHANGED <<var2ulen, exponent, thisunit>>
       ELSE /\ pc' = "inner"
            /\ var2ulen' = var2ulen - 1
            /\ exponent' = exponent - DECDPUN
            /\ thisunit' = 0
  /\ UNCHANGED <<task, var1, var1units>>

Next == TooLow \/ Identical \/ Subtract \/ NextUnit

Spec == Init /\ [][Next]_vars

----------------------------------------------------------------------------
(* What is returned.                                                       *)

Quotient == CoeffOf(acc)
HasResidue == var1[1] # 0 \/ var1units > 1

\* Remainders: var1 without the padding that was added on its right.
Rest ==
  LET initpad   == (BufferUnits(task) - D2U(task.lhs.digits)) * DECDPUN
                     - AlignShift(task)
      leftpad   == initpad + exponent - maxexponent
      postshift == IF initpad < leftpad THEN initpad ELSE leftpad
  IN  CoeffOf(ShiftToLeast(SubSeq(var1, 1, var1units), postshift))

\* Mutation: the half of an odd Unit is lost.
HalvedApart(uar) == [ i \in 1..Len(uar) |-> uar[i] \div 2 ]

\* An even coefficient divided by two, in place.
Halved(uar) ==
  [ i \in 1..Len(uar) |->
      uar[i] \div 2 + (IF UnitAt(uar, i + 1) % 2 = 1 THEN UnitBase \div 2 ELSE 0) ]

\* remnear: twice the remainder is compared with the divisor, and halved
\* again; the divisor is subtracted when that is nearer to zero.
NearerRest ==
  LET rest  == UnitsOf(Finite(FALSE, Rest, 0))
      twice == UnitAddSub(rest, rest, 0, 1).units
      pad   == task.rhs.exponent - RestExponent(task.lhs, task.rhs)
      order == UnitCompare(Finite(FALSE, CoeffOf(twice), 0), task.rhs, pad)
      odd   == UnitAt(acc, 1) % 2 = 1
      lower == UnitAddSub(Halved(twice), var2, pad \div DECDPUN,
                          -(10^(pad % DECDPUN)))
  IN  IF order > 0 \/ (order = 0 /\ odd)
        THEN [ neg |-> ~task.lhs.neg, coeff |-> CoeffOf(lower.units) ]
        ELSE [ neg |-> task.lhs.neg, coeff |-> CoeffOf(Halved(twice)) ]

Remainder ==
  CASE NothingLeft -> [ neg |-> FALSE, coeff |-> 0 ]
    [] ~NothingLeft /\ task.op = "remainder" ->
         [ neg |-> task.lhs.neg, coeff |-> Rest ]
    [] ~NothingLeft /\ task.op = "remnear" -> NearerRest

----------------------------------------------------------------------------
(* Properties.                                                             *)

IsUnit(u) == u \in 0..(UnitBase - 1)

\* Every index of the loop is inside its buffer: the divisor never slides
\* past the right end of var1; an estimate is only made when var1 has two
\* Units ("there's always a msu1-1"); acc never outgrows its acclength Units.
\* An integer form reaches its last Unit, exponent 0, without stepping over it.
\* And every Unit holds digits only, through borrows and complements.
InBounds ==
  /\ Shift >= 0
  /\ CanSubtract => InUse >= 2
  /\ Len(acc) <= D2U(task.digits + DECDPUN)
  /\ \A i \in 1..Len(var1) : IsUnit(var1[i])
  /\ \A i \in 1..Len(acc) : IsUnit(acc[i])
  /\ ~IsDivide(task) => exponent >= 0

\* The estimate is never too large: the subtraction leaves no borrow, and the
\* multiples in one position add up to a single Unit.  Nor is it zero, which
\* would leave the inner loop where it is for ever.
EstimateIsSafe ==
  CanSubtract => /\ ~Difference.neg
                 /\ thisunit + Multiplier \in (thisunit + 1)..(UnitBase - 1)
                 /\ Len(Difference.units) = InUse - Shift

\* The digits shifted out to align an integer quotient, and those removed from
\* the remainder at the end, are zeros: the division has the quotient, the
\* count of digits, the exponent and the remainder of the exact division.
QuotientMatches ==
  LET set  == [ digits |-> task.digits ]
      end  == DivideUnits(task.lhs, task.rhs, set)
      quot == IntegerQuotient(task.lhs, task.rhs)
      rest == RestOf(task.lhs, task.rhs, task.op)
      long == accdigits + exponent > task.digits
  IN  pc = "done" =>
        IF IsDivide(task)
          THEN /\ Quotient = end.acc /\ accdigits = end.digits
               /\ exponent = end.exponent
               /\ HasResidue <=> end.rest # 0
          ELSE /\ long <=> GetDigits(quot) > task.digits
               /\ ~long => Quotient * 10^exponent = quot
               /\ ~long /\ task.op \in Remainders =>
                    Remainder = [ neg |-> rest.neg, coeff |-> rest.coeff ]
=============================================================================
