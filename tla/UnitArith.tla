----------------------------- MODULE UnitArith ------------------------------
(***************************************************************************)
(* Arithmetic on arrays of Units (decUnitAddSub, decShiftToLeast and the   *)
(* macro QUOT10 of decNumber.c): a coefficient is a sequence of Units,     *)
(* least significant first.  Divisions by powers of ten are replaced by    *)
(* multiplications and shifts, as in the code.                             *)
(***************************************************************************)
EXTENDS DecNumber, Sequences

\* QUOT10: u divided by 10^n through a reciprocal of 17 bits.
QUOT10(u, n) ==
  CASE n = 0 -> (u * 131073) \div 131072
    [] n = 1 -> ((u \div 2) * 26215) \div 131072
    [] n = 2 -> ((u \div 4) * 5243) \div 131072
    [] n = 3 -> ((u \div 8) * 1049) \div 131072
    [] n = 4 -> ((u \div 16) * 210) \div 131072

\* The estimate of carry / UnitBase in decUnitAddSub.
Estimate(carry) ==
  CASE DECDPUN \in {1, 2} -> QUOT10(carry, DECDPUN)
    [] DECDPUN = 3 -> ((carry \div 8) * 16777) \div 2097152
    [] DECDPUN = 4 -> ((carry \div 2048) * 53687) \div 262144

\* The Unit to store and the carry to the next column, for a carry that is
\* not negative.  For three and four digits an estimate that proves too low
\* by one is corrected.
Settle(carry) ==
  LET est  == Estimate(carry)
      unit == carry - est * UnitBase
      low  == DECDPUN >= 3 /\ unit >= UnitBase
  IN  [ unit  |-> IF low THEN unit - UnitBase ELSE unit,
        carry |-> IF low THEN est + 1 ELSE est ]

\* One column: a Unit of digits as it is, or settled; a negative carry is
\* made positive first.
Column(carry) ==
  LET s == Settle(carry + UnitBase * UnitBase)
  IN  CASE carry \in 0..(UnitBase - 1) -> [ unit |-> carry, carry |-> 0 ]
        [] carry >= UnitBase -> Settle(carry)
        [] carry < 0 -> [ s EXCEPT !.carry = @ - UnitBase ]

UnitAt(uar, i) == IF i \in 1..Len(uar) THEN uar[i] ELSE 0

\* The longer of a and b, b shifted left by bshift Units.
SumLength(a, b, bshift) ==
  IF Len(a) > Len(b) + bshift THEN Len(a) ELSE Len(b) + bshift

\* The loops of decUnitAddSub: a Unit and a carry for each column of a + b * m.
Columns(a, b, bshift, m) ==
  LET column[i \in 0..SumLength(a, b, bshift)] ==
        IF i = 0 THEN [ unit |-> 0, carry |-> 0 ]
        ELSE Column(column[i - 1].carry + UnitAt(a, i) + UnitAt(b, i - bshift) * m)
  IN  column

\* The Units of the ten's complement, and what is still to be added.
Complements(units) ==
  LET digit[i \in 0..Len(units)] ==
        IF i = 0 THEN [ unit |-> 0, add |-> 1 ]
        ELSE LET sum == UnitBase - 1 + digit[i - 1].add - units[i]
             IN  IF sum < UnitBase THEN [ unit |-> sum, add |-> 0 ]
                                   ELSE [ unit |-> 0, add |-> 1 ]
  IN  digit

\* A borrow out of the top column: the ten's complement.
Complement(units, carry) ==
  LET digit == Complements(units)
      top   == digit[Len(units)].add - carry - 1
      low   == [ i \in 1..Len(units) |-> digit[i].unit ]
  IN  IF top # 0 THEN Append(low, top) ELSE low

\* decUnitAddSub: a + b * m, b shifted left by bshift Units, and the sign.
UnitAddSub(a, b, bshift, m) ==
  LET length == SumLength(a, b, bshift)
      column == Columns(a, b, bshift, m)
      units  == [ i \in 1..length |-> column[i].unit ]
      carry  == column[length].carry
  IN  [ neg   |-> carry < 0,
        units |-> CASE carry = 0 -> units
                    [] carry > 0 -> Append(units, carry)
                    [] carry < 0 -> Complement(units, carry) ]

\* decDivideOp: how often to subtract a divisor, from the two top Units of what
\* is left and a number no less than the Units of the divisor above them.
SafeMultiple(tops, top) ==
  IF tops \div top = 0 THEN 1 ELSE tops \div top

\* decShiftToLeast, the Units it empties cleared: shift digits are lost.
ShiftToLeast(uar, shift) ==
  LET skip == shift \div DECDPUN
      cut  == shift % DECDPUN
  IN  [ i \in 1..Len(uar) |->
          UnitAt(uar, i + skip) \div 10^cut
          + (UnitAt(uar, i + skip + 1) % 10^cut) * 10^(DECDPUN - cut) ]

\* The Units of a number, and the coefficient an array of Units stands for.
UnitsOf(dn) == [ i \in 1..((dn.digits + DECDPUN - 1) \div DECDPUN) |->
                   (dn.coeff \div UnitBase^(i - 1)) % UnitBase ]

CoeffOf(uar) ==
  MapThenSumSet(LAMBDA i : uar[i] * UnitBase^(i - 1),
                { i \in 1..Len(uar) : uar[i] # 0 })
=============================================================================
