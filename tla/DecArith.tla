------------------------------ MODULE DecArith ------------------------------
(***************************************************************************)
(* The arithmetic of decNumber.c: addition and subtraction, multiplication,*)
(* comparison, maximum and minimum, quantize, and the public functions     *)
(* built on them.  An internal operation (an ...Op of the code) returns    *)
(* a work record; a public function applies its status to the context.     *)
(***************************************************************************)
EXTENDS DecNumber

Signed(neg, n) == IF neg THEN -n ELSE n
Magnitude(n) == IF n < 0 THEN -n ELSE n

\* An operation that ends before it has produced a number: only the status
\* matters, decStatus makes the result a NaN.
Fail(flag) == Work(Zero, 0, {flag})
Exact(dn) == Work(dn, 0, {})

----------------------------------------------------------------------------
(* decNaNs: the NaN an operation with NaN operands returns.  A payload too *)
(* long for the context loses its leading digits.  When the precision is a *)
(* whole number of Units there is nothing to cut off (decDecap is not      *)
(* called), and the zeros the payload may now start with stay counted.     *)

\* The Units that hold d digits (the macro D2U).
D2U(d) == (d + DECDPUN - 1) \div DECDPUN

Decapitated(dn, set) ==
  LET c == dn.coeff % Ten[set.digits]
      whole == D2U(set.digits) * DECDPUN = set.digits
  IN  IF dn.digits <= set.digits THEN dn
      ELSE [ dn EXCEPT !.coeff = c,
                       !.digits = IF whole THEN set.digits ELSE GetDigits(c) ]

NaNs(lhs, rhs, set, status) ==
  LET source == IF lhs.kind = "sNaN" \/ (rhs.kind # "sNaN" /\ IsNaN(lhs))
                  THEN lhs ELSE rhs
      raised == IF source.kind = "sNaN" THEN {"Invalid_operation", DEC_sNaN}
                                        ELSE {}
  IN  Work([ Decapitated(source, set) EXCEPT !.kind = "qNaN", !.exponent = 0 ],
           0, status \cup raised)

----------------------------------------------------------------------------
(* decAddOp: lhs + rhs, the sign of rhs flipped when negate.               *)

DiffSign(lhs, rhs, negate) == (lhs.neg # rhs.neg) # negate

AddInfinities(lhs, rhs, negate) ==
  CASE lhs.kind = "infinite" /\ rhs.kind = "infinite"
         /\ DiffSign(lhs, rhs, negate) -> Fail("Invalid_operation")
    [] lhs.kind = "infinite" /\ ~(rhs.kind = "infinite"
         /\ DiffSign(lhs, rhs, negate)) -> Exact(Infinity(lhs.neg))
    [] lhs.kind # "infinite" -> Exact(Infinity(rhs.neg # negate))

\* x plus a zero of exponent zexp: x, fitted to the context and padded with
\* zeros towards the zero's exponent as far as the precision allows.
PadTowards(w, zexp, set) ==
  LET dn   == w.dn
      want == dn.exponent - zexp
      room == set.digits - dn.digits
      pad  == IF want > room THEN room ELSE want
  IN  IF want <= 0 THEN w
      ELSE Raise([ w EXCEPT !.dn = Padded(@, pad) ],
                 IF want > room THEN {"Rounded"} ELSE {})

\* 0 + 0: the lower exponent; zeros of different signs give +0, or -0 when
\* rounding to the floor.
AddZeros(w, lhs, diffsign, set) ==
  LET dn == w.dn
  IN  [ w EXCEPT !.dn.exponent = IF lhs.exponent < @ THEN lhs.exponent ELSE @,
                 !.dn.neg = IF diffsign THEN set.round = "FLOOR" ELSE @ ]

AddToZero(lhs, rhs, set, negate) ==
  LET copy  == CopyFit(rhs, set, 0, {})
      w     == [ copy EXCEPT !.dn.neg = (@ # negate) ]
  IN  Finalize(IF IsZero(w.dn)
                 THEN AddZeros(w, lhs, DiffSign(lhs, rhs, negate), set)
                 ELSE PadTowards(w, lhs.exponent, set),
               set)

AddZero(lhs, rhs, set) ==
  Finalize(PadTowards(CopyFit(lhs, set, 0, {}), rhs.exponent, set), set)

\* The fast path: aligned normal operands that fit, rhs in one Unit, and no
\* carry, borrow or change of length when the lowest Units are combined.
Lsu(dn) == dn.coeff % UnitBase

AddPartial(lhs, rhs, diffsign) ==
  Lsu(lhs) + Signed(diffsign, Lsu(rhs))

AddIsFast(lhs, rhs, set, diffsign) ==
  LET partial == AddPartial(lhs, rhs, diffsign)
  IN  /\ rhs.exponent = lhs.exponent
      /\ rhs.digits <= DECDPUN
      /\ rhs.exponent >= set.emin
      /\ rhs.exponent <= Etop(set)
      /\ rhs.digits <= set.digits
      /\ lhs.digits <= set.digits
      /\ IF diffsign THEN partial > 0
         ELSE /\ partial < UnitBase
              /\ lhs.digits >= DECDPUN \/ partial < Ten[lhs.digits]

AddFast(lhs, rhs, diffsign) ==
  LET c == (lhs.coeff - Lsu(lhs)) + AddPartial(lhs, rhs, diffsign)
  IN  Exact([ lhs EXCEPT !.coeff = c,
                         !.digits = IF diffsign THEN GetDigits(c) ELSE @ ])

\* big lies so far above small that small is only a residue of it.
SmallIsResidue(big, small, padding, set) ==
  big.digits + padding > small.digits + set.digits + 1

AddResidue(big, neg, set, diffsign) ==
  LET shift == set.digits - big.digits
      w     == CopyFit(big, set, IF diffsign THEN -1 ELSE 1, {})
      full  == IF shift > 0 THEN Padded(w.dn, shift) ELSE w.dn
  IN  Finalize([ w EXCEPT !.dn = [ full EXCEPT !.neg = neg ] ], set)

\* An exact zero from operands of different signs is positive, or negative when
\* rounding to the floor.
SignZero(w, diffsign, set) ==
  IF IsZero(w.dn) /\ diffsign /\ "Inexact" \notin w.status
    THEN [ w EXCEPT !.dn.neg = (set.round = "FLOOR") ] ELSE w

\* The general case: big is shifted left by padding digits, so that it is
\* aligned with small, and added to it; a borrow flips the sign.
AddAligned(small, big, padding, neg, set, diffsign) ==
  LET sum == small.coeff + Signed(diffsign, big.coeff * Ten[padding])
      dn  == Finite(neg # (sum < 0), Magnitude(sum), small.exponent)
  IN  SignZero(Finalize(CopyFit(dn, set, 0, {}), set), diffsign, set)

\* The operand with the larger exponent is the one that is padded.
AddNonZero(lhs, rhs, set, negate) ==
  LET diffsign == DiffSign(lhs, rhs, negate)
      rneg     == (rhs.neg # negate)
      swapped  == rhs.exponent < lhs.exponent
      big      == IF swapped THEN lhs ELSE rhs
      small    == IF swapped THEN rhs ELSE lhs
      padding  == big.exponent - small.exponent
      bigneg   == IF swapped THEN lhs.neg ELSE rneg
      smallneg == IF swapped THEN rneg ELSE lhs.neg
  IN  CASE AddIsFast(lhs, rhs, set, diffsign) -> AddFast(lhs, rhs, diffsign)
        [] ~AddIsFast(lhs, rhs, set, diffsign) /\ padding # 0
             /\ SmallIsResidue(big, small, padding, set) ->
             AddResidue(big, bigneg, set, diffsign)
        [] OTHER -> AddAligned(small, big, padding, smallneg, set, diffsign)

AddOp(lhs, rhs, set, negate) ==
  CASE IsNaN(lhs) \/ IsNaN(rhs) -> NaNs(lhs, rhs, set, {})
    [] ~IsNaN(lhs) /\ ~IsNaN(rhs) /\ (IsSpecial(lhs) \/ IsSpecial(rhs)) ->
         AddInfinities(lhs, rhs, negate)
    [] IsZero(lhs) /\ ~IsSpecial(rhs) -> AddToZero(lhs, rhs, set, negate)
    [] IsZero(rhs) /\ ~IsSpecial(lhs) /\ ~IsZero(lhs) -> AddZero(lhs, rhs, set)
    [] OTHER -> AddNonZero(lhs, rhs, set, negate)

----------------------------------------------------------------------------
(* decMultiplyOp: the exact product, fitted to the context.  The code also *)
(* replaces an exponent sum that wrapped in 32 bits; the exponent of a     *)
(* number of at most DECNUMDIGITS = 69 digits is above -2^30, so that no   *)
(* sum of two wraps and the replacement is left out.                       *)

MultiplyInfinities(lhs, rhs) ==
  IF IsZero(lhs) \/ IsZero(rhs) THEN Fail("Invalid_operation")
                                ELSE Exact(Infinity(lhs.neg # rhs.neg))

MultiplyOp(lhs, rhs, set) ==
  CASE IsNaN(lhs) \/ IsNaN(rhs) -> NaNs(lhs, rhs, set, {})
    [] ~IsNaN(lhs) /\ ~IsNaN(rhs) /\ (IsSpecial(lhs) \/ IsSpecial(rhs)) ->
         MultiplyInfinities(lhs, rhs)
    [] OTHER ->
         Finalize(CopyFit(Finite(lhs.neg # rhs.neg, lhs.coeff * rhs.coeff,
                                 lhs.exponent + rhs.exponent),
                          set, 0, {}), set)

----------------------------------------------------------------------------
(* decUnitCompare, decCompare, decCompareOp                                *)

Sign(n) == IF n > 0 THEN 1 ELSE IF n < 0 THEN -1 ELSE 0

\* Aligned coefficients are compared by their number of Units first;
\* unaligned ones too when the lengths are clear, else by a subtraction.
UnitCompare(a, b, exp) ==
  LET alength == D2U(a.digits)
      blength == D2U(b.digits)
      padded  == blength + D2U(exp)
      exact   == Sign(a.coeff - b.coeff * Ten[exp])
  IN  CASE exp = 0 -> IF alength # blength THEN Sign(alength - blength)
                                           ELSE exact
        [] exp > 0 /\ alength > padded -> 1
        [] exp > 0 /\ alength + 1 < padded -> -1
        [] OTHER -> exact

Signum(dn, abs) ==
  IF IsZero(dn) THEN 0 ELSE IF dn.neg /\ ~abs THEN -1 ELSE 1

\* The operand with the larger exponent goes to the right, and the result
\* is reversed when they were swapped.
Compare(lhs, rhs, abs) ==
  LET l == Signum(lhs, abs)
      r == Signum(rhs, abs)
      linf == lhs.kind = "infinite"
      rinf == rhs.kind = "infinite"
  IN  CASE l # r -> Sign(l - r)
        [] l = r /\ l = 0 -> 0
        [] l = r /\ l # 0 /\ (linf \/ rinf) ->
             IF linf /\ rinf THEN 0 ELSE IF rinf THEN -l ELSE l
        [] OTHER ->
             IF lhs.exponent > rhs.exponent
               THEN -l * UnitCompare(rhs, lhs, lhs.exponent - rhs.exponent)
               ELSE l * UnitCompare(lhs, rhs, rhs.exponent - lhs.exponent)

\* The number -1, 0 or 1 a comparison returns.
SignNumber(n) == Finite(n < 0, Magnitude(n), 0)

CompareOp(lhs, rhs, set) ==
  IF IsNaN(lhs) \/ IsNaN(rhs) THEN NaNs(lhs, rhs, set, {})
  ELSE Exact(SignNumber(Compare(lhs, rhs, FALSE)))

\* 754r total order: sign first, then NaNs above numbers, then value, then
\* exponent.
NaNRank(dn) == CASE ~IsNaN(dn) -> 0 [] dn.kind = "sNaN" -> 1
                 [] dn.kind = "qNaN" -> 2

TotalMagnitude(lhs, rhs) ==
  CASE NaNRank(lhs) # NaNRank(rhs) -> Sign(NaNRank(lhs) - NaNRank(rhs))
    [] NaNRank(lhs) = NaNRank(rhs) /\ IsNaN(lhs) -> UnitCompare(lhs, rhs, 0)
    [] OTHER -> Compare(lhs, rhs, TRUE)

CompareTotal(lhs, rhs) ==
  LET order == TotalMagnitude(lhs, rhs)
      tie   == IF order # 0 THEN order ELSE Sign(lhs.exponent - rhs.exponent)
  IN  IF lhs.neg # rhs.neg THEN (IF lhs.neg THEN -1 ELSE 1)
                           ELSE Signed(lhs.neg, tie)

CompareTotalOp(lhs, rhs) == Exact(SignNumber(CompareTotal(lhs, rhs)))

\* Mutation: the signs of equal operands are not looked at.
MaxTieUnsigned(lhs, rhs) == IF lhs.exponent > rhs.exponent THEN 1 ELSE -1

\* Equal operands of a maximum: the positive one, then by exponent.
MaxTie(lhs, rhs) ==
  CASE lhs.neg # rhs.neg -> IF lhs.neg THEN -1 ELSE 1
    [] lhs.neg /\ rhs.neg -> IF lhs.exponent < rhs.exponent THEN 1 ELSE -1
    [] ~lhs.neg /\ ~rhs.neg -> IF lhs.exponent > rhs.exponent THEN 1 ELSE -1

\* Mutation: the chosen operand is shortened only.
ChooseUnfinished(dn, set) == CopyFit(dn, set, 0, {})

Choose(dn, set) == Finalize(CopyFit(dn, set, 0, {}), set)

\* The maximum or minimum, by value or by magnitude; one quiet NaN is ignored.
Preferred(lhs, rhs, min, abs) ==
  LET c     == Compare(lhs, rhs, abs)
      order == IF c = 0 THEN MaxTie(lhs, rhs) ELSE c
      left  == IF IsNaN(lhs) \/ IsNaN(rhs) THEN IsNaN(rhs) ELSE (order > 0) # min
  IN  IF left THEN lhs ELSE rhs

MaxMinOp(lhs, rhs, set, min, abs) ==
  IF \/ IsNaN(lhs) /\ IsNaN(rhs)
     \/ lhs.kind = "sNaN"
     \/ rhs.kind = "sNaN"
    THEN NaNs(lhs, rhs, set, {})
    ELSE Choose(Preferred(lhs, rhs, min, abs), set)

----------------------------------------------------------------------------
(* decGetInt: the integer a number stands for, as a set that is empty when *)
(* it has a fraction or is too large to be an exponent.                    *)

GetInt(dn) ==
  LET whole    == dn.digits + dn.exponent
      fraction == dn.exponent < 0 /\ dn.coeff % Ten[-dn.exponent] # 0
      value    == Signed(dn.neg, IF dn.exponent < 0
                                   THEN dn.coeff \div Ten[-dn.exponent]
                                   ELSE dn.coeff * Ten[dn.exponent])
  IN  CASE IsZero(dn) -> { 0 }
        [] ~IsZero(dn) /\ whole \notin 1..10 -> {}
        [] ~IsZero(dn) /\ whole \in 1..10 ->
             IF fraction THEN {} ELSE { value } \cap (-1999999997)..999999999

----------------------------------------------------------------------------
(* decQuantizeOp: lhs with the exponent of rhs (quantize), or with the     *)
(* exponent that is the value of rhs (rescale).                            *)

\* Mutation: the rounding is left to the last step, which has no residue.
QuantizeDownCut(lhs, adjust, set) ==
  CopyFit(lhs, [ set EXCEPT !.digits = lhs.digits - adjust ], 0, {})

\* Digits are dropped: rounded in a context of just the digits that stay.
QuantizeDown(lhs, adjust, set) ==
  LET workset == [ set EXCEPT !.digits = lhs.digits - adjust ]
  IN  ApplyRound(CopyFit(lhs, workset, 0, {}), workset)

\* The last step: a result that does not fit the exponent range is invalid;
\* underflow is not reported.
QuantizeFinish(w, set) ==
  LET fin == Finalize([ w EXCEPT !.residue = 0 ], set)
  IN  IF w.dn.exponent > set.emax - w.dn.digits + 1
        THEN Raise(w, {"Invalid_operation"})
        ELSE [ fin EXCEPT !.status = @ \ {"Underflow"} ]

\* 99..9 that was rounded up is one exponent too high: it is shifted back,
\* unless it has all digits of the precision already.
QuantizeRounded(cut, reqexp, set) ==
  LET nines == cut.dn.exponent > reqexp
      back  == Padded(cut.dn, 1)
  IN  IF nines /\ cut.dn.digits = set.digits
        THEN Work(Zero, 0, (cut.status \ {"Inexact", "Rounded"})
                             \cup {"Invalid_operation"})
        ELSE QuantizeFinish(IF nines THEN [ cut EXCEPT !.dn = back ] ELSE cut, set)

QuantizeNonZero(lhs, reqexp, set) ==
  LET adjust == reqexp - lhs.exponent
  IN  CASE lhs.digits - adjust > set.digits -> Fail("Invalid_operation")
        [] lhs.digits - adjust <= set.digits /\ adjust <= 0 ->
             QuantizeFinish(Exact(Padded(lhs, -adjust)), set)
        [] lhs.digits - adjust <= set.digits /\ adjust > 0 ->
             QuantizeRounded(QuantizeDown(lhs, adjust, set), reqexp, set)

QuantizeInfinities(lhs, rhs) ==
  IF lhs.kind = rhs.kind THEN Exact(lhs) ELSE Fail("Invalid_operation")

QuantizeOp(lhs, rhs, set, quant) ==
  LET reqexps == IF quant THEN { rhs.exponent } ELSE GetInt(rhs)
      reqexp  == CHOOSE e \in reqexps : TRUE
      zero    == [ lhs EXCEPT !.exponent = reqexp ]
  IN  CASE IsNaN(lhs) \/ IsNaN(rhs) -> NaNs(lhs, rhs, set, {})
        [] ~IsNaN(lhs) /\ ~IsNaN(rhs) /\ (IsSpecial(lhs) \/ IsSpecial(rhs)) ->
             QuantizeInfinities(lhs, rhs)
        [] ~IsSpecial(lhs) /\ ~IsSpecial(rhs)
             /\ reqexps \cap Etiny(set)..set.emax = {} ->
             Fail("Invalid_operation")
        [] OTHER -> IF IsZero(lhs) THEN QuantizeFinish(Exact(zero), set)
                                   ELSE QuantizeNonZero(lhs, reqexp, set)

----------------------------------------------------------------------------
(* The public functions.  decStatus: an error status makes the result a    *)
(* quiet NaN, unless the NaN is already there (the sNaN mark).             *)

\* Mutation: any error makes the result a NaN.
StatusOfErrors(w) ==
  [ dn |-> IF w.status \cap DEC_Errors # {} /\ DEC_sNaN \notin w.status
             THEN QNaN ELSE w.dn,
    status |-> w.status \ {DEC_sNaN} ]

Status(w) ==
  [ dn |-> IF w.status \cap DEC_NaNs # {} /\ DEC_sNaN \notin w.status
             THEN QNaN ELSE w.dn,
    status |-> w.status \ {DEC_sNaN} ]

ZeroLike(rhs) == Finite(FALSE, 0, rhs.exponent)

NumberPlus(rhs, set)     == Status(AddOp(ZeroLike(rhs), rhs, set, FALSE))
NumberMinus(rhs, set)    == Status(AddOp(ZeroLike(rhs), rhs, set, TRUE))
NumberAbs(rhs, set)      == Status(AddOp(ZeroLike(rhs), rhs, set, rhs.neg))
NumberAdd(lhs, rhs, set) == Status(AddOp(lhs, rhs, set, FALSE))
NumberSubtract(lhs, rhs, set) == Status(AddOp(lhs, rhs, set, TRUE))
NumberMultiply(lhs, rhs, set) == Status(MultiplyOp(lhs, rhs, set))
NumberCompare(lhs, rhs, set)  == Status(CompareOp(lhs, rhs, set))
NumberCompareTotal(lhs, rhs)  == Status(CompareTotalOp(lhs, rhs))
NumberCompareTotalMag(lhs, rhs) ==
  NumberCompareTotal([ lhs EXCEPT !.neg = FALSE ], [ rhs EXCEPT !.neg = FALSE ])
NumberMax(lhs, rhs, set)      == Status(MaxMinOp(lhs, rhs, set, FALSE, FALSE))
NumberMin(lhs, rhs, set)      == Status(MaxMinOp(lhs, rhs, set, TRUE, FALSE))
NumberMaxMag(lhs, rhs, set)   == Status(MaxMinOp(lhs, rhs, set, FALSE, TRUE))
NumberMinMag(lhs, rhs, set)   == Status(MaxMinOp(lhs, rhs, set, TRUE, TRUE))
NumberQuantize(lhs, rhs, set) == Status(QuantizeOp(lhs, rhs, set, TRUE))
NumberRescale(lhs, rhs, set)  == Status(QuantizeOp(lhs, rhs, set, FALSE))
=============================================================================
