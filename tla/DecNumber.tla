----------------------------- MODULE DecNumber ------------------------------
(***************************************************************************)
(* decNumber values and the shared rounding core of decNumber.c: setting a *)
(* coefficient in a limited precision, applying the pending rounding, and  *)
(* finalizing a result (subnormal, overflow, clamp).                       *)
(*                                                                         *)
(* A number carries its coefficient as a natural number; the Units of      *)
(* DECDPUN digits it is stored in matter only where the code's control     *)
(* depends on them.  A work record w is what an operation accumulates: the *)
(* result built so far, the residue of the digits dropped from it, and the *)
(* status.  The residue encodes the discarded part:                        *)
(*   0 none, 1..4 below half, 5 exactly half, 6..9 above half, and         *)
(*   -1 a small part of the opposite sign.                                 *)
(***************************************************************************)
EXTENDS DecContext, FiniteSets

CONSTANT DECDPUN                     \* decimal digits per Unit

ASSUME DecDPunAssumption == DECDPUN \in 1..4

\* The numbers a Unit holds (DECDPUNMAX + 1).
UnitBase == CASE DECDPUN = 1 -> 10
              [] DECDPUN = 2 -> 100
              [] DECDPUN = 3 -> 1000
              [] DECDPUN = 4 -> 10000

\* Powers of ten, and the table of those that fit a uInt.
DECPOWERS == << 1, 10, 100, 1000, 10000, 100000, 1000000, 10000000,
                100000000, 1000000000 >>
Ten[n \in Nat] == IF n < 10 THEN DECPOWERS[n + 1] ELSE 10 * Ten[n - 1]

\* decGetDigits: the significant digits of a coefficient, 1 for zero.
GetDigits(c) ==
  LET count[k \in Nat] == IF c < Ten[k] THEN k ELSE count[k + 1] IN count[1]

Number(kind, neg, coeff, exponent) ==
  [ kind |-> kind, neg |-> neg, coeff |-> coeff,
    digits |-> GetDigits(coeff), exponent |-> exponent ]

Finite(neg, coeff, exponent) == Number("finite", neg, coeff, exponent)
Infinity(neg) == Number("infinite", neg, 0, 0)
QNaN == Number("qNaN", FALSE, 0, 0)
Zero == Finite(FALSE, 0, 0)

IsNaN(dn) == dn.kind \in {"qNaN", "sNaN"}
IsSpecial(dn) == dn.kind # "finite"
IsZero(dn) == dn.coeff = 0 /\ dn.digits = 1 /\ ~IsSpecial(dn)

Work(dn, residue, status) ==
  [ dn |-> dn, residue |-> residue, status |-> status ]

Raise(w, flags) == [ w EXCEPT !.status = @ \cup flags ]

\* The number dn with a coefficient of another length or exponent.
Resized(dn, coeff, digits, exponent) ==
  [ dn EXCEPT !.coeff = coeff, !.digits = digits, !.exponent = exponent ]

----------------------------------------------------------------------------
(* decShiftToMost: append shift zeros to the coefficient.                  *)

ShiftToMost(dn, shift) ==
  Resized(dn, dn.coeff * Ten[shift], dn.digits + shift, dn.exponent)

\* The same value with the exponent lowered to match.
Padded(dn, shift) ==
  Resized(dn, dn.coeff * Ten[shift], dn.digits + shift, dn.exponent - shift)

----------------------------------------------------------------------------
(* decSetCoeff                                                             *)

\* Mutation: no room for a sticky mark below a half.
ResmapFull(guard) == CASE guard = 0 -> 0
                       [] guard \in 1..4 -> 4
                       [] guard = 5 -> 5
                       [] guard \in 6..9 -> 9

\* resmap: the residue a guard digit stands for, so chosen that a sticky
\* +1 or -1 below it can still be added.
Resmap(guard) == CASE guard = 0 -> 0
                   [] guard \in 1..4 -> 3
                   [] guard = 5 -> 5
                   [] guard \in 6..9 -> 7

\* Total discard: the guard digit is 0 and everything is sticky.
DropAll(coeff, residue) ==
  IF residue <= 0 /\ coeff # 0 THEN 1 ELSE residue

\* The Unit holding the first discarded digit ends with that digit: the
\* residue is read off the whole Unit.
UnitResidue(unit, sticky) ==
  LET half == UnitBase \div 2
  IN  CASE unit > half -> 7
        [] unit = half -> sticky + 5
        [] unit < half -> IF unit # 0 THEN 3 ELSE sticky

\* Otherwise the digits below it in its Unit make the residue sticky.
DigitResidue(unit, cut, sticky) ==
  LET low == IF unit % Ten[cut] # 0 THEN 1 ELSE sticky
  IN  low + Resmap((unit \div Ten[cut]) % 10)

\* Partial discard: whole Units below the first discarded digit are only
\* inspected for a nonzero value.
DropDigits(coeff, discard, residue) ==
  LET below  == ((discard - 1) \div DECDPUN) * DECDPUN
      cut    == discard - below - 1
      unit   == (coeff \div Ten[below]) % UnitBase
      sticky == IF coeff % Ten[below] # 0 THEN 1 ELSE residue
  IN  IF cut = DECDPUN - 1 THEN UnitResidue(unit, sticky)
                           ELSE DigitResidue(unit, cut, sticky)

InexactIf(residue) == IF residue # 0 THEN {"Inexact"} ELSE {}

\* The digits that stay, with the residue of those dropped; set.digits may be
\* less than one: a round to the left of the number.
Cut(w, set, residue) ==
  LET discard == w.dn.digits - set.digits
      exp     == w.dn.exponent + discard
  IN  Work(IF set.digits <= 0 THEN Resized(w.dn, 0, 1, exp)
           ELSE Resized(w.dn, w.dn.coeff \div Ten[discard], set.digits, exp),
           residue,
           w.status \cup {"Rounded"} \cup InexactIf(residue))

SetCoeff(w, set) ==
  LET discard == w.dn.digits - set.digits
      prior   == IF w.residue > 1 THEN 1 ELSE w.residue
  IN  CASE discard <= 0 ->
             IF w.residue # 0 THEN Raise(w, {"Inexact", "Rounded"}) ELSE w
        [] discard > 0 /\ discard <= w.dn.digits ->
             Cut(w, set, DropDigits(w.dn.coeff, discard, prior))
        [] discard > w.dn.digits -> Cut(w, set, DropAll(w.dn.coeff, prior))

\* decCopyFit: start a result as a copy of src, cut to the precision.
CopyFit(src, set, residue, status) ==
  SetCoeff(Work(src, residue, status), set)

----------------------------------------------------------------------------
(* decSetOverflow, decSetMaxValue                                          *)

MaxValue(neg, set) == Finite(neg, Ten[set.digits] - 1, Etop(set))

SetOverflow(w, set) ==
  LET dn    == w.dn
      limit == IF set.clamp = 1 THEN Etop(set) ELSE set.emax
      needmax == \/ set.round = "DOWN"
                 \/ set.round = "CEILING" /\ dn.neg
                 \/ set.round = "FLOOR" /\ ~dn.neg
  IN  CASE IsZero(dn) /\ dn.exponent > limit ->
             Raise([ w EXCEPT !.dn.exponent = limit ], {"Clamped"})
        [] IsZero(dn) /\ dn.exponent <= limit -> w
        [] OTHER ->
             Raise([ w EXCEPT !.dn = IF needmax THEN MaxValue(dn.neg, set)
                                                ELSE Infinity(dn.neg) ],
                   {"Overflow", "Inexact", "Rounded"})

----------------------------------------------------------------------------
(* decApplyRound                                                           *)

\* How the pending residue moves the last digit, by rounding mode.
Bump(dn, round, residue) ==
  LET awayIf(up) == IF up THEN 1 ELSE 0
      inward     == IF residue < 0 THEN -1 ELSE 0
      outward    == awayIf(residue > 0)
  IN  CASE round = "05UP" ->
             IF residue < 0 THEN (IF dn.coeff % 5 # 1 THEN -1 ELSE 0)
                            ELSE awayIf(dn.coeff % 5 = 0)
        [] round = "DOWN"      -> inward
        [] round = "HALF_DOWN" -> awayIf(residue > 5)
        [] round = "HALF_EVEN" ->
             awayIf(residue > 5 \/ (residue = 5 /\ dn.coeff % 2 = 1))
        [] round = "HALF_UP"   -> awayIf(residue >= 5)
        [] round = "UP"        -> outward
        [] round = "CEILING"   -> IF dn.neg THEN inward ELSE outward
        [] round = "FLOOR"     -> IF dn.neg THEN outward ELSE inward

\* 99..9 plus one: keep the length, raise the exponent, which can overflow.
BumpNines(w, set) ==
  LET up == [ w EXCEPT !.dn = Resized(@, Ten[@.digits - 1], @.digits,
                                      @.exponent + 1) ]
  IN  IF up.dn.exponent + up.dn.digits > set.emax + 1
        THEN SetOverflow(up, set) ELSE up

\* 10..0 minus one: keep the length, lower the exponent; at the bottom of
\* the exponent range the new last 9 is dropped again.
BumpPower(w, set) ==
  LET dn   == w.dn
      down == Resized(dn, Ten[dn.digits] - 1, dn.digits, dn.exponent - 1)
      nine == IF dn.digits = 1
                THEN Resized(dn, 0, 1, dn.exponent)
                ELSE Resized(dn, Ten[dn.digits - 1] - 1, dn.digits - 1, dn.exponent)
  IN  IF down.exponent + 1 = Etiny(set)
        THEN Raise([ w EXCEPT !.dn = nine ],
                   {"Underflow", "Subnormal", "Inexact", "Rounded"})
        ELSE [ w EXCEPT !.dn = down ]

\* The last digit moved, with the two cases that change the length.
Bumped(w, set, bump) ==
  CASE bump = 0 -> w
    [] bump = 1 /\ w.dn.coeff = Ten[w.dn.digits] - 1 -> BumpNines(w, set)
    [] bump = -1 /\ w.dn.coeff = Ten[w.dn.digits - 1] -> BumpPower(w, set)
    [] OTHER -> [ w EXCEPT !.dn.coeff = @ + bump ]

ApplyRound(w, set) ==
  IF w.residue = 0 THEN w
  ELSE Bumped(w, set, Bump(w.dn, set.round, w.residue))

----------------------------------------------------------------------------
(* decSetSubnormal, decFinalize                                            *)

\* Mutation: a tiny inexact result goes unreported.
UnderflowNever(status) == {}

UnderflowIf(status) == IF "Inexact" \in status THEN {"Underflow"} ELSE {}

\* A rounded-up 99..9 is one exponent too high: it is padded back.
PadBack(dn, etiny) ==
  IF dn.exponent > etiny THEN Padded(dn, 1) ELSE dn

\* A subnormal that was cut and rounded; it may have become zero.
Denormal(cut, etiny) ==
  Raise([ cut EXCEPT !.dn = PadBack(@, etiny) ],
        UnderflowIf(cut.status)
          \cup (IF IsZero(cut.dn) THEN {"Clamped"} ELSE {}))

RoundInto(w, workset) == ApplyRound(SetCoeff(w, workset), workset)

SetSubnormal(w, set) ==
  LET etiny   == Etiny(set)
      adjust  == etiny - w.dn.exponent
      workset == [ set EXCEPT !.digits = w.dn.digits - adjust,
                              !.emin = @ - adjust ]
  IN  CASE IsZero(w.dn) /\ adjust > 0 ->
             Raise([ w EXCEPT !.dn.exponent = etiny ], {"Clamped"})
        [] IsZero(w.dn) /\ adjust <= 0 -> w
        [] ~IsZero(w.dn) /\ adjust <= 0 ->
             Raise(w, {"Subnormal"} \cup UnderflowIf(w.status))
        [] OTHER -> Denormal(RoundInto(Raise(w, {"Subnormal"}), workset), etiny)

\* A nonzero number whose coefficient is a power of ten with adjusted
\* exponent Emin: the smallest normal number.
IsNmin(dn, set) == ~IsZero(dn) /\ dn.coeff = Ten[dn.digits - 1]
                   /\ dn.exponent + dn.digits - 1 = set.emin

\* Mutation: the clamp is forgotten.
FoldDownUnclamped(w, set) ==
  IF w.dn.exponent > set.emax - w.dn.digits + 1 THEN SetOverflow(w, set) ELSE w

\* The overflow test and the IEEE fold-down clamp, after rounding.  They see
\* whatever the rounding left, an Infinity included (its exponent is 0).
FoldDown(w, set) ==
  LET shift == w.dn.exponent - Etop(set)
      moved == IF IsZero(w.dn) THEN [ w.dn EXCEPT !.exponent = @ - shift ]
                               ELSE Padded(w.dn, shift)
  IN  CASE shift <= 0 -> w
        [] shift > 0 /\ w.dn.exponent > set.emax - w.dn.digits + 1 ->
             SetOverflow(w, set)
        [] shift > 0 /\ w.dn.exponent <= set.emax - w.dn.digits + 1 ->
             IF set.clamp = 0 THEN w
             ELSE Raise([ w EXCEPT !.dn = moved ], {"Clamped"})

\* Numbers that are subnormal, or become so when the smallest normal number is
\* rounded down.
IsSubnormal(w, set) ==
  LET tinyexp == set.emin - w.dn.digits + 1
  IN  \/ w.dn.exponent < tinyexp
      \/ w.dn.exponent = tinyexp /\ IsNmin(w.dn, set) /\ w.residue < 0

Finalize(w, set) ==
  LET below == w.dn.exponent < set.emin - w.dn.digits + 1
  IN  IF IsSubnormal(w, set)
        THEN SetSubnormal(IF below THEN w ELSE ApplyRound(w, set), set)
        ELSE FoldDown(ApplyRound(w, set), set)
=============================================================================
