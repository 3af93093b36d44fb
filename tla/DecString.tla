----------------------------- MODULE DecString ------------------------------
(***************************************************************************)
(* Numbers and text: decNumberFromString, decToString and the classes.     *)
(*                                                                         *)
(* A numeral is what the scan of the characters finds: a sign, then either *)
(* a word with its payload or digits, fraction of them after the point,    *)
(* then an E mark with the digits of an exponent, then anything else.  A   *)
(* string of places digits is the number coeff they make, so that the      *)
(* leading zeros among them are places - GetDigits(coeff).                 *)
(***************************************************************************)
EXTENDS DecPower

DECNUMMAXE == 999999999

Plain(neg, coeff, places, fraction) ==
  [ neg |-> neg, word |-> "", coeff |-> coeff, places |-> places,
    fraction |-> fraction, mark |-> FALSE, minus |-> FALSE, power |-> <<>>,
    rest |-> FALSE ]

WithPower(numeral, minus, power) ==
  [ numeral EXCEPT !.mark = TRUE, !.minus = minus, !.power = power ]

Word(neg, word, payload, places) ==
  [ Plain(neg, payload, places, 0) EXCEPT !.word = word ]

----------------------------------------------------------------------------
(* decNumberFromString.                                                    *)

\* Mutation: the digits of an exponent count from the first one written.
FirstExpWritten(power) == power

\* The exponent from its first digit that counts; a last zero always does.
FirstExp(power) ==
  LET nonzero == { i \in DOMAIN power : power[i] # 0 }
  IN  IF nonzero = {} THEN <<0>> ELSE SubSeq(power, Min(nonzero), Len(power))

\* What has ten digits, the first above 1, or more may wrap at 31 bits.
PowerValue(digits) ==
  IF Len(digits) > 10 \/ (Len(digits) = 10 /\ digits[1] > 1)
    THEN 2 * DECNUMMAXE
    ELSE MapThenSumSet(LAMBDA i : digits[i] * Ten[Len(digits) - i], DOMAIN digits)

\* The exponent of the last digit.
NumeralExponent(numeral) ==
  Signed(numeral.minus, PowerValue(FirstExp(numeral.power))) - numeral.fraction

\* A payload may have all digits of the precision, or one less when clamping.
PayloadFits(numeral, set) ==
  numeral.coeff = 0 \/ GetDigits(numeral.coeff) <= set.digits - set.clamp

\* Every way out of the scan with Conversion_syntax.
IsMalformed(numeral, set) ==
  \/ numeral.rest
  \/ numeral.mark /\ numeral.power = <<>>
  \/ numeral.word = "" /\ numeral.places = 0
  \/ numeral.word = "inf" /\ numeral.places > 0
  \/ numeral.word \in {"NaN", "sNaN"} /\ ~PayloadFits(numeral, set)

\* Mutation: the top of the range starts one exponent too late.
NeedsFinalizeLate(dn, set) ==
  \/ dn.exponent - 1 < set.emin - dn.digits
  \/ dn.exponent - 1 > set.emax - set.digits + 1

\* The test that saves finalizing what is in the range.
NeedsFinalize(dn, set) ==
  \/ dn.exponent - 1 < set.emin - dn.digits
  \/ dn.exponent - 1 > set.emax - set.digits

\* The digits, of a number or of a payload, fitted to the context.
Place(dn, set) ==
  IF dn.digits > set.digits THEN Finalize(CopyFit(dn, set, 0, {}), set)
  ELSE IF NeedsFinalize(dn, set) THEN Finalize(Exact(dn), set)
  ELSE Exact(dn)

FromString(numeral, set) ==
  LET kind == [ NaN |-> "qNaN", sNaN |-> "sNaN" ]
  IN  CASE IsMalformed(numeral, set) -> Fail("Conversion_syntax")
        [] numeral.word = "inf" -> Exact(Infinity(numeral.neg))
        [] numeral.word # "inf" /\ numeral.word # "" ->
             LET dn == Number(kind[numeral.word], numeral.neg, numeral.coeff, 0)
             IN  IF numeral.coeff = 0 THEN Exact(dn) ELSE Place(dn, set)
        [] numeral.word = "" ->
             Place(Finite(numeral.neg, numeral.coeff, NumeralExponent(numeral)), set)

NumberFromString(numeral, set) == Status(FromString(numeral, set))

----------------------------------------------------------------------------
(* decToString.                                                            *)

\* The digits of an exponent, which has at most ten.
DigitsOf(n) ==
  LET len == IF n < Ten[9] THEN GetDigits(n) ELSE 10
  IN  [ i \in 1..len |-> (n \div Ten[len - i]) % 10 ]

\* Mutation: small numbers are written with all their zeros.
NeedsPowerAbove(dn) == dn.exponent > 0

\* An exponent is shown when the point would be right of the digits or more
\* than five zeros left of them.
NeedsPower(dn) == dn.exponent > 0 \/ dn.digits + dn.exponent < -5

\* The exponent shown when one digit comes before the point.
ScientificPower(dn) == IF NeedsPower(dn) THEN dn.exponent + dn.digits - 1 ELSE 0

\* Mutation: C's remainder, which has the sign of the exponent.
EngineeringCut(dn) == Sign(ScientificPower(dn)) * (Magnitude(ScientificPower(dn)) % 3)

\* How far an exponent is above a multiple of three.
Engineering(dn) == ScientificPower(dn) % 3

\* The exponent shown and the digits before the point.  An engineering zero
\* gets its exponent by zeros after the point, 0.0 or 0.00.
ShownPower(dn, eng) ==
  CASE ~eng \/ Engineering(dn) = 0 -> ScientificPower(dn)
    [] eng /\ Engineering(dn) # 0 ->
         ScientificPower(dn) - Engineering(dn) + (IF IsZero(dn) THEN 3 ELSE 0)

Before(dn, eng) ==
  CASE ~NeedsPower(dn) -> dn.digits + dn.exponent
    [] NeedsPower(dn) /\ (~eng \/ Engineering(dn) = 0) -> 1
    [] NeedsPower(dn) /\ eng /\ Engineering(dn) # 0 ->
         IF IsZero(dn) THEN Engineering(dn) - 2 ELSE 1 + Engineering(dn)

\* The digits with pre of them before the point: padded when there are fewer,
\* after "0." and zeros when pre is not positive.
Laid(dn, pre) ==
  CASE pre <= 0 -> Plain(dn.neg, dn.coeff, 1 + dn.digits - pre, dn.digits - pre)
    [] pre > 0 /\ pre <= dn.digits ->
         Plain(dn.neg, dn.coeff, dn.digits, dn.digits - pre)
    [] pre > dn.digits ->
         Plain(dn.neg, dn.coeff * Ten[pre - dn.digits], pre, 0)

PowerShown(numeral, power) ==
  IF power = 0 THEN numeral
  ELSE WithPower(numeral, power < 0, DigitsOf(Magnitude(power)))

ToString(dn, eng) ==
  CASE dn.kind = "infinite" -> Word(dn.neg, "inf", 0, 0)
    [] IsNaN(dn) ->
         LET word   == IF dn.kind = "sNaN" THEN "sNaN" ELSE "NaN"
             hidden == dn.exponent # 0 \/ (dn.coeff = 0 /\ dn.digits = 1)
         IN  Word(dn.neg, word, IF hidden THEN 0 ELSE dn.coeff,
                  IF hidden THEN 0 ELSE dn.digits)
    [] ~IsSpecial(dn) ->
         PowerShown(Laid(dn, Before(dn, eng)), ShownPower(dn, eng))

----------------------------------------------------------------------------
(* The classes and the predicates.                                         *)

\* Mutation: as if the digits did not raise the exponent.
IsNormalByExponent(dn, set) == ~IsSpecial(dn) /\ ~IsZero(dn) /\ dn.exponent >= set.emin

NumberIsNormal(dn, set) ==
  ~IsSpecial(dn) /\ ~IsZero(dn) /\ dn.exponent + dn.digits - 1 >= set.emin

NumberIsSubnormal(dn, set) ==
  ~IsSpecial(dn) /\ ~IsZero(dn) /\ dn.exponent + dn.digits - 1 < set.emin

\* NaNs have no sign in their class.
NumberClass(dn, set) ==
  LET sign == IF dn.neg THEN "-" ELSE "+"
  IN  CASE IsNaN(dn) -> <<dn.kind>>
        [] dn.kind = "infinite" -> <<sign, "Infinity">>
        [] NumberIsNormal(dn, set) -> <<sign, "Normal">>
        [] IsZero(dn) -> <<sign, "Zero">>
        [] OTHER -> <<sign, "Subnormal">>

Answer(op, dn, set) ==
  CASE op = "class"       -> NumberClass(dn, set)
    [] op = "isnormal"    -> NumberIsNormal(dn, set)
    [] op = "issubnormal" -> NumberIsSubnormal(dn, set)
    [] op = "iszero"      -> IsZero(dn)
    [] op = "isnegative"  -> dn.neg
    [] op = "isnan"       -> IsNaN(dn)
    [] op = "isqnan"      -> dn.kind = "qNaN"
    [] op = "issnan"      -> dn.kind = "sNaN"
    [] op = "isinfinite"  -> dn.kind = "infinite"
    [] op = "isfinite"    -> ~IsSpecial(dn)
    [] op = "isspecial"   -> IsSpecial(dn)
    [] op = "iscanonical" -> TRUE
    [] op = "radix"       -> 10
    [] op = "tostring"    -> ToString(dn, FALSE)
    [] op = "toengstring" -> ToString(dn, TRUE)
=============================================================================
