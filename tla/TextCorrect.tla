---------------------------- MODULE TextCorrect -----------------------------
(***************************************************************************)
(* What the conversions promise: a numeral is read as its exact value      *)
(* rounded once, and a number is written so that it can be read back.      *)
(***************************************************************************)
EXTENDS ArithCorrect

\* The value of some digits, 11 * 10^8 standing for everything above it: no
\* context comes near such an exponent.
ValueOf(digits) ==
  LET scale(i) == Len(digits) - i
      value(S) == MapThenSumSet(LAMBDA i : digits[i] * Ten[scale(i)], S)
      high     == { i \in DOMAIN digits : scale(i) >= 9 /\ digits[i] # 0 }
      low      == value({ i \in DOMAIN digits : scale(i) < 9 })
  IN  CASE high = {} -> low
        [] low < Ten[8] /\ high # {} /\ (\A i \in high : scale(i) = 9 /\ digits[i] = 1) ->
             Ten[9] + low
        [] OTHER -> 11 * Ten[8]

IsNumeral(text) == /\ text.word = "" /\ text.places > 0 /\ ~text.rest
                   /\ text.mark => text.power # <<>>

TextExponent(text) == Signed(text.minus, ValueOf(text.power)) - text.fraction

\* A numeral is converted to its exact value rounded once to the context, with
\* every flag of that rounding: leading zeros do not count as digits, and an
\* exponent too long for an Int still overflows or underflows.  What is not a
\* numeral is a NaN with Conversion_syntax and nothing else.
StringIsRounded ==
  last.op = "tonumber" /\ last.text.word = "" =>
    Returned = IF IsNumeral(last.text)
                 THEN RoundedOnce(last.text.neg, last.text.coeff,
                                  TextExponent(last.text), last.set)
                 ELSE [ dn |-> QNaN, status |-> {"Conversion_syntax"} ]

\* A number of a context: an arithmetic result of it could be this one.
IsInContext(dn, set) ==
  IF IsSpecial(dn) THEN dn.digits <= set.digits - set.clamp
  ELSE /\ dn.digits <= set.digits
       /\ dn.exponent >= Etiny(set)
       /\ dn.exponent + dn.digits - 1 <= set.emax
       /\ set.clamp = 1 => dn.exponent <= Etop(set)

Widest == Context(9, DEC_MAX_EMAX, DEC_MIN_EMIN, "HALF_UP", 0, {})

\* An engineering exponent is a multiple of three, with one to three digits
\* before the point, the first of them not a zero.
IsEngineering(text) ==
  /\ ValueOf(text.power) % 3 = 0
  /\ text.mark => GetDigits(text.coeff) - text.fraction \in 1..3

\* What tostring writes is read back as the same number, with the same sign,
\* digits and exponent, in the widest context and in any context the number
\* belongs to; what toengstring writes is read back as an equal one.
StringRoundTrip ==
  last.op \in {"tostring", "toengstring"} =>
    LET back == NumberFromString(last.answer, Widest)
        here == NumberFromString(last.answer, dc)
    IN  CASE last.op = "tostring" ->
               /\ back.dn = last.lhs
               /\ IsInContext(last.lhs, dc) => here.dn = last.lhs
          [] last.op = "toengstring" ->
               IF IsSpecial(last.lhs) \/ last.lhs.coeff = 0 THEN back.dn = last.lhs
               ELSE /\ OrderReference(back.dn, last.lhs) = 0
                    /\ IsEngineering(last.answer)

\* The characters of a numeral.
Length(text) ==
  (IF text.neg THEN 1 ELSE 0)
    + (CASE text.word = ""     -> text.places
         [] text.word = "inf"  -> 8
         [] text.word = "NaN"  -> 3 + text.places
         [] text.word = "sNaN" -> 4 + text.places)
    + (IF text.fraction > 0 THEN 1 ELSE 0)
    + (IF text.mark THEN 2 + Len(text.power) ELSE 0)

\* The text and its terminator fit the buffer of ldn_string: 128 characters,
\* or 15 more than the digits when that is more, down to the subnormals of the
\* widest context, whose exponents have ten digits.  (decToString asks for 14
\* more, which is too few there; the padding of an engineering exponent needs
\* even more for one digit, which is always written into the 128.)
TextFitsBuffer ==
  last.op \in {"tostring", "toengstring"} =>
    Length(last.answer) + 1
      <= IF last.lhs.digits = 1 THEN 18 ELSE last.lhs.digits + 15

\* The class of a number in a context is what plus finds out about it there: a
\* subnormal is a number plus reports as Subnormal, and the sign and the kind
\* are those of the copy plus makes.
ClassMatchesPlus ==
  last.op = "class" /\ last.lhs.digits <= dc.digits =>
    LET sum == NumberPlus(last.lhs, [ dc EXCEPT !.status = {} ])
    IN  CASE last.answer[1] \in {"qNaN", "sNaN"} ->
               /\ last.lhs.kind = last.answer[1]
               /\ ("Invalid_operation" \in sum.status) = (last.lhs.kind = "sNaN")
          [] last.answer[1] \in {"-", "+"} ->
               LET class == last.answer[2]
               IN  /\ (class = "Subnormal") = ("Subnormal" \in sum.status)
                   /\ class = "Normal" => sum.dn.coeff # 0 \/ "Overflow" \in sum.status
                   /\ class = "Zero" => sum.dn.coeff = 0 /\ sum.dn.kind = "finite"
                   /\ class # "Zero" => sum.dn.neg = (last.answer[1] = "-")
=============================================================================
