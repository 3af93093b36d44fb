----------------------------- MODULE Interchange ------------------------------
(***************************************************************************)
(* The interchange formats: decimal32, decimal64 and decimal128 (one code  *)
(* three times, for a different geometry) and packed decimals.  A program  *)
(* holds a number, a string, an encoding in one of the formats and a       *)
(* packed decimal, and converts between them in any order.                 *)
(*                                                                         *)
(* An encoding is its fields: the sign, the combination field of five bits *)
(* (top of the exponent and first digit, or the kind of a special value),  *)
(* the exponent continuation, and the declets, ten bits each, the lowest   *)
(* first.  How they share out words and bytes is left out.                 *)
(***************************************************************************)
EXTENDS DecString, DecReference

CONSTANTS
  Formats,         \* the formats the program uses
  Numbers,         \* the numbers it starts with
  Encodings,       \* the encodings it starts with
  Packings,        \* the packed decimals it starts with
  Numerals,        \* the strings it starts with
  Rounds,          \* the rounding modes of its context
  Lengths,         \* the bytes it has for a packed decimal
  MaxDigits,       \* bound on the digits of the numbers it encodes
  MaxCalls         \* bound on the length of a behaviour

\* The constants of decimal32.h, decimal64.h and decimal128.h.
Pmax  == [ DECIMAL32 |-> 7, DECIMAL64 |-> 16, DECIMAL128 |-> 34 ]
Emax  == [ DECIMAL32 |-> 96, DECIMAL64 |-> 384, DECIMAL128 |-> 6144 ]
Emin  == [ DECIMAL32 |-> -95, DECIMAL64 |-> -383, DECIMAL128 |-> -6143 ]
Bias  == [ DECIMAL32 |-> 101, DECIMAL64 |-> 398, DECIMAL128 |-> 6176 ]
EconL == [ DECIMAL32 |-> 6, DECIMAL64 |-> 8, DECIMAL128 |-> 12 ]
Ehigh == [ fmt \in DOMAIN Pmax |-> Emax[fmt] + Bias[fmt] - Pmax[fmt] + 1 ]

\* Three digits each, after the first one.
Declets == [ fmt \in DOMAIN Pmax |-> Pmax[fmt] \div 3 ]

\* What decContextDefault makes for a format.
FormatContext == [ fmt \in DOMAIN Pmax |-> ContextDefault(fmt) ]

----------------------------------------------------------------------------
(* Densely packed decimals: three digits in ten bits.  The tables of       *)
(* decDPD.h, written as the rule they follow: which of the digits are 8 or *)
(* 9, and the low bits of the digits.                                      *)

Declet(high, middle, v, low) ==
  128 * (high % 8) + 16 * (middle % 8) + 8 * v + (low % 8)

\* The upper two of the three low bits of a digit, in their place.
Pair(digit) == (digit % 8) - (digit % 2)

Last(digit) == digit % 2

\* Digits that three bits hold.
Small(digit) == digit < 8

DigitsToDeclet(a, b, c) ==
  CASE Small(a) /\ Small(b) /\ Small(c)    -> Declet(a, b, 0, c)
    [] Small(a) /\ Small(b) /\ ~Small(c)   -> Declet(a, b, 1, Last(c))
    [] Small(a) /\ ~Small(b) /\ Small(c)   -> Declet(a, Pair(c) + Last(b), 1, 2 + Last(c))
    [] ~Small(a) /\ Small(b) /\ Small(c)   -> Declet(Pair(c) + Last(a), b, 1, 4 + Last(c))
    [] ~Small(a) /\ ~Small(b) /\ Small(c)  -> Declet(Pair(c) + Last(a), Last(b), 1, 6 + Last(c))
    [] ~Small(a) /\ Small(b) /\ ~Small(c)  -> Declet(Pair(b) + Last(a), 2 + Last(b), 1, 6 + Last(c))
    [] Small(a) /\ ~Small(b) /\ ~Small(c)  -> Declet(a, 4 + Last(b), 1, 6 + Last(c))
    [] ~Small(a) /\ ~Small(b) /\ ~Small(c) -> Declet(Last(a), 6 + Last(b), 1, 6 + Last(c))

BIN2DPD == [ bin \in 0..999 |->
  DigitsToDeclet(bin \div 100, (bin \div 10) % 10, bin % 10) ]

Large(digit) == 8 + Last(digit)
Three(a, b, c) == 100 * a + 10 * b + c

\* A small digit whose upper bits are in one field, the last in another.
From(field, last) == Pair(field) + Last(last)

\* Of a declet with three large digits two bits mean nothing.
FieldsToBin(p, s, v, w) ==
  CASE v = 0 -> Three(p, s, w)
    [] v = 1 /\ w \div 2 = 0 -> Three(p, s, Large(w))
    [] v = 1 /\ w \div 2 = 1 -> Three(p, Large(s), From(s, w))
    [] v = 1 /\ w \div 2 = 2 -> Three(Large(p), s, From(p, w))
    [] v = 1 /\ w \div 2 = 3 ->
         CASE s \div 2 = 0 -> Three(Large(p), Large(s), From(p, w))
           [] s \div 2 = 1 -> Three(Large(p), From(p, s), Large(w))
           [] s \div 2 = 2 -> Three(p, Large(s), Large(w))
           [] s \div 2 = 3 -> Three(Large(p), Large(s), Large(w))

DPD2BIN == [ dpd \in 0..1023 |->
  FieldsToBin(dpd \div 128, (dpd \div 16) % 8, (dpd \div 8) % 2, dpd % 8) ]

\* The n-th three digits of a coefficient.
Triple(coeff, n) ==
  IF 3 * (n - 1) >= GetDigits(coeff) THEN 0 ELSE (coeff \div 1000^(n - 1)) % 1000

\* decDigitsToDPD, up to the odd digit at the top, which the caller takes off.
DigitsToDPD(coeff, fmt) == [ n \in 1..Declets[fmt] |-> BIN2DPD[Triple(coeff, n)] ]

\* decDigitsFromDPD; zero declets at the top are not even looked at.
DigitsFromDPD(msd, declets) ==
  LET all == Append([ n \in DOMAIN declets |-> DPD2BIN[declets[n]] ], msd)
  IN  MapThenSumSet(LAMBDA n : all[n] * 1000^(n - 1),
                    { n \in DOMAIN all : all[n] # 0 })

----------------------------------------------------------------------------
(* decimal32FromNumber and its like.                                       *)

Encoding(fmt, neg, comb, cont, declets) ==
  [ fmt |-> fmt, neg |-> neg, comb |-> comb, cont |-> cont, declets |-> declets ]

NoDigits(fmt) == [ n \in 1..Declets[fmt] |-> 0 ]

\* Has it too many digits, or an exponent that could be out of range?
OutOfRange(dn, fmt) ==
  \/ dn.digits > Pmax[fmt]
  \/ dn.exponent + dn.digits - 1 > Emax[fmt]
  \/ dn.exponent + dn.digits - 1 < Emin[fmt]

\* Then it is reduced by a plus in the context of the format, which would lose
\* the sign of a zero.
Reduced(dn, fmt, round) ==
  IF OutOfRange(dn, fmt)
    THEN LET sum == NumberPlus(dn, [ FormatContext[fmt] EXCEPT !.round = round ])
         IN  [ sum EXCEPT !.dn.neg = @ \/ dn.neg ]
    ELSE [ dn |-> dn, status |-> {} ]

\* Mutation: a top digit of 8 or 9 spills into the exponent.
CombSpilt(msd, top) == 8 * top + msd

\* The combination field: the top two bits of the biased exponent and the top
\* digit, of which a large one leaves one bit.
Comb(msd, top) ==
  IF msd >= 8 THEN 24 + 2 * top + Last(msd) ELSE 8 * top + msd

EncodeNaN(dn, fmt) ==
  Encoding(fmt, dn.neg, 31, IF dn.kind = "sNaN" THEN 2^(EconL[fmt] - 1) ELSE 0,
           IF dn.digits < Pmax[fmt] THEN DigitsToDPD(dn.coeff, fmt)
                                    ELSE NoDigits(fmt))

\* What exponents above the highest are folded down to.
Within(exp, fmt) == IF exp < 0 THEN 0 ELSE IF exp > Ehigh[fmt] THEN Ehigh[fmt] ELSE exp

EncodeFinite(dn, fmt) ==
  LET biased == dn.exponent + Bias[fmt]
      exp    == Within(biased, fmt)
      coeff  == IF dn.coeff = 0 THEN 0 ELSE dn.coeff * Ten[biased - exp]
      msd    == Triple(coeff, Declets[fmt] + 1)
  IN  Encoding(fmt, dn.neg, Comb(msd, exp \div 2^EconL[fmt]), exp % 2^EconL[fmt],
               DigitsToDPD(coeff, fmt))

ClampedIf(dn, fmt) ==
  IF IsSpecial(dn) \/ dn.exponent + Bias[fmt] \in 0..Ehigh[fmt] THEN {} ELSE {"Clamped"}

\* The fields of a number that fits the format.
Coded(to, fmt) ==
  CASE to.kind = "infinite" -> Encoding(fmt, to.neg, 30, 0, NoDigits(fmt))
    [] IsNaN(to)            -> EncodeNaN(to, fmt)
    [] ~IsSpecial(to)       -> EncodeFinite(to, fmt)

Encoded(res, fmt) ==
  [ d |-> Coded(res.dn, fmt), status |-> res.status \cup ClampedIf(res.dn, fmt) ]

FromNumber(dn, fmt, round) == Encoded(Reduced(dn, fmt, round), fmt)

----------------------------------------------------------------------------
(* decimal32ToNumber and its like.                                         *)

COMBEXP(comb) == IF comb < 24 THEN comb \div 8 ELSE (comb - 24) \div 2
COMBMSD(comb) == IF comb \in 24..29 THEN 8 + Last(comb)
                 ELSE IF comb < 24 THEN comb % 8 ELSE Last(comb)

IsSignalling(d) == d.cont >= 2^(EconL[d.fmt] - 1)

Unbiased(d) == COMBEXP(d.comb) * 2^EconL[d.fmt] + d.cont - Bias[d.fmt]

ToNumber(d) ==
  CASE d.comb = 30 -> Infinity(d.neg)
    [] d.comb = 31 -> Number(IF IsSignalling(d) THEN "sNaN" ELSE "qNaN", d.neg,
                             DigitsFromDPD(0, d.declets), 0)
    [] d.comb < 30 -> Finite(d.neg, DigitsFromDPD(COMBMSD(d.comb), d.declets), Unbiased(d))

\* A round trip makes an encoding canonical, in a context of its own.
Canonical(d) == FromNumber(ToNumber(d), d.fmt, FormatContext[d.fmt].round).d
IsCanonical(d) == Canonical(d) = d

\* A string is converted in the format's context, then encoded.
FormatNumber(numeral, fmt, round) ==
  NumberFromString(numeral, [ FormatContext[fmt] EXCEPT !.round = round ])

----------------------------------------------------------------------------
(* decimal32ToString and its like, which go from the fields to the text    *)
(* without a decNumber in between.                                         *)

\* Mutation: the top declet is written in full.
PlacesInFull(msd, declets) ==
  IF msd # 0 THEN 1 + 3 * Len(declets)
  ELSE Larger(1, 3 * Max({0} \cup { n \in DOMAIN declets : declets[n] # 0 }))

\* The digits written: from the top one that is not zero.
Places(msd, declets) ==
  LET nonzero == { n \in DOMAIN declets : declets[n] # 0 }
      top     == Max(nonzero)
  IN  CASE msd # 0 -> 1 + 3 * Len(declets)
        [] msd = 0 /\ nonzero = {} -> 1
        [] msd = 0 /\ nonzero # {} -> GetDigits(DPD2BIN[declets[top]]) + 3 * (top - 1)

\* The digits with pre of them before the point.
Pointed(neg, coeff, places, pre) ==
  IF pre > 0 THEN Plain(neg, coeff, places, places - pre)
             ELSE Plain(neg, coeff, 1 + places - pre, places - pre)

FiniteText(neg, coeff, places, exp) ==
  LET pre == places + exp
      e   == pre - 1
  IN  IF exp > 0 \/ pre < -5
        THEN WithPower(Pointed(neg, coeff, places, 1), e < 0, DigitsOf(Magnitude(e)))
        ELSE Pointed(neg, coeff, places, pre)

EncodingText(d) ==
  LET msd    == IF d.comb < 30 THEN COMBMSD(d.comb) ELSE 0
      coeff  == DigitsFromDPD(msd, d.declets)
      places == Places(msd, d.declets)
      word   == IF IsSignalling(d) THEN "sNaN" ELSE "NaN"
  IN  CASE d.comb = 30 -> Word(d.neg, "inf", 0, 0)
        [] d.comb = 31 -> Word(d.neg, word, coeff, IF coeff = 0 THEN 0 ELSE places)
        [] d.comb < 30 -> FiniteText(d.neg, coeff, places, Unbiased(d))

----------------------------------------------------------------------------
(* decPackedFromNumber and decPackedToNumber.  A packed decimal is its     *)
(* digits, the lowest first, two to a byte but for the sign, and a scale.  *)

Packed(digits, sign, scale) == [ digits |-> digits, sign |-> sign, scale |-> scale ]

CanPack(dn, length) == dn.digits <= 2 * length - 1 /\ ~IsSpecial(dn)

PackedFromNumber(dn, length) ==
  Packed([ i \in 1..(2 * length - 1) |->
             IF i > dn.digits THEN 0 ELSE (dn.coeff \div Ten[i - 1]) % 10 ],
         IF dn.neg THEN 13 ELSE 12, -dn.exponent)

\* Mutation: the first byte that is not zero has two digits.
DigitCountInBytes(bcd) ==
  LET top == Max({0} \cup { i \in DOMAIN bcd.digits : bcd.digits[i] # 0 })
  IN  IF top = 0 \/ top % 2 = 1 THEN top ELSE top + 1

DigitCount(bcd) == Max({0} \cup { i \in DOMAIN bcd.digits : bcd.digits[i] # 0 })

\* The test of the adjusted exponent, apart for either sign of the scale.
ScaleFails(digits, scale) ==
  IF scale >= 0 THEN digits - scale - 1 < -DECNUMMAXE
  ELSE scale < -DECNUMMAXE \/ digits - scale - 1 > DECNUMMAXE

CanUnpack(bcd) ==
  /\ bcd.sign > 9
  /\ ~ScaleFails(Larger(1, DigitCount(bcd)), bcd.scale)
  /\ \A i \in 1..DigitCount(bcd) : bcd.digits[i] <= 9

PackedToNumber(bcd) ==
  LET count == DigitCount(bcd)
      coeff == MapThenSumSet(LAMBDA i : bcd.digits[i] * Ten[i - 1],
                             { i \in 1..count : bcd.digits[i] # 0 })
  IN  [ Finite(bcd.sign \in {11, 13}, coeff, -bcd.scale)
          EXCEPT !.digits = Larger(1, count) ]

----------------------------------------------------------------------------
(* The program.                                                            *)

VARIABLES
  set,             \* its context
  dn,              \* the number it holds
  text,            \* the string it holds
  d,               \* the encoding it holds
  bcd,             \* the packed decimal it holds
  last,            \* what the last conversion was given
  calls            \* the number of conversions

vars == <<set, dn, text, d, bcd, last, calls>>

Init == /\ set \in { Context(9, 999, -999, round, 0, {}) : round \in Rounds }
        /\ dn \in Numbers /\ text \in Numerals
        /\ d \in Encodings /\ bcd \in Packings
        /\ last = [ op |-> "none" ]
        /\ calls = 0

Step == calls < MaxCalls /\ calls' = calls + 1

\* Bounds the digits of what is folded down, or is the largest number.
Bounded(digits, exponent, fmt) ==
  /\ digits <= MaxDigits
  /\ \/ Pmax[fmt] <= MaxDigits
     \/ exponent + Bias[fmt] - Ehigh[fmt] + digits <= MaxDigits

Encode ==
  /\ Step
  /\ \E fmt \in Formats :
       /\ Bounded(dn.digits, dn.exponent, fmt)
       /\ \E res \in { FromNumber(dn, fmt, set.round) } :
            /\ d' = res.d
            /\ set' = SetStatus(set, res.status)
            /\ last' = [ op |-> "encode", dn |-> dn, status |-> res.status ]
  /\ UNCHANGED <<dn, text, bcd>>

Read ==
  /\ Step
  /\ \E fmt \in Formats :
       /\ Bounded(GetDigits(text.coeff), NumeralExponent(text), fmt)
       /\ \E number \in { FormatNumber(text, fmt, set.round) } :
          \E res \in { FromNumber(number.dn, fmt, set.round) } :
            LET status == number.status \cup res.status
            IN  /\ d' = res.d
                /\ set' = SetStatus(set, status)
                /\ last' = [ op |-> "read", status |-> status ]
  /\ UNCHANGED <<dn, text, bcd>>

Write ==
  /\ Step
  /\ text' = EncodingText(d)
  /\ last' = [ op |-> "write" ]
  /\ UNCHANGED <<set, dn, d, bcd>>

MakeCanonical ==
  /\ Step
  /\ d' = Canonical(d)
  /\ last' = [ op |-> "canonical" ]
  /\ UNCHANGED <<set, dn, text, bcd>>

Decode ==
  /\ Step
  /\ dn' = ToNumber(d)
  /\ last' = [ op |-> "decode" ]
  /\ UNCHANGED <<set, text, d, bcd>>

\* What does not fit leaves the packed decimal as it is.
Pack ==
  Step /\ \E length \in Lengths :
            /\ bcd' = IF CanPack(dn, length) THEN PackedFromNumber(dn, length) ELSE bcd
            /\ last' = [ op |-> "pack", dn |-> dn, fits |-> CanPack(dn, length) ]
            /\ UNCHANGED <<set, dn, text, d>>

\* What is not a packed decimal leaves a zero.
Unpack ==
  /\ Step
  /\ dn' = IF CanUnpack(bcd) THEN PackedToNumber(bcd) ELSE Zero
  /\ last' = [ op |-> "unpack", bcd |-> bcd, fits |-> CanUnpack(bcd) ]
  /\ UNCHANGED <<set, text, d, bcd>>

Next == Encode \/ Read \/ Write \/ MakeCanonical \/ Decode \/ Pack \/ Unpack

Spec == Init /\ [][Next]_vars

----------------------------------------------------------------------------
(* Properties.                                                             *)

RoundingContext(fmt) == [ FormatContext[fmt] EXCEPT !.round = set.round ]

Wide == Context(9, DEC_MAX_EMAX, DEC_MIN_EMIN, set.round, 0, {})

\* What an encoding holds is the number rounded once to the format, with the
\* flags of that rounding and the sign of a zero, whether it took a plus to
\* reduce it or a fold-down of its exponent; a special value with room for its
\* payload is held as it is.  A string that is encoded directly is the same as
\* one converted at full length first, although its digits are fitted twice.
EncodingIsRounded ==
  CASE last.op = "encode" /\ ~IsSpecial(last.dn) ->
         [ dn |-> ToNumber(d), status |-> last.status ]
           = RoundedOnce(last.dn.neg, last.dn.coeff, last.dn.exponent,
                         RoundingContext(d.fmt))
    [] last.op = "encode" /\ IsSpecial(last.dn) ->
         IF last.dn.digits < Pmax[d.fmt]
           THEN ToNumber(d) = last.dn /\ last.status = {}
           ELSE IsNaN(ToNumber(d)) /\ ToNumber(d).neg = last.dn.neg
    [] last.op = "read" /\ text.word = "" /\ ~IsMalformed(text, Wide) ->
         \A number \in { NumberFromString(text, Wide) } :
           [ d |-> d, status |-> last.status ]
             = FromNumber(number.dn, d.fmt, set.round)
    [] OTHER -> TRUE

\* Bits that mean nothing: two of each declet of three large digits, the
\* exponent continuation of a special value but for the bit of a signalling
\* NaN, the digits of an infinity.
IsSpare(dpd) == dpd % 16 >= 14 /\ (dpd \div 32) % 4 = 3 /\ dpd >= 256

HasSpareBits(e) ==
  \/ \E n \in DOMAIN e.declets : IsSpare(e.declets[n])
  \/ e.comb = 31 /\ e.cont \notin { 0, 2^(EconL[e.fmt] - 1) }
  \/ e.comb = 30 /\ (e.cont # 0 \/ e.declets # NoDigits(e.fmt))

\* Every encoding, whatever its bits, stands for one number: its text, made
\* from the fields, is the text of the number it decodes to; its canonical form
\* decodes to that number too, is what its text is read back as, and differs
\* from it exactly in the bits that mean nothing.
EncodingIsFaithful ==
  \A number \in { ToNumber(d) }, canonical \in { Canonical(d) } :
    /\ ToNumber(canonical) = number
    /\ IsCanonical(d) <=> ~HasSpareBits(d)
    /\ \A numeral \in { EncodingText(d) } :
         /\ numeral = ToString(number, FALSE)
         /\ \A back \in { FormatNumber(numeral, d.fmt, set.round) } :
              FromNumber(back.dn, d.fmt, set.round).d = canonical

AdjustedExponent(number) == number.exponent + number.digits - 1

\* A number that has been packed is unpacked as the same number, its sign,
\* leading digits and scale included, if its adjusted exponent is in range
\* (that of a subnormal may not be); a packed decimal that has been unpacked
\* is packed into the same bytes again, but for an alternative sign.
PackedRoundTrip ==
  CASE last.op = "pack" /\ last.fits ->
         IF AdjustedExponent(last.dn) >= -DECNUMMAXE
           THEN CanUnpack(bcd) /\ PackedToNumber(bcd) = last.dn
           ELSE ~CanUnpack(bcd)
    [] last.op = "unpack" /\ last.fits ->
         PackedFromNumber(dn, (Len(bcd.digits) + 1) \div 2)
           = [ bcd EXCEPT !.sign = IF @ \in {11, 13} THEN 13 ELSE 12 ]
    [] OTHER -> TRUE
=============================================================================
