-------------------------- MODULE InterchangeProofs --------------------------
(***************************************************************************)
(* Theorems about the fields of an encoding and of a packed decimal.       *)
(***************************************************************************)
EXTENDS Interchange, TLAPS

DecimalDigit == 0..9
TenBits == 0..1023

----------------------------------------------------------------------------
(* Declets.                                                                *)

\* The ten bits of a declet are read back as the fields they were put together
\* from.
LEMMA FieldsOfDeclet ==
  ASSUME NEW p \in 0..7, NEW s \in 0..7, NEW v \in 0..1, NEW w \in 0..7
  PROVE  /\ Declet(p, s, v, w) \in TenBits
         /\ DPD2BIN[Declet(p, s, v, w)] = FieldsToBin(p, s, v, w)
<1> DEFINE dpd == 128 * p + 16 * s + 8 * v + w
<1>1. p % 8 = p /\ s % 8 = s /\ w % 8 = w
  OBVIOUS
<1>2. Declet(p, s, v, w) = dpd
  BY <1>1 DEF Declet
<1>3. dpd \in 0..1023
  OBVIOUS
<1>4. dpd \div 128 = p
  OBVIOUS
<1>5. (dpd \div 16) % 8 = s
  <2>1. dpd \div 16 = 8 * p + s
    OBVIOUS
  <2> QED
    BY <2>1
<1>6. (dpd \div 8) % 2 = v
  <2>1. dpd \div 8 = 16 * p + 2 * s + v
    OBVIOUS
  <2> QED
    BY <2>1
<1>7. dpd % 8 = w
  OBVIOUS
<1> HIDE DEF dpd
<1> QED
  BY <1>2, <1>3, <1>4, <1>5, <1>6, <1>7 DEF DPD2BIN, TenBits

\* The bits of a digit: three when it is small, one when it is large.
LEMMA BitsOfDigit ==
  ASSUME NEW digit \in DecimalDigit
  PROVE  /\ Last(digit) \in 0..1
         /\ Small(digit) => digit \in 0..7
         /\ ~Small(digit) => Large(digit) = digit
         /\ Small(digit) => /\ Pair(digit) \in {0, 2, 4, 6}
                            /\ Pair(digit) + Last(digit) = digit
BY DEF DecimalDigit, Last, Small, Large, Pair

\* A field of two bits and one other bit.
LEMMA FieldOfBits ==
  ASSUME NEW pair \in {0, 2, 4, 6}, NEW bit \in 0..1
  PROVE  /\ pair + bit \in 0..7
         /\ Pair(pair + bit) = pair
         /\ Last(pair + bit) = bit
         /\ (pair + bit) \div 2 = pair \div 2
BY DEF Pair, Last

\* Three digits are read back from their declet, whichever of them are large.
LEMMA DecletOfDigits ==
  ASSUME NEW a \in DecimalDigit, NEW b \in DecimalDigit, NEW c \in DecimalDigit
  PROVE  /\ DigitsToDeclet(a, b, c) \in TenBits
         /\ DPD2BIN[DigitsToDeclet(a, b, c)] = Three(a, b, c)
<1> DEFINE Holds(p, s, v, w) ==
             /\ DigitsToDeclet(a, b, c) = Declet(p, s, v, w)
             /\ p \in 0..7 /\ s \in 0..7 /\ v \in 0..1 /\ w \in 0..7
             /\ FieldsToBin(p, s, v, w) = Three(a, b, c)
<1>1. SUFFICES \E p, s, v, w : Holds(p, s, v, w)
  <2>1. PICK p, s, v, w : Holds(p, s, v, w)
    BY <1>1
  <2>2. /\ Declet(p, s, v, w) \in TenBits
        /\ DPD2BIN[Declet(p, s, v, w)] = FieldsToBin(p, s, v, w)
    <3>1. p \in 0..7 /\ s \in 0..7 /\ v \in 0..1 /\ w \in 0..7
      BY <2>1
    <3> HIDE DEF Holds
    <3> QED BY <3>1, FieldsOfDeclet
  <2> QED
    BY <2>1, <2>2
<1>2. CASE Small(a) /\ Small(b) /\ Small(c)
  <2>1. Holds(a, b, 0, c)
    BY <1>2, BitsOfDigit, FieldOfBits DEF DigitsToDeclet, FieldsToBin, From, Large
  <2> QED
    BY <2>1
<1>3. CASE Small(a) /\ Small(b) /\ ~Small(c)
  <2>1. Holds(a, b, 1, Last(c))
    BY <1>3, BitsOfDigit, FieldOfBits DEF DigitsToDeclet, FieldsToBin, From, Large
  <2> QED
    BY <2>1
<1>4. CASE Small(a) /\ ~Small(b) /\ Small(c)
  <2>1. Holds(a, Pair(c) + Last(b), 1, 2 + Last(c))
    BY <1>4, BitsOfDigit, FieldOfBits DEF DigitsToDeclet, FieldsToBin, From, Large
  <2> QED
    BY <2>1
<1>5. CASE ~Small(a) /\ Small(b) /\ Small(c)
  <2>1. Holds(Pair(c) + Last(a), b, 1, 4 + Last(c))
    BY <1>5, BitsOfDigit, FieldOfBits DEF DigitsToDeclet, FieldsToBin, From, Large
  <2> QED
    BY <2>1
<1>6. CASE ~Small(a) /\ ~Small(b) /\ Small(c)
  <2>1. Holds(Pair(c) + Last(a), Last(b), 1, 6 + Last(c))
    BY <1>6, BitsOfDigit, FieldOfBits DEF DigitsToDeclet, FieldsToBin, From, Large
  <2> QED
    BY <2>1
<1>7. CASE ~Small(a) /\ Small(b) /\ ~Small(c)
  <2>1. Holds(Pair(b) + Last(a), 2 + Last(b), 1, 6 + Last(c))
    BY <1>7, BitsOfDigit, FieldOfBits DEF DigitsToDeclet, FieldsToBin, From, Large
  <2> QED
    BY <2>1
<1>8. CASE Small(a) /\ ~Small(b) /\ ~Small(c)
  <2>1. Holds(a, 4 + Last(b), 1, 6 + Last(c))
    BY <1>8, BitsOfDigit, FieldOfBits DEF DigitsToDeclet, FieldsToBin, From, Large
  <2> QED
    BY <2>1
<1>9. CASE ~Small(a) /\ ~Small(b) /\ ~Small(c)
  <2>1. Holds(Last(a), 6 + Last(b), 1, 6 + Last(c))
    BY <1>9, BitsOfDigit, FieldOfBits DEF DigitsToDeclet, FieldsToBin, From, Large
  <2> QED
    BY <2>1
<1> QED
  BY <1>2, <1>3, <1>4, <1>5, <1>6, <1>7, <1>8, <1>9

\* Every three digits survive their declet, so the tables of decDPD.h lose
\* nothing: what decDigitsToDPD packs decDigitsFromDPD unpacks.
THEOREM DecletsLoseNothing ==
  \A bin \in 0..999 : /\ BIN2DPD[bin] \in TenBits
                      /\ DPD2BIN[BIN2DPD[bin]] = bin
<1> SUFFICES ASSUME NEW bin \in 0..999
             PROVE  /\ BIN2DPD[bin] \in TenBits
                    /\ DPD2BIN[BIN2DPD[bin]] = bin
  OBVIOUS
<1> DEFINE a == bin \div 100
           b == (bin \div 10) % 10
           c == bin % 10
<1>1. a \in DecimalDigit /\ b \in DecimalDigit /\ c \in DecimalDigit
  BY DEF DecimalDigit
<1>2. BIN2DPD[bin] = DigitsToDeclet(a, b, c)
  BY DEF BIN2DPD
<1>3. Three(a, b, c) = bin
  <2>1. bin = 10 * (bin \div 10) + c
    OBVIOUS
  <2>2. bin \div 10 = 10 * ((bin \div 10) \div 10) + b
    OBVIOUS
  <2>3. (bin \div 10) \div 10 = a
    OBVIOUS
  <2> QED
    BY <2>1, <2>2, <2>3 DEF Three
<1> HIDE DEF a, b, c
<1> QED
  BY <1>1, <1>2, <1>3, DecletOfDigits

----------------------------------------------------------------------------
(* The combination field.                                                  *)

\* The top digit and the top two bits of the exponent share five bits, and both
\* are read back from them; the field is never one of the two that mark an
\* infinity and a NaN.  (Of an exponent from zero to Ehigh the top bits are not
\* both set.)
THEOREM CombinationIsReadBack ==
  ASSUME NEW msd \in DecimalDigit, NEW top \in 0..2
  PROVE  /\ Comb(msd, top) \in 0..29
         /\ COMBMSD(Comb(msd, top)) = msd
         /\ COMBEXP(Comb(msd, top)) = top
<1>1. CASE msd >= 8
  <2>1. Comb(msd, top) = 24 + 2 * top + Last(msd)
    BY <1>1 DEF Comb
  <2>2. Last(msd) \in 0..1 /\ msd = 8 + Last(msd)
    BY <1>1 DEF Last, DecimalDigit
  <2> QED
    BY <2>1, <2>2 DEF COMBMSD, COMBEXP, Last
<1>2. CASE msd < 8
  BY <1>2 DEF Comb, COMBMSD, COMBEXP, DecimalDigit
<1> QED
  BY <1>1, <1>2 DEF DecimalDigit

----------------------------------------------------------------------------
(* Packed decimals.                                                        *)

\* The two tests of a scale in decPackedToNumber, which are split so that
\* neither overflows an int, refuse exactly the packed decimals whose adjusted
\* exponent a number cannot have.
THEOREM ScaleTestsAreExact ==
  \A digits \in 1..DECNUMMAXE + 1, scale \in Int :
    ScaleFails(digits, scale)
      <=> digits - scale - 1 \notin -DECNUMMAXE..DECNUMMAXE
<1>1. DECNUMMAXE \in Nat
  BY SMT DEF DECNUMMAXE
<1> SUFFICES ASSUME NEW digits \in 1..DECNUMMAXE + 1, NEW scale \in Int
             PROVE  ScaleFails(digits, scale)
                      <=> digits - scale - 1 \notin -DECNUMMAXE..DECNUMMAXE
  OBVIOUS
<1>2. CASE scale >= 0
  BY SMT, <1>1, <1>2 DEF ScaleFails
<1>3. CASE scale < 0
  BY SMT, <1>1, <1>3 DEF ScaleFails
<1> QED
  BY SMT, <1>2, <1>3
=============================================================================
