---------------------------- MODULE MCInterchange -----------------------------
(***************************************************************************)
(* Conversions between numbers, encodings and packed decimals.             *)
(***************************************************************************)
EXTENDS Interchange

\* All digits of decimal32, one more of them, half-way points, top
\* digits of 8 and 9; exponents at and past both ends of its range.
MCFinite ==
  { Finite(neg, c, e) :
      neg \in BOOLEAN,
      c \in { 0, 1, 8000000, 9999999, 12345675, 99999995 },
      e \in { -400, -109, -102, -101, -100, -95, 0, 90, 91, 97 } }
MCSpecials ==
  { Infinity(TRUE), Number("qNaN", FALSE, 0, 0), Number("sNaN", TRUE, 888, 0),
    Number("qNaN", TRUE, 999999, 0), Number("sNaN", FALSE, 1234567, 0),
    Number("sNaN", FALSE, 12345678, 0) }

\* At and past the ends of the range of decimal128.
MCExtreme ==
  { Finite(neg, c, e) : neg \in BOOLEAN, c \in { 0, 987 },
      e \in { -6190, -6178, -6177, -6176, -6175, -6143, 6110, 6111, 6112, 6115, 6200 } }

MCNumbers == MCFinite \cup MCExtreme \cup MCSpecials

\* Every combination field with continuations at both ends, about the exponent
\* zero and with the bit of a signalling NaN; declets of zero, of small, large
\* and mixed digits, and with bits that mean nothing.
MCDeclets == { 0, 5, 622, 1023 }
MCEncodings ==
  { Encoding("DECIMAL32", FALSE, comb, cont, declets) :
      comb \in 0..31, cont \in { 0, 27, 37, 63 },
      declets \in { <<0, 0>>, <<5, 1023>>, <<622, 0>>, <<1023, 1023>>, <<0, 1023>> } }
  \cup
  { Encoding("DECIMAL32", TRUE, comb, cont, <<low, 0>>) :
      comb \in { 0, 13, 25, 30, 31 }, cont \in { 0, 37, 63 }, low \in MCDeclets }
  \cup
  { Encoding(fmt, FALSE, comb, cont, [ NoDigits(fmt) EXCEPT ![1] = low, ![2] = high ]) :
      fmt \in { "DECIMAL64", "DECIMAL128" }, comb \in { 0, 8, 16, 30, 31 },
      cont \in { 0, 128, 142, 143, 255 }, low \in MCDeclets, high \in {0, 622} }
  \cup
  { Encoding("DECIMAL128", TRUE, comb, cont, [ NoDigits("DECIMAL128") EXCEPT ![1] = low ]) :
      comb \in { 0, 8, 16, 30, 31 }, cont \in { 2047, 2048, 2076, 2080, 4095 },
      low \in MCDeclets }
Plainest == Encoding("DECIMAL32", FALSE, 8, 37, <<0, 0>>)

MCDigits == { 0, 9, 10 }
MCPackings ==
  { Packed(<<a, b, c>>, sign, scale) :
      a \in MCDigits, b \in MCDigits, c \in MCDigits, sign \in {9, 10, 11, 13},
      scale \in { -1000000000, -999999998, -999999997, 3, 999999999, 1000000000, 1000000002 } }
Simplest == Packed(<<1>>, 12, 0)
OneText == Plain(FALSE, 1, 1, 0)

\* Digits that are fitted to seven, exponents that fold down and overflow.
MCNumerals ==
  { WithPower(Plain(TRUE, 12345675, 8, 3), minus, power) :
      minus \in BOOLEAN, power \in { <<9, 2>>, <<9, 4>>, <<9, 6>>, <<9, 9>>, <<1, 0, 4>> } }
  \cup { WithPower(Plain(FALSE, c, 3, 0), FALSE, <<9, 0>>) : c \in { 0, 7, 120 } }
  \cup { Word(TRUE, "sNaN", 7, 1), Word(FALSE, "NaN", 1234567, 7) }

MCRounds == { "HALF_EVEN", "CEILING", "05UP" }

\* A behaviour starts from one of the four, with the others simple.
MCInit ==
  /\ set \in { Context(9, 999, -999, round, 0, {}) : round \in Rounds }
  /\ \/ dn \in Numbers /\ text = OneText /\ d = Plainest /\ bcd = Simplest
     \/ dn = Zero /\ text \in Numerals /\ d = Plainest /\ bcd = Simplest
     \/ /\ set.round = "HALF_EVEN" /\ dn = Zero /\ text = OneText
        /\ d \in Encodings /\ bcd = Simplest
     \/ /\ set.round = "HALF_EVEN" /\ dn = Zero /\ text = OneText
        /\ d = Plainest /\ bcd \in Packings
  /\ last = [ op |-> "none" ]
  /\ calls = 0

MCSpec == MCInit /\ [][Next]_vars
=============================================================================
