---------------------------- MODULE MCManipulation ----------------------------
(***************************************************************************)
(* One operation on the representation of every number or pair of numbers. *)
(***************************************************************************)
EXTENDS ManipulationCorrect, TextCorrect

\* All nines, trailing zeros, equal numbers of different exponents, logical
\* digits, a number of more digits than the precision, the first of them logical
\* at three and not at four; the integers among them are the counts of shift,
\* rotate and scaleb.
MCValues ==
  { Finite(neg, c, e) : neg \in BOOLEAN, e \in {-3, 0, 1},
                        c \in { 0, 1, 3, 10, 99, 101, 990, 12101 } }

\* What only scaleb gets: counts of ten digits (more than TLC's integers let
\* GetDigits count), with the exponents of MCFar in the Int, at its end and
\* outside.
MCCounts == { [ Finite(TRUE, 0, 0) EXCEPT !.coeff = c, !.digits = 10 ] :
                c \in { 1999999997, 1147483645, 1147483646 } }

MCNumbers == MCValues \cup MCCounts

\* With a clear status, with one left by earlier calls, and with one that
\* makes a NaN of whatever is judged by it.
MCContexts ==
  { Context(digits, 3, -1, round, clamp, {}) :
      digits \in {3, 4}, round \in {"HALF_EVEN", "FLOOR"}, clamp \in {0, 1} }
  \cup { [ Context(3, 3, -1, "HALF_EVEN", 0, {}) EXCEPT !.status = status ] :
            status \in { {"Inexact", "Rounded", "Overflow", "Subnormal", "Underflow"},
                         {"Division_by_zero", "Invalid_operation"} } }

MCOperations == { "nextplus", "nextminus", "nexttoward", "rotate", "shift",
                  "scaleb", "land", "lor", "xor", "invert", "tointegralexact",
                  "tointegralvalue", "fma", "compare", "max", "min", "class",
                  "tostring", "toengstring" }

\* What only the conversions get: digits with leading zeros and a point, an
\* exponent at the edges of the contexts, one with many zeros, and those about
\* the end of an Int; words, and what is not a numeral.
MCPowers ==
  { <<d>> : d \in 0..7 }
  \cup { <<1, 0, 0, 0, 0, 0, 0, 0, 0, d>> : d \in 0..6 }
  \cup { <<0, 0, 0, 0, 0, 0, 0, 0, 0, 0, 0, 2>>, <<>>,
         <<2, 0, 0, 0, 0, 0, 0, 0, 0, 0>>, <<4, 2, 9, 4, 9, 6, 7, 2, 9, 7>>,
         <<0, 1, 0, 0, 0, 0, 0, 0, 0, 0, 3>>,
         <<1, 0, 0, 0, 0, 0, 0, 0, 0, 0, 0, 0>> }
MCDigits ==
  { Plain(FALSE, c, 7, f) : c \in { 0, 5, 9995, 9996, 12500 }, f \in { 0, 4 } }
MCWords ==
  { Word(TRUE, "inf", 0, 0), Word(FALSE, "NaN", 0, 3), Word(TRUE, "NaN", 101, 5),
    Word(FALSE, "sNaN", 7, 1), Word(FALSE, "NaN", 99999, 5) }
MCNumerals ==
  MCDigits \cup MCWords
  \cup { WithPower(n, minus, p) : n \in MCDigits, minus \in BOOLEAN, p \in MCPowers }
  \cup { Plain(TRUE, 0, 0, 0), [ Plain(TRUE, 12, 2, 1) EXCEPT !.rest = TRUE ] }

\* The contexts of only those, and the numbers of only the questions: exponents
\* too far from the others for a call on two of them.
MCFar == { Finite(neg, c, e) : neg \in BOOLEAN, c \in { 0, 4, 104 },
                               e \in (-12..-9) \cup { -1000000003, -999999999, 999999997 } }
MCTextContexts ==
  { Context(4, emax, emin, round, clamp, {}) :
      emax \in { 6, DEC_MAX_EMAX }, emin \in { -5, DEC_MIN_EMIN },
      round \in { "HALF_EVEN", "UP" }, clamp \in { 0, 1 } }

\* A product of six digits and an addend that overlaps its last digit.
MCFactors == { Finite(FALSE, 104, 0), Finite(FALSE, 976, 0), Finite(TRUE, 999, -2) }
MCThreeDigits == { Context(3, 9, -9, "HALF_EVEN", 0, {}) }
MCFused == { "fma" }

\* The context setdefault(INIT_BASE) gives, and the numbers at the bottom of its
\* range.  (A thread starts with DECIMAL128, whose numbers all are above Tiny.)
MCBase == { DefaultFor("BASE") }
MCTiniest == { Zero, Finite(FALSE, 1, -1000000007), Finite(FALSE, 1, -999999000) }
MCNext == { "nextplus", "nextminus" }

MCInit == \/ Init /\ acc \in MCValues
          \/ /\ dc \in MCTextContexts /\ acc \in MCFar
             /\ last = NoCall /\ calls = 0
MCSpec == MCInit /\ [][Next]_vars
=============================================================================
