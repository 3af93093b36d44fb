----------------------------- MODULE MCSession ------------------------------
(***************************************************************************)
(* Scripts of a few calls that mix arithmetic with every context method.   *)
(***************************************************************************)
EXTENDS LuaSession

\* 99 and 95 round up at two digits or one; 5E-3 is below the range, 9E+3
\* near its top; an infinity and a signalling NaN raise Invalid_operation.
MCNumbers ==
  { Finite(FALSE, 99, 0), Finite(TRUE, 995, -1), Finite(FALSE, 5, -3),
    Finite(FALSE, 9, 3), Infinity(TRUE), Number("sNaN", FALSE, 7, 0) }

MCContexts == { Context(2, 3, -2, "HALF_EVEN", 1, {}) }

MCOperations == { "add", "sub", "mul", "plus", "nextplus", "trim", "eq" }

MCSettings ==
  { <<"digits", 1>>, <<"digits", 0>>, <<"digits", 70>>, <<"emax", 2>>,
    <<"emin", -1>>, <<"emin", 1>>, <<"round", "UP">>, <<"clamp", 0>>,
    <<"traps", {}>>, <<"traps", DEC_Errors>>, <<"status", {}>>,
    <<"status", {"Inexact", "Overflow"}>>, <<"status", {"bit8"}>>,
    <<"status", {"Underflow", "Subnormal"}>> }

MCKinds == { "BASE", "DECIMAL32", "unknown" }

MCStrings == { "Subnormal", "Invalid_operation", "Multiple status" }

\* Three digits that round to two, an overflow, and what is not a numeral.
MCTexts ==
  { Plain(TRUE, 125, 4, 1), WithPower(Plain(FALSE, 1, 1, 0), FALSE, <<9>>),
    [ Plain(FALSE, 1, 1, 0) EXCEPT !.mark = TRUE ] }
=============================================================================
