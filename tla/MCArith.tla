------------------------------ MODULE MCArith -------------------------------
(***************************************************************************)
(* One arithmetic call on every pair of operands, in every rounding mode.  *)
(***************************************************************************)
EXTENDS PowerCorrect

\* Coefficients around the half-way points, the all-nines and the powers of
\* ten of two- and three-digit contexts, some longer than the precision;
\* quotients that end, that repeat, and ties.
MCNumbers ==
  { Finite(neg, c, e) : neg \in BOOLEAN, e \in {-3, 0, 1},
                        c \in { 0, 1, 5, 8, 49, 95, 99, 100, 995 } }

\* The contexts of one digit are those for powers, which need three or more
\* digits inside.
MCContexts ==
  { Context(digits, 2, -2, round, clamp, {}) :
      digits \in {2, 3}, round \in Roundings, clamp \in {0, 1} }
  \cup { Context(1, 6, -6, round, 0, {}) : round \in {"HALF_UP", "CEILING"} }

MCOperations == { "plus", "neg", "abs", "add", "sub", "mul", "quantize",
                  "divide", "remainder", "remaindernear", "mod",
                  "squareroot", "power" }

\* Radicands, too far from the numbers for a call on both: from them only the
\* functions of one operand start.
MCRadicands == { Finite(FALSE, c, e) : c \in 1..999, e \in {-14, -13} }
MCRootContexts ==
  { Context(digits, 12, -12, round, 0, {}) :
      digits \in {2, 3}, round \in {"HALF_UP", "FLOOR"} }

\* A subnormal number of the context, whose inverse overflows.
MCInverted == { Finite(FALSE, 1, -8), Finite(FALSE, 2, 0), Finite(TRUE, 1, 0) }
MCThreeDigits == { Context(3, 6, -6, "HALF_EVEN", 0, {}) }
MCPowers == { "power" }

MCInit == \/ Init
          \/ /\ dc \in MCRootContexts /\ acc \in MCRadicands
             /\ last = NoCall /\ calls = 0
MCSpec == MCInit /\ [][Next]_vars
=============================================================================
