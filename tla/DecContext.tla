----------------------------- MODULE DecContext -----------------------------
(***************************************************************************)
(* The decimal context of decNumber (decContext.h, decContext.c): the      *)
(* precision, the exponent range, the rounding mode, the clamp flag, the   *)
(* trap-enabler and the sticky status.  Flag words are sets of flag names; *)
(* C's (a | b) is union, (a & b) is intersection.                          *)
(***************************************************************************)
EXTENDS Integers, FiniteSetsExt

Roundings == { "CEILING", "UP", "HALF_UP", "HALF_EVEN", "HALF_DOWN", "DOWN",
               "FLOOR", "05UP" }

\* The flags whose presence in the status turns a result into a quiet NaN.
DEC_NaNs == { "Conversion_syntax", "Division_impossible", "Division_undefined",
              "Insufficient_storage", "Invalid_context", "Invalid_operation" }

DEC_Errors == DEC_NaNs \cup { "Division_by_zero", "Overflow", "Underflow" }

DEC_Information == { "Clamped", "Rounded", "Inexact" }

\* Every status bit an operation can leave in a context (Subnormal is in
\* neither of the two groups above).
Flags == DEC_Errors \cup DEC_Information \cup { "Subnormal" }

\* The value of a flag in the status word (decContext.h); bit 8 has no name
\* in a build without subset arithmetic.
FlagBit(flag) ==
  CASE flag = "Conversion_syntax"    -> 1
    [] flag = "Division_by_zero"     -> 2
    [] flag = "Division_impossible"  -> 4
    [] flag = "Division_undefined"   -> 8
    [] flag = "Insufficient_storage" -> 16
    [] flag = "Inexact"              -> 32
    [] flag = "Invalid_context"      -> 64
    [] flag = "Invalid_operation"    -> 128
    [] flag = "bit8"                 -> 256
    [] flag = "Overflow"             -> 512
    [] flag = "Clamped"              -> 1024
    [] flag = "Rounded"              -> 2048
    [] flag = "Subnormal"            -> 4096
    [] flag = "Underflow"            -> 8192

StatusWord(flags) == MapThenSumSet(FlagBit, flags)

\* The internal mark "the NaN comes from a signalling NaN"; it lives in the
\* status accumulator of one operation and is removed by decStatus.
DEC_sNaN == "sNaN"

DEC_MAX_EMAX == 999999999
DEC_MIN_EMIN == -999999999

Context(digits, emax, emin, round, clamp, traps) ==
  [ digits |-> digits, emax |-> emax, emin |-> emin, round |-> round,
    clamp |-> clamp, traps |-> traps, status |-> {} ]

\* Mutation: the status is assigned.
SetStatusAssigned(ctx, flags) == [ ctx EXCEPT !.status = flags ]

\* decContextSetStatus: the flags are or-ed in, and a signal is raised when
\* one of the new flags is trap-enabled.
SetStatus(ctx, flags) == [ ctx EXCEPT !.status = @ \cup flags ]
Raises(ctx, flags) == flags \cap ctx.traps # {}

\* decContextDefault: an unknown kind gets the BASE values and the
\* Invalid_operation status, set while every error is trap-enabled.
ContextDefault(kind) ==
  LET base == Context(9, DEC_MAX_EMAX, DEC_MIN_EMIN, "HALF_UP", 0, DEC_Errors)
  IN  CASE kind = "BASE"       -> base
        [] kind = "DECIMAL32"  -> Context(7, 96, -95, "HALF_EVEN", 1, {})
        [] kind = "DECIMAL64"  -> Context(16, 384, -383, "HALF_EVEN", 1, {})
        [] kind = "DECIMAL128" -> Context(34, 6144, -6143, "HALF_EVEN", 1, {})
        [] OTHER               -> SetStatus(base, {"Invalid_operation"})

\* The smallest exponent a subnormal result can have in context set.
Etiny(set) == set.emin - (set.digits - 1)

\* The largest exponent of a result with all of the context's digits.
Etop(set) == set.emax - set.digits + 1
=============================================================================
