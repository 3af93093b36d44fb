----------------------------- MODULE LuaSession -----------------------------
(***************************************************************************)
(* One Lua thread using ldecNumber.c: a script holds a decNumber value acc *)
(* and the decContext dc of its thread, and interleaves, in any order,     *)
(* arithmetic calls on the value (the DN_OP1 and DN_OP2 functions) with    *)
(* calls of the context methods.  Every arithmetic call makes a fresh      *)
(* result and ors its status into the context; a context method either     *)
(* changes a field or raises a Lua error and changes nothing.              *)
(***************************************************************************)
EXTENDS DecString

CONSTANTS
  Numbers,        \* the decNumber values the script has at hand
  Contexts,       \* the contexts a thread may start with
  Operations,     \* the arithmetic functions the script calls
  Settings,       \* the <<field, value>> pairs it passes to the setters
  Kinds,          \* the kinds it passes to setdefault
  Strings,        \* the conditions it passes to the status-string setter
  Numerals,       \* the strings it converts to numbers
  Texts,          \* the strings it passes as second or third operands
  DECNUMDIGITS,   \* the digits a decNumber has room for (69 in the build)
  MaxDigits,      \* bound on the digits of an exact sum or product
  MaxCalls        \* bound on the length of the script

Fields == { "digits", "emax", "emin", "round", "clamp", "traps", "status" }

\* The ranges the setters keep a context in.
Ranged(set) ==
  /\ set.digits \in 1..DECNUMDIGITS
  /\ set.emax \in 0..DEC_MAX_EMAX
  /\ set.emin \in DEC_MIN_EMIN..0
  /\ set.round \in Roundings
  /\ set.clamp \in {0, 1}

\* What the C structure can hold, as far as the code relies on it; a script
\* has no way to enable a trap.  setdefault checks no range: the numbers of a
\* build must have room for the 34 digits of the largest kind, and exponents
\* for its 6144.
ASSUME SessionAssumption ==
  /\ \A set \in Contexts :
       set = [ field \in Fields |-> set[field] ] /\ set.traps = {} /\ Ranged(set)
  /\ \A setting \in Settings : setting[1] \in Fields
  /\ DECNUMDIGITS \in Nat /\ MaxDigits \in Nat /\ MaxCalls \in Nat
  /\ DECNUMDIGITS >= 34
  /\ DEC_MAX_EMAX \in Nat /\ DEC_MAX_EMAX >= 6144
  /\ DEC_MIN_EMIN \in Int /\ DEC_MIN_EMIN <= -6143

VARIABLES
  dc,             \* the decContext of the thread
  acc,            \* the decNumber the script computes with
  last,           \* what the last call was given and returned
  calls           \* the number of calls made

vars == <<dc, acc, last, calls>>

NoCall == [ op |-> "none" ]

Init == /\ dc \in Contexts
        /\ acc \in Numbers
        /\ last = NoCall
        /\ calls = 0

Step == calls < MaxCalls /\ calls' = calls + 1

----------------------------------------------------------------------------
(* Arithmetic calls.                                                       *)

Unary == { "plus", "neg", "abs", "normalize", "trim", "tointegralexact",
           "tointegralvalue", "nextplus", "nextminus", "logb", "invert",
           "copy", "copyabs", "copynegate", "squareroot" }

Apply1(op, rhs, set) ==
  CASE op = "plus"      -> NumberPlus(rhs, set)
    [] op = "neg"       -> NumberMinus(rhs, set)
    [] op = "abs"       -> NumberAbs(rhs, set)
    [] op = "normalize" -> NumberNormalize(rhs, set)
    [] op = "trim"      -> Quiet(NumberTrim(rhs))
    [] op = "tointegralexact" -> NumberToIntegralExact(rhs, set)
    [] op = "tointegralvalue" -> NumberToIntegralValue(rhs, set)
    [] op = "nextplus"  -> NumberNextPlus(rhs, set)
    [] op = "nextminus" -> NumberNextMinus(rhs, set)
    [] op = "logb"      -> NumberLogB(rhs, set)
    [] op = "invert"    -> NumberInvert(rhs, set)
    [] op = "copy"      -> NumberCopy(rhs)
    [] op = "copyabs"   -> NumberCopyAbs(rhs)
    [] op = "copynegate" -> NumberCopyNegate(rhs)
    [] op = "squareroot" -> NumberSquareRoot(rhs, set)

Apply2(op, lhs, rhs, set) ==
  CASE op = "add"      -> NumberAdd(lhs, rhs, set)
    [] op = "sub"      -> NumberSubtract(lhs, rhs, set)
    [] op = "mul"      -> NumberMultiply(lhs, rhs, set)
    [] op = "compare"  -> NumberCompare(lhs, rhs, set)
    [] op = "comparetotal"    -> NumberCompareTotal(lhs, rhs)
    [] op = "comparetotalmag" -> NumberCompareTotalMag(lhs, rhs)
    [] op = "max"      -> NumberMax(lhs, rhs, set)
    [] op = "min"      -> NumberMin(lhs, rhs, set)
    [] op = "maxmag"   -> NumberMaxMag(lhs, rhs, set)
    [] op = "minmag"   -> NumberMinMag(lhs, rhs, set)
    [] op = "quantize" -> NumberQuantize(lhs, rhs, set)
    [] op = "rescale"  -> NumberRescale(lhs, rhs, set)
    [] op = "divide"   -> NumberDivide(lhs, rhs, set)
    [] op = "divideinteger" -> NumberDivideInteger(lhs, rhs, set)
    [] op = "remainder"     -> NumberRemainder(lhs, rhs, set)
    [] op = "remaindernear" -> NumberRemainderNear(lhs, rhs, set)
    [] op = "mod"      -> Mod(lhs, rhs, set)
    [] op = "floor"    -> Floor(lhs, rhs, set)
    [] op = "nexttoward"  -> NumberNextToward(lhs, rhs, set)
    [] op = "shift"    -> NumberShift(lhs, rhs, set)
    [] op = "rotate"   -> NumberRotate(lhs, rhs, set)
    [] op = "scaleb"   -> NumberScaleB(lhs, rhs, set)
    [] op = "land"     -> NumberAnd(lhs, rhs, set)
    [] op = "lor"      -> NumberOr(lhs, rhs, set)
    [] op = "xor"      -> NumberXor(lhs, rhs, set)
    [] op = "copysign" -> NumberCopySign(lhs, rhs)
    [] op = "samequantum" -> NumberSameQuantum(lhs, rhs)
    [] op = "power"    -> NumberPower(lhs, rhs, set)

Relations == { "eq", "lt", "le" }
Ternary == { "fma" }
Questions == { "class", "isnormal", "issubnormal", "iszero", "isnegative",
               "isnan", "isqnan", "issnan", "isinfinite", "isfinite",
               "isspecial", "iscanonical", "radix", "tostring", "toengstring" }
Binary == Operations \ (Unary \cup Relations \cup Ternary \cup Questions)

\* Bounds the digits of the exact results TLC computes.
Bounded(lhs, rhs) ==
  lhs.digits + rhs.digits + Magnitude(lhs.exponent - rhs.exponent) <= MaxDigits

\* A scaled number has no more digits than it had.
OpBounded(op, lhs, rhs) == op = "scaleb" \/ Bounded(lhs, rhs)

\* Bounds the digits of the squares inside a power, and leaves out those that
\* take logarithms.
PowerBounded(lhs, rhs) ==
  IF GetInt(rhs) \subseteq { 0 } THEN HasPower(lhs, rhs)
  ELSE 2 * PowerContext(rhs, dc).digits <= MaxDigits

\* ldn_get: a decNumber operand is taken as it is, a string is converted in
\* the context, before the call, with its own status.  (A string as the first
\* operand is a Convert before the call.)
Arguments == { Quiet(dn) : dn \in Numbers }
               \cup { NumberFromString(numeral, dc) : numeral \in Texts }

\* A call gets the context and the operands, makes the result, computes.  The
\* status of the conversions and of the operation is or-ed into the context.
Return(op, rhs, fhs, flags, res) ==
  /\ acc' = res.dn
  /\ dc' = SetStatus(dc, flags \cup res.status)
  /\ last' = [ op |-> op, lhs |-> acc, rhs |-> rhs, fhs |-> fhs, set |-> dc,
               dn |-> res.dn, status |-> res.status ]

Call1 ==
  Step /\ \E op \in Operations \cap Unary :
            Return(op, Zero, Zero, {}, Apply1(op, acc, dc))

Call2 ==
  Step /\ \E op \in Binary, rhs \in Arguments :
            /\ OpBounded(op, acc, rhs.dn)
            /\ op = "power" => PowerBounded(acc, rhs.dn)
            /\ Return(op, rhs.dn, Zero, rhs.status,
                      Apply2(op, acc, rhs.dn, SetStatus(dc, rhs.status)))

\* The digits of the exact sum of a product and an addend.
FusedDigits(rhs, fhs) ==
  acc.digits + rhs.digits + fhs.digits
    + Magnitude(acc.exponent + rhs.exponent - fhs.exponent)

Call3 ==
  Step /\ \E op \in Operations \cap Ternary, rhs, fhs \in Arguments :
            /\ FusedDigits(rhs.dn, fhs.dn) <= MaxDigits
            /\ Return(op, rhs.dn, fhs.dn, rhs.status \cup fhs.status,
                 NumberFMA(acc, rhs.dn, fhs.dn,
                           SetStatus(dc, rhs.status \cup fhs.status)))

\* dn_todecnumber of a string.
Convert ==
  Step /\ \E numeral \in Numerals :
            LET res == NumberFromString(numeral, dc)
            IN  /\ acc' = res.dn
                /\ dc' = SetStatus(dc, res.status)
                /\ last' = [ op |-> "tonumber", text |-> numeral, set |-> dc,
                             dn |-> res.dn, status |-> res.status ]

\* The relational operators look at the sign and the zero of a comparison.
Holds(op, dn) == CASE op = "eq" -> IsZero(dn)
                   [] op = "lt" -> dn.neg
                   [] op = "le" -> dn.neg \/ IsZero(dn)

Relate ==
  /\ Step
  /\ \E op \in Operations \cap Relations, rhs \in Numbers :
       LET res == NumberCompare(acc, rhs, dc)
       IN  /\ Bounded(acc, rhs)
           /\ dc' = SetStatus(dc, res.status)
           /\ last' = [ op |-> op, lhs |-> acc, rhs |-> rhs,
                        answer |-> Holds(op, res.dn) ]
  /\ UNCHANGED acc

\* The predicates, the classes and the conversions to text.
Ask ==
  /\ Step
  /\ \E op \in Operations \cap Questions :
       last' = [ op |-> op, lhs |-> acc, answer |-> Answer(op, acc, dc) ]
  /\ UNCHANGED <<dc, acc>>

----------------------------------------------------------------------------
(* The context methods.                                                    *)

LDN_ALL_FLAGS == DEC_Errors \cup DEC_Information

\* Mutation: no range check but that of the traps.
InRangeUnchecked(field, val) == field = "traps" => val = {}

\* The range check of LDN_CTX_SETTER, field by field.  Flag words are checked
\* as numbers.
InRange(field, val) ==
  CASE field = "digits" -> val \in 1..DECNUMDIGITS
    [] field = "emax"   -> val \in 0..DEC_MAX_EMAX
    [] field = "emin"   -> val \in DEC_MIN_EMIN..0
    [] field = "round"  -> val \in Roundings
    [] field = "traps"  -> val = {}
    [] field = "status" -> StatusWord(val) <= StatusWord(LDN_ALL_FLAGS)
    [] field = "clamp"  -> val \in {0, 1}

Method(op, arg) == Step /\ last' = [ op |-> op, arg |-> arg ] /\ UNCHANGED acc

Set ==
  \E setting \in Settings :
    LET field == setting[1]
        val   == setting[2]
    IN  /\ InRange(field, val)
        /\ Method("set", setting)
        /\ dc' = [ dc EXCEPT ![field] = val ]

SetFails ==
  \E setting \in Settings :
    /\ ~InRange(setting[1], setting[2])
    /\ Method("setfails", setting)
    /\ UNCHANGED dc

\* Mutation: the traps stay as decContextDefault sets them.
DefaultForTrapped(kind) == ContextDefault(kind)

\* The kinds of decContextDefault; BASE enables every trap, which the
\* wrapper turns off again: there is no SIGFPE handler.
DefaultFor(kind) ==
  IF kind = "BASE" THEN [ ContextDefault(kind) EXCEPT !.traps = {} ]
                   ELSE ContextDefault(kind)

KnownKinds == {"BASE", "DECIMAL32", "DECIMAL64", "DECIMAL128"}

SetDefault ==
  \E kind \in Kinds :
    IF kind \in KnownKinds
      THEN Method("setdefault", kind) /\ dc' = DefaultFor(kind)
      ELSE Method("defaultfails", kind) /\ UNCHANGED dc

\* The conditions decContextSetStatusFromString recognizes are the single
\* flags; any other string, "No status" and "Multiple status" included, has
\* no effect.
SetStatusString ==
  \E s \in Strings :
    /\ Method("setstatusstring", s)
    /\ dc' = SetStatus(dc, {s} \cap Flags)

Next == \/ Call1 \/ Call2 \/ Call3 \/ Convert \/ Relate \/ Ask
        \/ Set \/ SetFails \/ SetDefault \/ SetStatusString

Spec == Init /\ [][Next]_vars

----------------------------------------------------------------------------
(* Properties.                                                             *)

IsDecNumber(dn) ==
  /\ dn.kind \in {"finite", "infinite", "qNaN", "sNaN"}
  /\ dn.neg \in BOOLEAN
  /\ dn.coeff \in Nat
  /\ dn.digits \in Nat \ {0}
  /\ dn.exponent \in Int

\* Every field of the context and the value in hand has its type; the status
\* holds named flags, or the unnamed bit the setter lets through.
TypeOK ==
  /\ Ranged(dc)
  /\ dc.traps \subseteq Flags
  /\ dc.status \subseteq Flags \cup {"bit8"}
  /\ IsDecNumber(acc)
  /\ calls \in 0..MaxCalls

Computed == "set" \in DOMAIN last

\* No status an operation or a method sets is ever trap-enabled: raise(SIGFPE)
\* in decContextSetStatus, which the wrapper has no handler for, is not
\* reached, through any sequence of setdefault, settraps and arithmetic.
NeverRaises == [][ (dc'.status \ dc.status) \cap (dc.traps \cup dc'.traps) = {} ]_vars

\* A condition recorded in the context stays until the script itself
\* overwrites the status or reinitializes the context: no arithmetic call and
\* no other method loses an earlier Inexact, Overflow, ...
StatusIsSticky ==
  [][ \/ dc.status \subseteq dc'.status
      \/ last'.op = "setdefault"
      \/ last'.op = "set" /\ last'.arg[1] = "status" ]_vars

\* decCheckNumber, the library's own test of a valid number: a special value
\* has exponent 0, an infinity one digit 0, a finite coefficient no leading
\* zero and no more digits than it says.
CheckNumber(dn) ==
  IF IsSpecial(dn) THEN dn.exponent = 0
                        /\ (dn.kind = "infinite" => dn.digits = 1 /\ dn.coeff = 0)
                   ELSE dn.digits = GetDigits(dn.coeff)

\* The operations whose result is fitted to the context.
Fitted == { "plus", "neg", "abs", "add", "sub", "mul", "max", "min", "quantize",
            "divide", "remainder", "remaindernear", "mod", "tonumber" }

\* Whatever was computed from valid numbers is a valid number; and a finite
\* result fits the context it was computed in: its precision, its largest
\* exponent (lower when clamping) and its smallest exponent, although the
\* operands may come from another, wider context.
ResultFitsContext ==
  Computed =>
    LET dn == last.dn
        set == last.set
    IN  /\ CheckNumber(dn)
        /\ last.op \in Fitted /\ ~IsSpecial(dn) =>
             /\ dn.digits <= set.digits
             /\ dn.exponent >= Etiny(set)
             /\ dn.exponent + dn.digits - 1 <= set.emax
             /\ set.clamp = 1 => dn.exponent <= Etop(set)

\* decCheckInexact, per operation: a finite result that lost digits and is not
\* subnormal has all of the context's digits; and a tiny result that lost
\* digits is reported as an underflow, never silently.
InexactIsFull ==
  Computed /\ last.op \in Fitted \ {"quantize"} /\ ~IsSpecial(last.dn)
           /\ "Inexact" \in last.status =>
    IF "Subnormal" \in last.status
      THEN "Underflow" \in last.status
      ELSE last.dn.digits = last.set.digits
=============================================================================
