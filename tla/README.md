# ldecNumber: models, checks and proofs

This directory specifies ldecNumber, the decimal arithmetic of IBM's decNumber
library bound to Lua, in TLA+. The modules are translated from the C sources:
`src/ldecNumber.c` (the binding) and `src/decNumber/` (the library). TLC checks
them on small instances and TLAPS proves the central theorems for every value of
the constants.

Contents: [the system](#the-system), [modules](#modules), [runs](#runs),
[violated claims](#claims-that-do-not-hold), [proofs](#proofs),
[limits](#what-is-not-modelled), [plan](#plan).

## The system

A Lua script calls functions of one C library. There are no threads of the
operating system, no files and no messages; what is hard is

* **numeric control flow**: results are shortened, rounded, shortened again for
  subnormals, folded down for clamping, each step from a few digits, a residue
  and flags left by the step before. Errors sit at boundaries (all nines, powers
  of ten, half-way cases, the ends of the exponent range, Unit boundaries) and in
  combinations of two of them that a test vector rarely has;
* **loops that put something off**: estimates corrected by the next iteration,
  carries resolved every few rows, an approximation adjusted at the end, bits
  kept for the next call;
* **state that outlives a call**: a context collects sticky status flags over a
  whole session, and every call reads it;
* **object lifetime**: contexts are found per Lua thread through a table (and an
  optional cache) keyed by addresses, while Lua's collector frees threads and
  contexts and hands their addresses out again.

### Inventory

| part | where | state it keeps | operations | what makes it correct |
|---|---|---|---|---|
| per-thread context store and its cache | `ldecNumber.c` 124-282, 1139-1185 | the environment table thread -> context (weak keys in the default build), two static cache variables, Lua's heap | `ldn_get_context`, `getcontext`, `setcontext`, `dup`; the collector; closing and reopening Lua | a computation uses the live context of its own thread; threads do not share contexts unless asked to; dropped threads are collected; the cache cannot be noticed |
| context methods | `ldecNumber.c` 615-720, `decContext.c` | precision, exponent range, rounding mode, clamp, traps, sticky status | `setdefault`, setters, `setstatusstring`, getters | fields stay in range; no trap is enabled (there is no SIGFPE handler); status is lost only on request |
| number calls of the binding | `ldecNumber.c` 286-610 | none; a fresh result per call | `DN_OP1`/`DN_OP2` families, `fma`, `mod`, `floor`, `trim`, relational operators, predicates, operands given as strings | as the manual says of each |
| numbers, rounding, range | `decNumber.c` 6734-7437 | the result under construction, residue, status | `decSetCoeff`, `decApplyRound`, `decSetSubnormal`, `decSetOverflow`, `decFinalize` | one correct rounding of the exact value, exact flags |
| add, multiply, compare, quantize | `decNumber.c` 3733-4076, 4765-5070, 5759-6220 | accumulators of a long multiplication | `decAddOp`, `decMultiplyOp`, `decCompareOp`, `decQuantizeOp` | exact result rounded once; no lazy carry overflows or is lost; comparison is an order |
| division | `decNumber.c` 4147-4740 | Unit buffers of dividend, divisor, quotient | `decDivideOp` in four forms | quotient and remainder identities; buffers large enough; estimates never too large and never zero |
| Unit arithmetic | `decNumber.c` 6265-6480, 6589-6730 | an array of Units of 1 to 4 digits | `decUnitAddSub`, shifts, `QUOT10` | no digit and no carry is lost |
| manipulation | `decNumber.c`, public functions | none | next-plus/-minus/-toward, normalize, trim, shift, rotate, scaleb, logb, logical operations, to-integral, fma, copies | each does to value, digits and exponent what its name says |
| square root and power | `decNumber.c` 1983-2300, 2775-3050 | an approximation or an accumulator at raised precision | `decNumberSquareRoot`, `decNumberPower` | the nearest root, exactly flagged; a power within one unit of the last place |
| exp, ln, log10 | `decNumber.c` 1033, 1253, 1375, 5155-5740 | iterations at twice the precision and more | | not modelled |
| strings | `decNumber.c` 490-712, 3552-3715; `ldecNumber.c` 236-270, 529-610 | the text being written | `decNumberFromString`, `decToString`, `tostring`, `toengstring` | a numeral is its value rounded once; text is read back as the same number and fits its buffer |
| predicates, getters, class | `decNumber.c`, `ldecNumber.c` | none (read-only) | | agree with what the arithmetic does to the number |
| random states | `ldecNumber.c` 720-830 | a lagged Fibonacci ring, a supply of bits, the number being written | calling the state | each bit is used once; every Unit of a number is written |
| interchange formats | `decimal32.c`, `decimal64.c`, `decimal128.c`, `decPacked.c`, `decDPD.h` | none; an encoding or a packed decimal in the caller's hands | from and to numbers and strings, canonical forms; the binding does not call them | one rounding to the format; every pattern of bits is one number, with one canonical form and the text of that number; packed decimals come back as they were |
| tables, tests, docs | | none | | the manual and comments are what the violation runs quote |

How the parts interact: every number call finds its context (store), converts
its operands (strings with a status of their own), allocates a result and calls
one public function of the library. The public function runs an internal
operation, which ends in `decFinalize`, and `decStatus` ors the operation's
status into the context, turning the result into a NaN when an error flag is
among it. The context methods change the same context between calls.

## Modules

State machines are set in bold; the others define operators.

| module | models |
|---|---|
| `DecContext` | contexts, flags, `decContextDefault`, `decContextSetStatus` |
| `DecNumber` | numbers, `decSetCoeff`, `decApplyRound`, `decSetSubnormal`, `decSetOverflow`, `decFinalize` |
| `DecArith` | add, subtract, multiply, compare, total order, max/min, quantize, rescale |
| `DecDivide` | division in its four forms as integer arithmetic, `mod`, `floor` |
| `UnitArith` | `decUnitAddSub`, `decShiftToLeast`, `QUOT10` on arrays of Units |
| `DecManipulate` | the operations on the representation, and `fma` |
| `DecPower` | square root with its iteration and adjustment; integral powers by squaring |
| `DecString` | numerals to numbers, numbers to text, classes and predicates |
| **`LuaSession`** | one thread's script: number calls and context methods in any order |
| **`LongDivision`** | the Unit loop inside `decDivideOp`, one step per iteration |
| **`LongMultiplication`** | the loops inside `decMultiplyOp`: regrouped with lazy carries (`FASTMUL`), or Unit by Unit |
| **`Interchange`** | decimal32, decimal64 and decimal128, parameterised by their geometry, and packed decimals: a program in C that converts back and forth |
| **`RandomState`** | a random state: its ring, its supply of bits, the number a call writes |
| **`ContextStore`** | the context table, the cache, the collector |
| **`ThreadContexts`** | what the store promises: one current context per thread |
| `DecReference` | what the arithmetic promises: the exact result, rounded once |
| `ArithCorrect`, `ManipulationCorrect`, `PowerCorrect`, `TextCorrect` | properties of the session's calls against the reference |
| `MCArith`, `MCManipulation`, `MCSession`, `MCUnits`, `MCInterchange`, `MCStore` | the instances TLC checks |
| `RoundingProofs`, `UnitProofs`, `SessionProofs`, `ContextStoreProofs`, `ProductProofs`, `DivisionProofs`, `RandomProofs`, `InterchangeProofs` | theorems |

How they fit together:

    DecContext <- DecNumber <- DecArith <- DecDivide <- DecManipulate <- DecPower
                                               ^             ^              ^
                      UnitArith <--------------+-------------+          DecString
                       ^     ^                 |                            ^
      LongMultiplication     +--- LongDivision-+        LuaSession ---------+
                  ^                  ^                    ^
                  +----- MCUnits ----+----> RandomState   |
                                                          |
    DecReference <- ArithCorrect -------------------------+
                     ^   ^
       TextCorrect --+   +-- ManipulationCorrect <- PowerCorrect <- MCArith
            ^                        ^
            +---- MCManipulation ----+

    DecString, DecReference <- Interchange <- MCInterchange
    ThreadContexts <-(implements)- ContextStore

### Representation

* A **flag word** is a set of flag names; `|` is union. Where the code compares
  words as numbers (the status setter) the set is weighed with the bits of
  `decContext.h`. The internal bit `DEC_sNaN` is a member like any other.
* A **number** is a record: kind, sign, coefficient, digits, exponent. The
  coefficient is a natural number and `digits` is a field of its own, since the
  code keeps it apart and bugs live in the difference. Where control depends on
  Units (the residue, comparison by lengths, the fast addition, rotate, the
  shape of a quotient) the operators compute the Units they need from `DECDPUN`.
* A **numeral** is what the scan in `decNumberFromString` finds and what
  `decToString` writes: a sign; a word (`inf`, `NaN`, `sNaN`) or `places` digits
  that make the number `coeff`, `fraction` of them after the point; an E mark with
  the digits of an exponent; whether anything else follows. The digits of the
  exponent are a sequence, since the code judges an exponent too long for an int
  by its digits; the coefficient's characters are not kept one by one.
* A **work record** `[dn, residue, status]` is what an internal operation hands
  from step to step. Residues have the code's values -1 to 9.
* A public function maps operands and a context to the number and the status
  `decStatus` applies. Local variables that only carry a value are gone; every
  branch, early return and flag is kept.
* Operators preceded by *Mutation* hold a plausible mistake next to the
  definition it would be made in. Nothing uses them: each can replace its
  neighbour to see that the property listed with it in `PROJECT.json` then
  fails, which it does.

### `LuaSession`

Variables: `dc`, the thread's context; `acc`, the number the script computes
with; `last`, what the last call was given and returned; `calls`.

| action | code |
|---|---|
| `Call1`, `Call2`, `Call3` | `DN_OP1`, `DN_OP2`, `fma`, `mod`, `floor`, `trim`, ...: compute, or the status into `dc` |
| `Convert` | `tonumber` and a string as first operand |
| `Relate` | `eq`, `lt`, `le` (`DN_PR2`): compare, then look at the sign and the zero bits |
| `Ask` | the predicates, `class`, `radix`, `tostring`, `toengstring`: nothing changes |
| `Set`, `SetFails` | `LDN_CTX_SETTER`: the range check, then one field or a Lua error |
| `SetDefault` | `setdefault`, and the traps turned off again after `decContextDefault` |
| `SetStatusString` | `decContextSetStatusFromString` |

`Arguments` are the second and third operands: numbers, and strings that are
converted first. The conversion's status is in the context before the operation
starts, which is a state the operation can see (`decNumberToIntegralExact`
copies it). `OpBounded`, `FusedDigits` and `PowerBounded` keep exact results within
`MaxDigits` digits, the one bound TLC's integers make necessary (`scaleb` needs none);
`MaxCalls` bounds the script.

### `ContextStore`

A step is one call by a script or one step of Lua's memory management.
`ComputeHit` and `ComputeMiss` are the two paths of `ldn_get_context` followed by
a computation that reads the context and may change it; `GetContext`,
`SetContext`, `Duplicate` and `Modify` are the calls that handle contexts as
objects. `CreateThread`, `Drop`, `CollectThread`, `CollectContext` are the
environment: a thread or a context disappears at any time after the script has
dropped it and no table entry keeps it, and its address becomes available.
`Reopen` closes the Lua state and opens another in the same process; the static
cache variables survive that. The history variables `installed` and `used` say
which contexts a script put into the table itself and what the last computation
read.

`ThreadContexts` says the same without a table, a cache or a collector: a thread
that begins has no current context, whichever thread had its address before.
`ContextStore` implements it with `exists <- threads` and `current <- Current`, the
table's entries of the threads there are. That a dead thread's entry is gone when its
address is used again (`Cleared`, since the key is the thread and not its address) is
what `Begin` depends on.

### The loops over Units

`LongDivision`: one step per iteration of the inner loop (`TooLow`, `Identical`,
`Subtract`) and of the outer loop (`NextUnit`). `var1` is the buffer of Units,
`var2ulen` the length of the shifted divisor, `acc` the quotient's Units. The
subtraction goes through `decUnitAddSub` as modelled in `UnitArith`, reciprocal
estimates included. `QuotientMatches` ties the loop's result to the integer
divisions that `DecDivide` uses in its place.

`LongMultiplication`: a multiplier of more than two Units sends both coefficients
through the regrouped path. `AddRow` adds the partial products of one item of the
multiplier to the wide accumulator `zacc` without looking at carries, and counts
`lazy` down; every `FASTLAZY` rows and at the end `ResolveItem` takes the carries
of one item to the next one and the one above that; `UnchunkItem` takes an item
apart into Units. `AddUnit` is the other path, a row of `decUnitAddSub` per Unit
of a short multiplier. `DecArith` uses `lhs.coeff * rhs.coeff` in the place of
both, which `ProductIsExact` justifies.

`RandomState`: `CallStarts` checks the arguments and writes digits and exponent
into memory that was not cleared; `DrawTop` and `DrawUnit` each take ten bits
(`TakeTenBits`), which turns the ring only when fewer than ten are left, and
reject a value above 999; `CallReturns` hands the number over. `CallFails` is a
bad argument. The history variables `words` and `chunks` record what entered the
supply and what left it. `TwoTo` holds the powers of two of the shifts, as a
recursive function the provers can unfold. The seeding is any ring of `Words`.

In `MCUnits` a behaviour is one of the three, the others stay idle; each machine
keeps its own specification (`Spec`, `MultiplySpec`, `RandomSpec`), which the
theorems are about.

### `Interchange`

Variables: `set`, the caller's context; `dn`, `text`, `d`, `bcd`, the number, the
string, the encoding and the packed decimal the program holds; `last`, what the
last conversion was given; `calls`.

| action | code |
|---|---|
| `Encode` | `decimal32FromNumber`, `decimal64FromNumber`, `decimal128FromNumber` |
| `Decode` | `decimal32ToNumber`, ... |
| `Read`, `Write` | `decimal32FromString`, ..., `decimal32ToString`, ... |
| `MakeCanonical` | `decimal32Canonical`, ... |
| `Pack`, `Unpack` | `decPackedFromNumber`, `decPackedToNumber` |

The three formats are the same code with other constants; the module has it once
and takes the constants from the headers. An encoding is a record of its fields:
sign, combination field, exponent continuation, declets. `BIN2DPD` and `DPD2BIN`
are the generated tables, written as the rule of densely packed decimals they
tabulate. `Reduced` is the addition to zero by which a number that may not fit is
rounded first; `EncodeFinite` folds an exponent down by padding; `EncodingText`
writes an encoding without making a number of it. A packed decimal is its digits
and sign nibble, and the scale.

## Runs

All runs end within three minutes. Deadlock is checked in the store runs; the
others end by themselves, a script at its bound and a loop with its result.

| run | module | expected | question |
|---|---|---|---|
| `arithmetic` | `MCArith` | pass | is every sum, product, quotient, remainder and quantized number the exact result rounded once, every square root the nearest, every integral power within a unit of its last place? |
| `operations` | `MCManipulation` | pass | do comparison, extremum, next, normalize, rotate, shift, scaleb, the logical operations, to-integral, fma and the conversions from and to text do what they promise, in Units of two digits? |
| `unitloops` | `MCUnits` | pass | do the loops over Units stay in their buffers and their integers, and end with exact quotients, products and complete random numbers? |
| `session` | `MCSession` | pass | over scripts of three calls: do results fit their context, is status kept, is no trap raised? |
| `store` | `MCStore` | pass | without the cache: isolation, refinement of `ThreadContexts`, collection of dropped threads |
| `cache` | `MCStore` | pass | with the cache, in one Lua state: the pointer does not dangle, the cache is invisible |
| `interchange` | `MCInterchange` | pass | over two conversions between numbers, strings, the three encodings and packed decimals: is there one rounding, one number to every encoding, and a way back? |
| `cache_reopen`, `fma`, `power`, `random`, `next` | | violation | see [claims that do not hold](#claims-that-do-not-hold) |

### What the properties say

*Arithmetic* (`arithmetic`). `CorrectlyRounded` compares number and all flags
with `DecReference`, which knows neither residues nor Units nor a second
shortening: this is where double rounding, a lost sticky digit, a wrong sign of
zero, a missed overflow after rounding all nines or a wrong fold-down would show.
What it asks of a call is `Promised`: for a sum, operands at most one digit longer
than a precision of at least two (`Summable`), and for any result, in a clamping
context, exponents that reach down to zero (`HasRoom`).
`QuotientIsExact` does the same for `divide`, whose exact results must also have
the right exponent. `RemainderIdentity` and `ModIsFloored` are the algebraic
identities that tie the remainder operations to the integer quotient, for operands
the context can hold. `QuantizeIsExact` includes when quantize must fail.
`SqrtIsRounded` decides by squares of half units, so that no root is computed a
second time: nearest, exact when it can be, flagged as it is, with the ideal
exponent, and the iteration's approximation within reach of the adjustment that
corrects it by at most one unit. `PowerWithinUlp` compares with the exact power,
the inverted ones included, and asks for correct rounding when nothing was
rounded inside.

*Representation* (`operations`). `NextIsNeighbour` says that no number of the
context lies between operand and result, a statement about the whole set of
numbers and not about the addition of a tiny number that implements it.
`NormalizeIsCanonical` and `OrderIsExact` (comparison and extremum) relate several
calls to each other. `DigitsAreMoved` follows each digit through rotate's three steps
on Units, and through shift. `LogicalIsDigitwise` compares the four Unit loops of the
logical operations, each with its own test of the digits and its own exit inside the
top Unit, with a truth table for every digit of the precision; and says when they
fail. `ScaleBIsRounded` includes counts of ten digits, up to the end of an Int; outside
the code wraps, and so does `AddInt`. `ToIntegralIsRounded` includes contexts with a
status left by earlier calls, with which the code judges its result.

*Text* (`operations`). `StringIsRounded` compares a numeral's conversion with the
exact value rounded once, leading zeros, exponents beyond an int and malformed
numerals included. `StringRoundTrip` reads every text written back, in the widest
context and in the number's own. `TextFitsBuffer` counts the characters against
`ldn_string`'s buffer. `ClassMatchesPlus` ties the read-only classes to what an
addition reports of the same number.

*Loops* (`unitloops`). `EstimateIsSafe` says that the estimated multiple never
borrows, is never zero (the loop would not end) and that the multiples of one
position fit a Unit; `InBounds` that every index is inside its buffer;
`QuotientMatches` that the zeros padded in to align the quotient are taken out of
the remainder again. `AccumulatorFits` bounds each lazy item by the width of its
integer; `ProductIsExact` compares the finished Units with a column-by-column
product. `BitsUsedOnce` says that the words stocked are the chunks handed out
followed by the supply, across calls and rejections; `RandomIsComplete` that no
Unit of the uncleared memory is left and that the top Unit has no digit above the
count.

*Interchange* (`interchange`). `EncodingIsRounded` compares what an encoding holds,
and the flags, with `RoundedOnce`, although a number goes through an addition, a
fold-down and a second test of its exponent, and a string is fitted to the format
before all that. `EncodingIsFaithful` is about every pattern of bits, canonical or
not: its text, made from the fields, is the text of the number it decodes to; the
canonical form is that number again, is what the text is read back as, and differs
exactly where bits mean nothing, which is said independently (`HasSpareBits`).
`PackedRoundTrip` says when packing and unpacking are inverse to each other: a
subnormal whose adjusted exponent is below -999999999 is packed and refused later.

*Session* (`session`). `ResultFitsContext` and `InexactIsFull` are what the
library's own debugging code (`decCheckNumber`, `decCheckInexact`) tests, over all
scripts. `NeverRaises` and `StatusIsSticky` speak of sequences of calls.

*Store* (`store`, `cache`). `Isolation` and `ContextIsLive` are about the order of
calls and collections, with addresses reused. `Implements` is the refinement.
It also says that a thread created at the address of a dead one starts without a
context. `ThreadsAreCollected` is the reason the table's keys are weak.

### Bounds, and why they are enough

Numbers are bounded because TLC computes with 32-bit integers; what matters is
how lengths and exponents compare with the precision, with `emin` and `emax`, and
with the Unit size.

* `arithmetic`: precisions 2 and 3, exponents -2 to 2, all eight rounding modes,
  clamp on and off; coefficients 0, 1, 5, 8, 49, 95, 99, 100, 995 (half-way points,
  all nines, powers of ten), up to one digit longer than the lower precision;
  exponents from below the subnormal range to above the largest. Three digits per
  Unit, as built. Two contexts of one digit are for powers, which need three more
  digits inside. From `MCRadicands`, the coefficients 1 to 999 at an even and an
  odd exponent, only functions of one operand start: every root of up to three
  digits. `MaxDigits = 9` bounds the digits of an exact result.
* `operations`: `DECDPUN = 2`, so that numbers of four or five digits have two or
  three Units and precisions 3 and 4 end inside a Unit and at its end; two rounding
  modes, a symmetric and a directed one. Numerals (`MCNumerals`) have leading
  zeros, a point, exponents at the edges of the contexts and about 2^31 and 10^9,
  words with payloads and malformed forms; contexts for them have four digits and
  either a narrow or the widest exponent range. Text is also written for numbers
  near the ends of the widest range. 12101 has more digits than both precisions: its
  digits are logical at three and not at four. Two contexts start with a status, one
  of them with the conditions that make a NaN. `MCCounts` are counts only `scaleb`
  gets: with the exponents near the bottom of the widest range their sums are inside
  an Int, its very least one, and outside.
* `unitloops`: `DECDPUN = 2`. Division: one to three Units on each side, divisors
  whose top Units are small, all nines or equal to the dividend's; precisions 1, 2,
  4. Multiplication: factors of up to ten Units, all nines, single ones and mixed;
  items of four digits (`FASTBASE = 10^4`), two rows between resolutions, an
  accumulator of 2.4 * 10^8, so that two rows of all nines fit and three do not, as
  18 and 19 do in the build. Random numbers: a ring of four words of 16 bits, words
  that give zeros, rejected values and ordinary ones; at most `MaxWords = 5` words
  drawn, enough for a number of nine digits, a rejection and a second call that
  starts with leftover bits.
* `interchange`: all formats, three rounding modes; for decimal32 coefficients up to
  all of its digits and one more, exponents at and past both ends, all 32
  combination fields; for the other two, numbers of few digits at and past both
  ends (`MaxDigits = 8`: a coefficient of 16 or 34 digits is beyond TLC's integers,
  so overflow to their largest number is left out). Declets of zero, of one digit,
  of mixed and of three large digits, also with the bits that mean nothing. Packed
  decimals of three digits with a bad one in each place, scales at the limits of
  the test. Two conversions (`MaxCalls = 2`): there and back.
* `session`: scripts of up to `MaxCalls = 3` calls, enough for setting a field,
  computing, and then looking at what is left; every setter with a value in range
  and one out of range; special values, a signalling NaN, strings as operands.
* `store`: two threads and three contexts; `cache`: three threads, since a stale
  entry needs a thread that used the cache, one that replaced it and a dead one;
  contexts hold one of two values. Interchangeable threads and contexts are
  symmetric in `cache`; `store` checks liveness and uses no symmetry.

### Fairness

`FairSpec` assumes weak fairness of `CollectThread` for every thread: Lua's
collector reaches each dead object in some later cycle, and cycles are driven by
allocation, which every number call does. Nothing is assumed of scripts. No other
run needs fairness: the division loop's progress is a safety property here
(`EstimateIsSafe` excludes the step that would change nothing), the other loops
count down, and a random number's rejections could in principle go on (a ring of
words that give nothing else), so its end is not claimed.

## Claims that do not hold

Each of these runs states what the manual, a header or a comment says; TLC shows a
case where the code does otherwise.

| run | claim | what happens |
|---|---|---|
| `cache_reopen` | the manual: a context is maintained per thread | built with the cache, a second Lua state whose thread has the address of one in the first computes with a context that was freed |
| `fma` | the manual: only the final result is rounded | fma(104, 976, -9.99) at three digits is 1.02E+5, not 1.01E+5: the addition's shortcut drops an operand that still reaches the kept digits, which happens when the other operand is longer than the precision |
| `power` | a comment: correctly rounded, at most one unit in error in rare cases | 1E-8 to the power -1 at three digits and emax 6 is 1 with Overflow: the inversion overflows and the loop is left with its accumulator still one |
| `random` | `decNumber.h`: `digits` counts the digits of the coefficient | the top Unit drawn may be zero or short, so a number has leading zeros that its count includes |
| `next` | the manual: the closest value in the direction | in the context `setdefault(INIT_BASE)` gives, nextplus(1E-1000000007) is 10000001E-1000000007, not 2E-1000000007: the tiny number that is added, 1E-1000000000, is above the smallest numbers there (in the contexts of the other kinds, DECIMAL128 that a thread starts with among them, it is below all numbers) |

The passing runs state the corresponding properties for the operands for which
they do hold: `CorrectlyRounded` and `FMAIsFused` for operands (of `fma`, a product
and an addend) at most one digit longer than a precision of at least two,
`NextIsNeighbour` for contexts that end above the tiny number, `Implements` with the cache for a process with one Lua state.

Other divergences met while modelling are in the modules as the code has them, and
have no run of their own:

* `setstatus` refuses `{Underflow, Subnormal}` and lets an unnamed bit through:
  words are compared as numbers with a limit that lacks Subnormal (the manual,
  `ldecNumber.pod:588`: a subset of the flags).
* `floor` judges the remainder by a product that was rounded to the precision
  (`ldecNumber.pod:807`).
* `lt` is true when the comparison is a NaN with a sign (`ldecNumber.pod:1533`).
* `tointegralexact` and `tointegralvalue` copy the caller's sticky status into the
  work context, so an earlier condition that makes a NaN (an invalid operation, a
  division by zero) makes their result a NaN (`decNumber.c` 3103, 3129).
* `scaleb` adds its count to the exponent in an Int (`decNumber.c` 2615), and the
  limit for counts, twice the digits and emax, admits sums that are none: in the
  context `setdefault(INIT_BASE)` gives, scaleb(1E-1000000007, -1999999997) wraps to a
  positive exponent and overflows instead of underflowing (the comment at 2578:
  C = A x 10**B). In C such a sum is undefined; `AddInt` has what the builds do.
* quantize can overflow to Infinity inside `decApplyRound`, before its own check
  (`decNumber.c` 5851).
* A sum in a precision of one digit can be wrong in the last place: where a number
  far below is subtracted from a power of ten, the residue does not make the
  coefficient 1 less (`decNumber.c` 3931). Rounding 05UP, 1E-1 - 1E-4 is 1E-1 and
  not 9E-2; and a least subnormal that becomes a zero, as -1E-2 + 1E-6 with CEILING
  and emin -2, has not Clamped. From two digits on there is none (`SumIsRounded`).
* In a clamping context whose emax is below its precision less one, decFinalize takes
  the Infinity of an overflow, whose exponent is 0, for a number to fold down
  (`decNumber.c` 7253). None of the kinds of default is such a context; but the work
  context of `tointegralexact` has the operand's digits for its precision, and with
  the clamp and an emax below those, less one, the result is folded down from
  exponent 0: 12.101 with emax 3 becomes 120E-1.
* A NaN's payload is read through the range test of finite numbers: with emax below
  the digits of the payload NaN12345 becomes an Infinity with Overflow, and with the
  clamp NaN5 may get an exponent (`decNumber.c` 691; the comment at 572: the payload
  is converted like an integer).
* A NaN's payload cut to the precision may keep leading zeros (`decNumber.c` 7638).
* rotate of an operand longer than the precision leaves digits in the top Unit that
  the digit count does not include; the comment at 2421 makes that the caller's
  concern.
* The root of an operand longer than the precision may not be the nearest (12.3 at
  one digit gives 3); an exact root outside the range of DECIMAL64 is flagged
  inexact; subnormal roots are rounded by the context's mode.
* An integral power that over- or underflows inside is copied with the length of
  the wider context: 9998E-7 squared, at one digit, can have four (`decNumber.c`
  2276).
* `decToString`'s comment asks for 14 characters more than the digits, too few for
  exponents of ten digits; the binding's buffer has 15 (`decNumber.c` 3543).
* `fma` and `power` of finite numbers are refused with Invalid_context in a context
  beyond `DEC_MAX_MATH`, as the one `setdefault(INIT_BASE)` gives is; the contexts of
  the other kinds, DECIMAL128 that a thread starts with among them, are not.

## Proofs

All theorems are for every value of the constants, from the named assumptions of
the modules. What they ask of the constants is what the code has or builds:
`StoreAssumption` and `SessionAssumption` say what a script can hand to the
functions (with room in a number for the 34 digits of the largest default context,
and the bounds of the library's exponents around its own, two inequalities of
numerals that are too large for the provers and that TLC evaluates);
`DecDPunAssumption` that a Unit has one to four digits; `OperandAssumption` that
operands of a division have Units of digits, the top one not zero, and that a
precision is positive; `FactorAssumption` the first of these for a multiplication;
`FastAssumption` that an item is a whole number of Units, that `FASTBASE` is their
base, and that `FASTLAZY` rows fit an accumulator item; `RandomAssumption` that a
word has at least ten bits and the ring is not empty.

| theorem | says |
|---|---|
| `StoreTypes`, `ThreadsAreIsolated` | `TypeOK` and `Isolation` of the store, in both builds, across Lua states |
| `CacheIsCoherent`, `ContextsAreLive` | with one Lua state, the cache agrees with the table and no freed context is touched |
| `StoreImplementsContexts` | with one Lua state, the store, cached or not, implements `ThreadContexts` |
| `TrapsStayOff`, `SessionNeverRaises`, `SessionStatusIsSticky` | for any operands, settings and scripts |
| `ContextStaysInRange` | whatever a script passes to setters and `setdefault`, the fields of its context stay in the ranges the library can take |
| `UnitResidueSound`, `DigitResidueSound` | the residue `decSetCoeff` keeps stands for the exact discarded fraction |
| `BumpRounds` | from such a residue, `decApplyRound` rounds as the exact value would be, in every mode |
| `DropDigitsSound` | so does the one it takes from the whole array, for any number of digits dropped, any Unit size and after an earlier shortening |
| `FinalizeIsRounded` | a number fitted by `decCopyFit` and finished by `decFinalize` is the exact value rounded once, with its status |
| `ProductIsRounded` | `decNumberMultiply` is the exact product rounded once, with its status |
| `SumIsRounded` | `decNumberAdd` and `decNumberSubtract` are the exact sum and difference, rounded once, by whichever path |
| `UnaryIsRounded` | `decNumberPlus`, `decNumberMinus` and `decNumberAbs` are their operand with the sign asked for, rounded once |
| `SessionRoundsOnce` | `CorrectlyRounded`: so it is for every one of these calls in any script |
| `FusedIsRounded`, `SessionFusesOnce` | `decNumberFMA` is the exact product and the third operand, added and rounded once; `FMAIsFused`: so is every `fma` of any script |
| `CompareIsExact`, `ExtremumIsExact` | `decNumberCompare` gives the order of the exact values, whatever the exponents; `decNumberMax` and `decNumberMin` the better number rounded once, the same one for the operands swapped |
| `SessionOrdersExactly` | `OrderIsExact`: so they do in any script |
| `ColumnIsExact`, `MultipleIsSafe` | a column of `decUnitAddSub` loses nothing; the estimated multiple is never too large |
| `UnitAddSubIsExact` | so `decUnitAddSub` is exact for whole arrays: its Units stand for the sum or difference, complemented when that is negative, with a new Unit only for a carry |
| `DivisionIsInvariant` | the inductive invariant of the long division |
| `DivisionInBounds`, `DivisionEstimateIsSafe` | `InBounds` and `EstimateIsSafe`, for operands of any length |
| `DivisionIsExact` | dividend = quotient found so far * divisor in its place + what is left, at every step; at the end what is left is less than the divisor |
| `AccumulatorNeverOverflows` | no item of the lazy accumulator outgrows its integer |
| `AccumulatorIsExact` | the accumulator, carries and all, stands for the product of the rows added so far |
| `ProductIsAlwaysExact` | `ProductIsExact`: by either path the product has the Units of the exact one and fits its buffer |
| `RandomNumbersAreComplete` | a random number has all its Units written and no digit above its count |
| `BitsAreUsedOnce` | `BitsUsedOnce`: every bit of every word is handed out once, in order |
| `DecletsLoseNothing` | every three digits are read back from their declet |
| `CombinationIsReadBack` | the top digit and the top of the exponent are read back from the five bits they share |
| `ScaleTestsAreExact` | unpacking refuses exactly the scales a number cannot have |

**Store.** `TypeOK` is not inductive: a context could be in the table and freed, or
the cache could hold a thread and no context. `StoreInv` adds `TableIsLive` (what
the table refers to exists), `DeadHaveNoEntry` (what is nobody's address has no entry)
and `CacheIsPair`. `Isolation` then follows, since a
context that enters the table by itself was not live before and everything in the
table is. With the cache, `Coherent` says that the entry of the cached thread is the cached
context; the collector cannot break it, since a build with the cache has strong
keys, so a thread with an entry is never collected.
It is inductive as long as `Reopen` is impossible (`OneState`); `cache_reopen` shows
that it is not otherwise. `ContextIsLive` and the step simulation of the
refinement follow from it: a hit reads what a lookup would have found. With
`DeadHaveNoEntry` the abstract contexts are the table (`CurrentIsTable`), and a new
thread begins without one.

**Session.** A number call only ors flags into the status (`OrStatus`), whatever
the operation computed; so the proofs need nothing of the arithmetic and hold for
every operand. `NoTraps` is inductive: the setter's range check admits only the
empty set, and `setdefault` clears what `decContextDefault` enables. `Ranged(dc)`,
the part of `TypeOK` about the other fields, is inductive given `NoTraps`, which says
that the context is a record: a setter changes one field to a value its own check
let through, `setdefault` checks nothing and relies on the room for 34 digits.

**Rounding.** `StandsFor(r, rest, power)` is the meaning of a residue: it compares
the discarded fraction `rest / power` with zero and a half and keeps its sign.
`Marks` is the meaning of a sticky -1, 0 or 1 from digits further below, or from an
earlier shortening. The two residue theorems prove the first from the second for
the two ways the code reads a residue off a Unit; since a residue clipped to -1, 0
or 1 marks again, they also cover a second shortening. `BumpRounds` turns it into
the decision, compared with `Away` of the reference.

**From a residue to a result.** `FirstCut(w, neg, n, e, k)` says that a work record
holds `n * 10^e` with `k` digits dropped, what it lost being in the residue and the
status. decFinalize is followed from there. Where the result is in range, it rounds
(`FinalizeNormal`), all nines carry (`BumpNinesIs`), a result too high is an overflow
(`SetOverflowIs`) and a high one is folded (`FoldDownPlaced`). Below the range the
second shortening drops more digits from what is already short: `CutTwice` and
`DropDigitsSound` with an earlier residue say that it is the residue of all the digits
dropped, hence one rounding of the exact value (`CutToTiny`, `FinalizeSubnormal`).
The result is compared with `RoundedOnce`, flags included.

All this is about contexts that are `Roomy`: the fields are in the setters' ranges,
and with the clamp on the largest exponent of a full coefficient is not negative
(`HasRoom`). All kinds of default have that. Without it the claim is false: the fold
takes the Infinity of an overflow, of exponent 0, for a number.

**Sums.** decAddOp has five ways to a result, and there is a lemma for each: zeros
(`ZeroSum`, `AddToZeroSum`: a number padded towards the exponent of a zero is the
first cut of the number with the zeros, `PaddedCut`), one Unit on each side
(`FastSum`), and the rest, either aligned (`AlignedSum`) or, where the lengths say
that an operand "cannot affect the answer, except as a residue", the other with a
residue of 1 or -1. A residue of 1 is a sticky digit (`ShortResidueSum`,
`LongResidueSum`). A residue of -1 is the hard case: the exact difference is just
below the number kept, one digit shorter if that is a power of ten, and it may be
in another place of the range. `JustBelow` takes the cases: the coefficient is no
power (`BelowNormal`), a power rounded up to or down from (`BelowPower`), one that
the subnormal range cuts (`BelowTiny`), the least number there is (`BelowLeast`).
`Summable` is what this needs: operands at most one digit longer than the precision
(`TailIsFar`), and a precision of two digits or more, since a coefficient 1 cannot be
made less by its residue; the divergences above have the cases at one digit.
With the sign of a zero sum (`SignOfSum`) the result is `SumReference`.

**Results of a session.** `CorrectlyRounded` is inductive given `Ranged(dc)` and
`NoTraps`, since `last` holds all that it speaks of: a call leaves there the context it
was made in, which those two make `Roomy` (`SessionIsRoomy`). An operand given as a
string changes the status of that context first; no rounding depends on it
(`RoundedAlike`). Any other step leaves something else in `last`, or the same.
`FMAIsFused` is inductive in the same way. That `fma` rounds once rests on its product
being made in a context with as many digits as both factors (`ProductDigits`) and the
library's own exponents: it is the first cut of itself and finalizing changes nothing
(`ProductIsHeld`), if its exponent is in that range (`HoldsProduct`). decCheckMath sees
to that for all numbers but zeros, whose exponents it does not look at.

**Order.** decCompare looks at signs and zeros, then at the lengths in Units that the
two numbers have at the lower exponent, and only when these are too close to tell at
the aligned digits. `UnitCompareIs` has the three ways: lengths in Units that
differ enough, the zeros of the shift counted, mean different counts of digits, and a
number with more digits than another with its zeros is larger (`LongerIsLarger`).
`CompareIsExact` puts the signs on top. For max and min,
equal numbers are told apart by their signs, then by exponents, a rule that is
symmetric in the operands (`MaxTieIs`), and the chosen one is fitted as in
`FinalizeIsRounded`. `OrderIsExact` is then inductive like `CorrectlyRounded`; the result
with the operands swapped, which it names, does not depend on the status of the
context (`ExtremumAlike`).

**Numbers as folds.** The provers know neither `^` nor induction over an operator.
What an array of digits stands for is therefore a recursive function, `Horner(base,
u, i)`: the digits of `u` from `i` up, folded from the top down; `Value` is the
whole array at `UnitBase`. Induction is on the least index where a claim fails
(`Least`, from the well-foundedness of the naturals; `Ascent` and `Descent` wrap
it), and `Recursion` shows that a function can be defined by recursion over `0..n`,
so that the recursive functions of the models unfold (`ColumnsUnfold`,
`ItemSumsUnfold`, ...). The powers of a base are such a function as well (`Powers`), and so are the powers
of ten of the models: `Ten`, whose first ten values are the table `DECPOWERS`.
On top of that `UnitProofs` states what division and multiplication need: the parts
of a number below and above an index, shifts, a multiple added at a shift, a carry
moved up, the bound of a product, and that digits below the base are unique.

**Units.** `ColumnIsExact` covers carries of either sign and multipliers of either
sign within a Unit, for Units of one to four digits, and shows that the carry
handed on is again in the range the theorem asks for: the induction step over the
columns, which `UnitAddSubIsExact` takes; the complement of a negative result is a
second induction. `EstimateFits` shows that the products of the reciprocals stay in 32 bits.

**Lazy carries.** `AccumulatorFits` alone is not inductive: it forgets how many
rows an item has taken. `AccInv` says that while rows are added an item is at most
a resolved item plus one square of the largest item per row since the last
resolution (`lazy` counts them), that while carries are resolved the items already
passed are below `FASTBASE`, and that the two in front of the one being resolved
hold at most their rows plus the two carries they have been handed. What an item
of that size hands on is at most `FASTBASE - 1` to the next and `FASTLAZY` to the
one above (`CarryBounds`), which closes the circle under `FastAssumption`:

    FASTLAZY * (FASTBASE - 1)^2 + 2 * FASTBASE + FASTLAZY <= AccMax

In the builds this is 18 * (10^9 - 1)^2 + 2 * 10^9 + 18, about 1.80 * 10^19, below
2^64 - 1, about 1.84 * 10^19, and 1844 * (10^8 - 1)^2 + 2 * 10^8 + 1844, about
1.844 * 10^19, below it too; one row more exceeds it in both. These two sums are
arithmetic on numbers larger than TLC's and are checked here by hand.

**Exact products.** The accumulator is compared as a number, so it does not matter
how far its carries have been resolved: `AccAmount` says that it stands for the
multiplicand times the items of the multiplier whose rows were added. A row adds its
multiple at its shift (`AddedItems`), resolving an item moves value up without
changing it (`CarriedItems`), and since the product has no more digits than the
operands together (`BelowProduct`) nothing is carried out of the top item.
`LongProduct` adds that the items taken apart so far are the Units of `product`, and
`ShortProduct` is the same for the path Unit by Unit, through `UnitAddSubIsExact`.
At the end `product` stands for the product of the operands (`ProductValue`). So do
the columns of the reference, by an induction over the multiplicand
(`PartSumsValue`); they have digits below the base, hence the same ones
(`UniqueItems`).

**Long division.** `InBounds` and `EstimateIsSafe` say nothing of the value of
what is left. `DivisionInv` adds it: `Window`, what the Units above the divisor's
place stand for, is below `UnitBase` times the divisor, less what the Unit being
found already took (`ValueInv`). The two top Units the estimate looks at are
then all that counts, `MultipleIsSafe` gives that the multiple is not too large, and
the multiples of one place stay below `UnitBase`. `PlaceInv`, `ReachInv` and
`CountInv` tie the number of Units in use, the place of the divisor, the exponent
and the Units of the quotient to each other: the buffers' lengths follow from them,
and that the loop stops when they say so. `ExactInv` is the division identity: a
subtraction moves a multiple of the divisor from what is left into the quotient, and
going on to the next Unit moves the divisor down by one place.

**Random numbers.** `RandomIsComplete` is about finished numbers; `UnitsWritten`
says of one in the making that the Units from `q + 1` up are written, that the top
one has no more digits than `rest` stood for, and that `q` Units are below. It
holds for every ring and every outcome of the draws, since only a value below 1000
moves on. `SupplyInv` is `BitsUsedOnce` with what the supply needs to be read as
bits: fewer of them than a word has, and none above those it says. `BitsJoined` is
the lemma: a number below a power of two plus a multiple of that power has the bits
of the one and then those of the other. `StockFacts` uses it for the word that is put
above what is left (an addition, since the bits are disjoint), `SupplyNext` for the
ten bits that are taken off; that ten are there after one word is what the
assumption of ten bits to a word is for.

**Interchange.** A digit is three bits when it is small and one when it is large;
`DecletOfDigits` goes through the eight combinations of small and large digits and
shows for each that the fields `DigitsToDeclet` writes are the ones `FieldsToBin`
takes apart. `FieldsOfDeclet` says that ten bits hold the fields apart, and a number
below 1000 is its three digits. That the rule is the tables was checked once, entry
by entry, against `BIN2DPD` and `DPD2BIN` of `decDPD.h`.

Only model-checked: liveness (`ThreadsAreCollected`), which is out of the provers'
reach; that the exact quotient of `LongDivision` is the one of `DecDivide`
(`QuotientMatches`; `DivisionIsExact` states the identity in Units, and what ties
the shifts within Units to `Ten` is not proved); that division and its remainders,
quantize, root and power are what they promise; that a value in hand is
a number with the digits it says, after any of the operations (`TypeOK` beyond the
context, `ResultFitsContext`, `InexactIsFull`; for the operations of
`CorrectlyRounded` the reference says so); all other properties of single operations
in `operations`, of texts, and of whole conversions in `interchange`.

## What is not modelled

* exp, ln, log10, and powers that are not integers of at most nine digits, which
  use them. Their working precision starts at nine digits for a logarithm and at
  twice the precision (three or more) for an exponential, so that even at one digit
  the products of the iteration are beyond TLC's 32-bit integers; a model with
  smaller ones would not be the code's.
* Of the interchange formats: the place of the fields in words and bytes, the loop
  of `decDigitsToDPD` that pads Unit by Unit, and the tables of `decDPD.h` beyond
  the two that encode and decode (the others are these in other units). The build
  (`CMakeLists.txt`) leaves these files out; they are modelled as the library's own.
* The conversions to BCD, `int32` and `uint32` as functions of their own: the
  binding does not call them (`decGetInt`, which the operations use, is modelled).
* Characters of a numeral beyond what the scan finds: which letters spell a word or
  a sign is not a property anything depends on.
* Builds with `DECSUBSET`, `DECCHECK`, `DECTRACE` or `DECALLOC`; failing
  allocations; `COMPSIG`, which the binding does not call. The loops over Units run
  at two digits to a Unit; that the reciprocals for three (the build) and four
  digits are right is part of the theorem `ColumnIsExact`.
* Exponents that wrap, other than the sum in `scaleb` (`AddInt`) and the exponent of a
  numeral: the exponents of numbers are at least -1000000067 and at most 999999999,
  so that sums of two of them stay inside 32 bits, and TLC's integers end there as
  well.
* The seeding of a random state (KISS from up to four integers): any ring.
* The getters of context fields and the texts of statuses, which change nothing;
  the registration of tables and metatables.

## Plan

Done: the core (contexts, rounding, arithmetic, division, representation), square
root and integral powers, strings and classes, the loops of division and
multiplication, random states, interchange formats, the store, the script that mixes them, their
properties and the theorems above. What would come next, in this order:

1. `decQuantizeOp` against `QuantizeReference`, on the lemmas of `RoundingProofs`.
2. The decimal shifts within Units (`decShiftToLeast`, `decShiftToMost`) by value,
   which would tie `DivisionIsExact` to the operands.
3. The status every operation can leave, for the rest of `LuaSession`'s type
   invariant.
4. exp, ln and log10, with coefficients as sequences of Units.
