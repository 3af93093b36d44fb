----------------------------- MODULE RandomState ------------------------------
(***************************************************************************)
(* The random states of ldecNumber.c: a lagged Fibonacci generator over a  *)
(* ring of words, a supply of bits that is stocked up one word at a time   *)
(* and handed out ten bits at a time, and the call that writes a decNumber *)
(* from them, a Unit of three digits for every ten bits.  A word the ring  *)
(* is seeded with (by KISS) is any of Words; the width of a word and the   *)
(* ring are parameters.                                                    *)
(***************************************************************************)
EXTENDS Integers, Sequences

CONSTANTS
  RingSize,        \* the words of the ring (256)
  Lag1, Lag2, Lag3, \* the distances of the words added to one (58, 119, 178)
  WordBits,        \* the width of a word (32)
  Words,           \* the words the ring may be seeded with
  NUMDIGITS,       \* DECNUMDIGITS, the digits a number has room for (69)
  Requests,        \* the <<digits, exponent>> a script asks for
  MaxWords         \* bound on the words drawn from the ring

\* The powers of two that the shifts and masks of a supply take: at most a
\* word and the nine bits left are held.
TwoTo[n \in 0..(WordBits + 10)] == IF n = 0 THEN 1 ELSE 2 * TwoTo[n - 1]

\* A word fills the supply for at least one chunk of ten bits.
ASSUME RandomAssumption ==
  /\ RingSize \in Nat \ {0} /\ {Lag1, Lag2, Lag3} \subseteq Nat
  /\ NUMDIGITS \in Nat /\ WordBits \in Nat /\ WordBits >= 10
  /\ Words \subseteq 0..(TwoTo[WordBits] - 1)

VARIABLES
  ring,            \* r
  index,           \* x, the last word used
  supply,          \* bit_supply
  supplyBits,      \* bit_supply_bits
  number,          \* the decNumber in the making, or the last one made
  q,               \* the whole Units still to be written
  rest,            \* r, the digits of a partial top Unit still to be written
  phase,           \* where the call is
  words, chunks    \* history: the words stocked, the ten-bit chunks used

randomVars == <<ring, index, supply, supplyBits, number, q, rest, phase, words,
                chunks>>

UnitDigits3 == 3                       \* DECDPUN, which the code insists on
NumUnits == (NUMDIGITS + UnitDigits3 - 1) \div UnitDigits3

\* The memory of a new number holds anything.
Unwritten == [ digits |-> 0, exponent |-> 0, lsu |-> [ i \in 1..NumUnits |-> -1 ] ]

RandomInit ==
  /\ ring \in [ 0..(RingSize - 1) -> Words ]
  /\ index = 0
  /\ supply = 0 /\ supplyBits = 0
  /\ number = Unwritten
  /\ q = 0 /\ rest = 0
  /\ phase = "idle"
  /\ words = << >> /\ chunks = << >>

----------------------------------------------------------------------------
(* lfib4_10bits                                                            *)

NextIndex == (index + 1) % RingSize

\* The word a distance ahead of the next one, and the next one: the sum of its
\* old value and of those at the three lags.
Ahead(lag) == ring[(NextIndex + lag) % RingSize]
NextWord == (ring[NextIndex] + Ahead(Lag1) + Ahead(Lag2) + Ahead(Lag3)) % TwoTo[WordBits]

\* Mutation: what is left of the supply is overwritten.
StockedOver(word) == [ bits |-> word, count |-> supplyBits + WordBits ]

\* A word goes above the bits that are left.
Stocked(word) == [ bits  |-> supply + word * TwoTo[supplyBits],
                   count |-> supplyBits + WordBits ]

\* The ring is only turned when fewer than ten bits are left.
Stock == IF supplyBits < 10 THEN Stocked(NextWord)
                            ELSE [ bits |-> supply, count |-> supplyBits ]

NextTenBits == Stock.bits % 1024

TakeTenBits ==
  /\ Len(words) < MaxWords
  /\ supply' = Stock.bits \div 1024
  /\ supplyBits' = Stock.count - 10
  /\ IF supplyBits < 10
       THEN /\ index' = NextIndex
            /\ ring' = [ ring EXCEPT ![NextIndex] = NextWord ]
            /\ words' = Append(words, NextWord)
       ELSE UNCHANGED <<index, ring, words>>
  /\ chunks' = Append(chunks, NextTenBits)

----------------------------------------------------------------------------
(* drs_call                                                                *)

\* The arguments are checked after the new number has been made.
Exponents == (-999999999)..999999999
Acceptable(x, e) == x \in 1..NUMDIGITS /\ e \in Exponents

CallFails ==
  /\ phase \in {"idle", "made"}
  /\ \E request \in Requests : ~Acceptable(request[1], request[2])
  /\ phase' = "idle"
  /\ number' = Unwritten
  /\ UNCHANGED <<ring, index, supply, supplyBits, q, rest, words, chunks>>

CallStarts ==
  /\ phase \in {"idle", "made"}
  /\ \E request \in Requests :
       /\ Acceptable(request[1], request[2])
       /\ number' = [ Unwritten EXCEPT !.digits = request[1],
                                       !.exponent = request[2] ]
       /\ q' = request[1] \div UnitDigits3
       /\ rest' = request[1] % UnitDigits3
  /\ phase' = "drawing"
  /\ UNCHANGED <<ring, index, supply, supplyBits, words, chunks>>

\* Mutation: the top Unit gets as many digits as the others.
TopUnitWhole(t) == t

TopUnit(t) == t % (IF rest = 1 THEN 10 ELSE 100)

\* A value of more than three digits is rejected.
DrawTop ==
  /\ phase = "drawing" /\ rest # 0
  /\ TakeTenBits
  /\ IF NextTenBits < 1000
       THEN number' = [ number EXCEPT !.lsu[q + 1] = TopUnit(NextTenBits) ] /\ rest' = 0
       ELSE UNCHANGED <<number, rest>>
  /\ UNCHANGED <<q, phase>>

DrawUnit ==
  /\ phase = "drawing" /\ rest = 0 /\ q > 0
  /\ TakeTenBits
  /\ IF NextTenBits < 1000
       THEN number' = [ number EXCEPT !.lsu[q] = NextTenBits ] /\ q' = q - 1
       ELSE UNCHANGED <<number, q>>
  /\ UNCHANGED <<rest, phase>>

CallReturns ==
  /\ phase = "drawing" /\ rest = 0 /\ q = 0
  /\ phase' = "made"
  /\ UNCHANGED <<ring, index, supply, supplyBits, number, q, rest, words, chunks>>

RandomNext == CallFails \/ CallStarts \/ DrawTop \/ DrawUnit \/ CallReturns

RandomSpec == RandomInit /\ [][RandomNext]_randomVars

----------------------------------------------------------------------------
(* Properties.                                                             *)

\* The bits of n, lowest first, and those of several numbers, one after the
\* other.
Bit(n, k) == (n \div TwoTo[k]) % 2
Bits(n, count) == [ i \in 1..count |-> Bit(n, i - 1) ]
Joined(numbers, count) ==
  [ i \in 1..(count * Len(numbers)) |->
      Bit(numbers[(i - 1) \div count + 1], (i - 1) % count) ]

\* Every bit of every word is used once, in order: the words stocked so far
\* are the chunks handed out, in whatever calls, followed by the supply.
BitsUsedOnce ==
  Joined(words, WordBits) = Joined(chunks, 10) \o Bits(supply, supplyBits)

\* A number that has been made has all of its Units written and no digit more
\* than it says, although Units are rejected and the memory was not cleared.
RandomIsComplete ==
  phase = "made" =>
    LET length == (number.digits + UnitDigits3 - 1) \div UnitDigits3
        top    == number.digits - (length - 1) * UnitDigits3
    IN  /\ length <= NumUnits
        /\ \A i \in 1..length : number.lsu[i] \in 0..999
        /\ number.lsu[length] < 10^top

\* decNumber.h: digits is the count of digits in the coefficient; a number of
\* several digits has no leading zero (decCheckNumber).
RandomHasItsDigits ==
  phase = "made" =>
    LET length == (number.digits + UnitDigits3 - 1) \div UnitDigits3
        top    == number.digits - (length - 1) * UnitDigits3
    IN  number.digits > 1 => number.lsu[length] >= 10^(top - 1)
=============================================================================
