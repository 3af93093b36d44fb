----------------------------- MODULE UnitProofs -----------------------------
(***************************************************************************)
(* Arithmetic on Units.                                                    *)
(*                                                                         *)
(* One column: the division by multiplication and shift, with its one      *)
(* correction, is the division by UnitBase, and leaves a carry the next    *)
(* column can take, for every Unit size.                                   *)
(*                                                                         *)
(* A whole array: what it stands for is its digits folded from the top     *)
(* down, in any base.  The sum or difference that decUnitAddSub makes of   *)
(* two arrays stands for the sum or difference of what they stand for.     *)
(* The induction over the columns is on the least column where a claim     *)
(* would fail.  The last part is what the division and the multiplication  *)
(* need of such numbers: their parts below and above an index, shifts,     *)
(* multiples added at a shift, carries moved up, products.                 *)
(***************************************************************************)
EXTENDS UnitArith, WellFoundedInduction, TLAPS

\* A Unit has 1 to 4 digits.
LEMMA UnitSizes ==
  /\ DECDPUN \in 1..4
  /\ DECDPUN = 1 => UnitBase = 10
  /\ DECDPUN = 2 => UnitBase = 100
  /\ DECDPUN = 3 => UnitBase = 1000
  /\ DECDPUN = 4 => UnitBase = 10000
<1>1. CASE DECDPUN = 1
  BY <1>1 DEF UnitBase
<1>2. CASE DECDPUN = 2
  BY <1>2 DEF UnitBase
<1>3. CASE DECDPUN = 3
  BY <1>3 DEF UnitBase
<1>4. CASE DECDPUN = 4
  BY <1>4 DEF UnitBase
<1> QED BY <1>1, <1>2, <1>3, <1>4, DecDPunAssumption

\* The estimate of a column below UnitBase^2 is the quotient, or for Units of
\* three and four digits possibly one less; it is never too large, which the
\* correction (for an unsigned Unit) could not repair.
LEMMA EstimateIsClose ==
  ASSUME NEW c \in Nat, c < UnitBase * UnitBase
  PROVE  /\ Estimate(c) \in Nat
         /\ Estimate(c) * UnitBase <= c
         /\ c < (Estimate(c) + 2) * UnitBase
         /\ DECDPUN <= 2 => c < (Estimate(c) + 1) * UnitBase
<1>1. CASE DECDPUN = 1
  <2>1. Estimate(c) = ((c \div 2) * 26215) \div 131072
    BY <1>1 DEF Estimate, QUOT10
  <2> QED BY <1>1, <2>1, UnitSizes
<1>2. CASE DECDPUN = 2
  <2>1. Estimate(c) = ((c \div 4) * 5243) \div 131072
    BY <1>2 DEF Estimate, QUOT10
  <2> QED BY <1>2, <2>1, UnitSizes
<1>3. CASE DECDPUN = 3
  <2>1. Estimate(c) = ((c \div 8) * 16777) \div 2097152
    BY <1>3 DEF Estimate
  <2> QED BY <1>3, <2>1, UnitSizes
<1>4. CASE DECDPUN = 4
  <2>1. Estimate(c) = ((c \div 2048) * 53687) \div 262144
    BY <1>4 DEF Estimate
  <2> QED BY <1>4, <2>1, UnitSizes
<1> QED BY <1>1, <1>2, <1>3, <1>4, UnitSizes

\* The products of the estimates fit the 32 bits the code computes them in.
LEMMA EstimateFits ==
  ASSUME NEW c \in Nat, c < UnitBase * UnitBase
  PROVE  /\ DECDPUN = 3 => (c \div 8) * 16777 < 4294967296
         /\ DECDPUN = 4 => (c \div 2048) * 53687 < 4294967296
  BY UnitSizes

\* For a settled column, unit + carry * UnitBase is the column, with a Unit
\* that has only its digits.
LEMMA SettleIsExact ==
  ASSUME NEW c \in Nat, c < UnitBase * UnitBase
  PROVE  /\ Settle(c).unit \in 0..(UnitBase - 1)
         /\ Settle(c).carry \in 0..(UnitBase - 1)
         /\ Settle(c).unit + Settle(c).carry * UnitBase = c
<1> DEFINE est  == Estimate(c)
           unit == c - est * UnitBase
           low  == DECDPUN >= 3 /\ unit >= UnitBase
<1>1. /\ est \in Nat /\ est * UnitBase <= c /\ c < (est + 2) * UnitBase
      /\ DECDPUN <= 2 => c < (est + 1) * UnitBase
  BY EstimateIsClose
<1>2. UnitBase \in Nat /\ UnitBase > 0 /\ DECDPUN \in 1..4
  BY UnitSizes
<1>3. Settle(c) = [ unit  |-> IF low THEN unit - UnitBase ELSE unit,
                    carry |-> IF low THEN est + 1 ELSE est ]
  BY DEF Settle
<1> HIDE DEF est
<1>4. CASE low
  BY <1>1, <1>2, <1>3, <1>4
<1>5. CASE ~low
  BY <1>1, <1>2, <1>3, <1>5
<1> QED BY <1>4, <1>5

\* One column of decUnitAddSub: from any carry the column before it can leave,
\* the Unit stored and the carry passed on are exactly those of the sum
\* carry + a + b * m, and the carry is again within a Unit.
THEOREM ColumnIsExact ==
  ASSUME NEW a \in 0..(UnitBase - 1), NEW b \in 0..(UnitBase - 1),
         NEW m \in (1 - UnitBase)..(UnitBase - 1),
         NEW carry \in (1 - UnitBase)..(UnitBase - 1)
  PROVE  LET c == Column(carry + a + b * m)
         IN  /\ c.unit \in 0..(UnitBase - 1)
             /\ c.carry \in (1 - UnitBase)..(UnitBase - 1)
             /\ c.unit + c.carry * UnitBase = carry + a + b * m
<1> DEFINE sum == carry + a + b * m
<1> SUFFICES /\ Column(sum).unit \in 0..(UnitBase - 1)
             /\ Column(sum).carry \in (1 - UnitBase)..(UnitBase - 1)
             /\ Column(sum).unit + Column(sum).carry * UnitBase = sum
  OBVIOUS
<1>1. UnitBase \in Nat /\ UnitBase >= 10
  BY UnitSizes
<1>2. /\ b * m <= (UnitBase - 1) * (UnitBase - 1)
      /\ b * m >= -((UnitBase - 1) * (UnitBase - 1))
  BY <1>1
<1>3. sum \in Int /\ sum < UnitBase * UnitBase
                  /\ sum >= UnitBase - UnitBase * UnitBase
  BY <1>1, <1>2
<1> HIDE DEF sum
<1>4. CASE sum \in 0..(UnitBase - 1)
  <2>1. Column(sum) = [ unit |-> sum, carry |-> 0 ]
    BY <1>1, <1>3, <1>4 DEF Column
  <2>2. Column(sum).unit = sum /\ Column(sum).carry = 0
    BY <2>1
  <2> QED BY <1>1, <1>4, <2>2
<1>5. CASE sum >= UnitBase
  <2>1. Column(sum) = Settle(sum)
    BY <1>1, <1>3, <1>5 DEF Column
  <2> QED BY <1>1, <1>3, <1>5, <2>1, SettleIsExact
<1>6. CASE sum < 0
  <2> DEFINE pos == sum + UnitBase * UnitBase
  <2>1. pos \in Nat /\ pos < UnitBase * UnitBase /\ pos >= UnitBase
    BY <1>1, <1>3, <1>6
  <2>2. Column(sum) = [ Settle(pos) EXCEPT !.carry = @ - UnitBase ]
    BY <1>1, <1>3, <1>6 DEF Column
  <2>3. /\ Settle(pos).unit \in 0..(UnitBase - 1)
        /\ Settle(pos).carry \in 0..(UnitBase - 1)
        /\ Settle(pos).unit + Settle(pos).carry * UnitBase = pos
    BY <2>1, SettleIsExact
  <2>4. Settle(pos).carry >= 1
    BY <1>1, <2>1, <2>3
  <2>5. /\ Column(sum).unit = Settle(pos).unit
        /\ Column(sum).carry = Settle(pos).carry - UnitBase
    BY <2>2 DEF Settle
  <2>6. pos = sum + UnitBase * UnitBase
    OBVIOUS
  <2> HIDE DEF pos
  <2>7. Column(sum).carry * UnitBase
          = Settle(pos).carry * UnitBase - UnitBase * UnitBase
    BY <1>1, <2>3, <2>5
  <2>8. Column(sum).unit + Column(sum).carry * UnitBase = sum
    BY <1>1, <1>3, <2>3, <2>5, <2>6, <2>7
  <2>9. Column(sum).carry \in (1 - UnitBase)..(UnitBase - 1)
    BY <1>1, <2>3, <2>4, <2>5
  <2> QED BY <2>3, <2>5, <2>8, <2>9
<1> QED BY <1>1, <1>3, <1>4, <1>5, <1>6

\* The multiple of the divisor that long division subtracts is never too
\* large.  The dividend is tops * weight + low, the divisor at most
\* top * weight, for the weight of the dividend's second Unit: the divisor's
\* Units below are made up for by the one that was added.
THEOREM MultipleIsSafe ==
  ASSUME NEW weight \in Nat, weight > 0,
         NEW tops \in Nat, NEW low \in 0..(weight - 1),
         NEW top \in Nat, top > 0,
         NEW divisor \in Nat, divisor <= top * weight,
         divisor <= tops * weight + low
  PROVE  SafeMultiple(tops, top) * divisor <= tops * weight + low
<1> DEFINE mult == tops \div top
<1>1. CASE mult = 0
  BY <1>1 DEF SafeMultiple
<1>2. CASE mult # 0
  <2>1. mult \in Nat /\ mult * top <= tops
    OBVIOUS
  <2>2. mult * divisor <= mult * (top * weight)
    BY <2>1
  <2>3. mult * (top * weight) = (mult * top) * weight
    BY <2>1
  <2>4. (mult * top) * weight <= tops * weight
    BY <2>1
  <2>5. SafeMultiple(tops, top) = mult
    BY <1>2 DEF SafeMultiple
  <2> QED BY <2>1, <2>2, <2>3, <2>4, <2>5
<1> QED BY <1>1, <1>2

----------------------------------------------------------------------------
(* Induction.  A set of natural numbers has a least member; so a property  *)
(* that fails somewhere fails at a first index, and a recursive definition *)
(* over 0..n has a solution.                                               *)

LessThan == { ss \in Nat \X Nat : ss[1] < ss[2] }

\* The order of the naturals is well-founded.
LEMMA LessThanWF == IsWellFoundedOn(LessThan, Nat)
<1>1. OpToRel(<, Nat) = LessThan
  BY DEF OpToRel, LessThan
<1> QED BY <1>1, NatLessThanWellFounded

\* A set of naturals that is not empty has a least element.
LEMMA Least ==
  ASSUME NEW T, T \subseteq Nat, T # {}
  PROVE  \E x \in T : \A y \in T : x <= y
<1>1. PICK x \in T : \A y \in T : ~(<<y, x>> \in LessThan)
  BY LessThanWF, WFMin
<1>2. ASSUME NEW y \in T PROVE x <= y
  <2>1. x \in Nat /\ y \in Nat
    OBVIOUS
  <2>2. ~(<<y, x>> \in LessThan)
    BY <1>1
  <2> QED BY <2>1, <2>2 DEF LessThan
<1> QED BY <1>2

\* Upward: what does not fail at 0, nor first at any index, does not fail.
LEMMA Ascent ==
  ASSUME NEW n \in Nat, NEW T, T \subseteq 0..n, 0 \notin T,
         \A i \in 1..n : i - 1 \notin T => i \notin T
  PROVE  T = {}
<1>1. SUFFICES ASSUME T # {} PROVE FALSE
  OBVIOUS
<1>2. T \subseteq Nat
  OBVIOUS
<1>3. PICK k \in T : \A y \in T : k <= y
  BY <1>1, <1>2, Least
<1>4. k \in 1..n /\ k - 1 \notin T
  BY <1>3
<1> QED BY <1>4

\* Downward, from n.
LEMMA Descent ==
  ASSUME NEW n \in Nat, NEW T, T \subseteq 0..n, n \notin T,
         \A i \in 0..(n - 1) : i + 1 \notin T => i \notin T
  PROVE  T = {}
<1> DEFINE M == { k \in 0..n : n - k \in T }
<1>1. \A i \in 1..n : i - 1 \notin M => i \notin M
  <2> TAKE i \in 1..n
  <2>1. n - i \in 0..(n - 1) /\ n - (i - 1) = (n - i) + 1
    OBVIOUS
  <2> QED BY <2>1
<1>2. 0 \notin M /\ M \subseteq 0..n
  OBVIOUS
<1>3. \A t \in T : n - t \in M
  OBVIOUS
<1> HIDE DEF M
<1>4. M = {}
  BY <1>1, <1>2, Ascent
<1> QED BY <1>3, <1>4

\* Primitive recursion: f is base at 0, then step of the value before it.
Steps(step, S, n) == \A s \in S, i \in 1..n : step[<<s, i>>] \in S

Solves(f, S, base, n, step) ==
  /\ f \in [0..n -> S]
  /\ f[0] = base
  /\ \A i \in 1..n : f[i] = step[<<f[i - 1], i>>]

\* A function can be defined by recursion over 0..n.
LEMMA Recursion ==
  ASSUME NEW S, NEW base, base \in S, NEW n, n \in Nat, NEW step, Steps(step, S, n)
  PROVE  \E f : Solves(f, S, base, n, step)
<1> DEFINE T == { k \in 0..n : ~ \E f : Solves(f, S, base, k, step) }
<1>1. SUFFICES T = {}
  OBVIOUS
<1>2. 0 \notin T
  <2>1. Solves([ i \in 0..0 |-> base ], S, base, 0, step)
    BY DEF Solves
  <2> QED BY <2>1
<1>3. ASSUME NEW k \in 1..n, k - 1 \notin T
      PROVE  k \notin T
  <2>1. PICK f : Solves(f, S, base, k - 1, step)
    BY <1>3
  <2> DEFINE g == [ i \in 0..k |-> IF i = k THEN step[<<f[k - 1], k>>] ELSE f[i] ]
  <2>2. f[k - 1] \in S
    BY <2>1 DEF Solves
  <2>3. g \in [0..k -> S]
    BY <2>1, <2>2 DEF Solves, Steps
  <2>4. g[0] = base
    BY <2>1, <2>2 DEF Solves
  <2>5. ASSUME NEW i \in 1..k PROVE g[i] = step[<<g[i - 1], i>>]
    <3>1. g[k] = step[<<f[k - 1], k>>] /\ g[k - 1] = f[k - 1]
      OBVIOUS
    <3>2. ASSUME i # k
          PROVE  g[i] = f[i] /\ g[i - 1] = f[i - 1] /\ f[i] = step[<<f[i - 1], i>>]
      BY <2>1, <3>2 DEF Solves
    <3> QED BY <3>1, <3>2
  <2>6. Solves(g, S, base, k, step)
    BY <2>3, <2>4, <2>5 DEF Solves
  <2> QED BY <2>6
<1>4. T \subseteq 0..n
  OBVIOUS
<1> HIDE DEF T
<1> QED BY <1>2, <1>3, <1>4, Ascent

\* A function on 0..n whose values stay in a set from each index to the next.
LEMMA Typed ==
  ASSUME NEW S, NEW n \in Nat, NEW f, f = [ i \in 0..n |-> f[i] ], f[0] \in S,
         \A i \in 1..n : f[i - 1] \in S => f[i] \in S
  PROVE  f \in [0..n -> S]
<1> DEFINE T == { i \in 0..n : f[i] \notin S }
<1>1. 0 \notin T /\ T \subseteq 0..n
  OBVIOUS
<1>2. ASSUME NEW i \in 1..n, i - 1 \notin T PROVE i \notin T
  <2>1. i - 1 \in 0..n
    OBVIOUS
  <2>2. f[i - 1] \in S
    BY <1>2, <2>1
  <2> QED BY <2>2
<1>3. T = {} => \A i \in 0..n : f[i] \in S
  OBVIOUS
<1> HIDE DEF T
<1>4. \A i \in 0..n : f[i] \in S
  BY <1>1, <1>2, <1>3, Ascent
<1>5. [ i \in 0..n |-> f[i] ] \in [0..n -> S]
  BY <1>4
<1> QED BY <1>5

----------------------------------------------------------------------------
(* The number an array of Units stands for, by Horner's rule from the top. *)

Unit == 0..(UnitBase - 1)
Arrays == Seq(Nat)

\* What the top k items stand for, in any base.
Tops(base, uar) ==
  LET top[k \in 0..Len(uar)] ==
        IF k = 0 THEN 0 ELSE uar[Len(uar) - k + 1] + base * top[k - 1]
  IN  top

\* What the items from index i up stand for.
Horner(base, uar, i) ==
  IF i \in 1..Len(uar) THEN Tops(base, uar)[Len(uar) - i + 1] ELSE 0

\* What Units stand for: from index i up, and all of them.
ValueFrom(uar, i) == Horner(UnitBase, uar, i)
Value(uar) == ValueFrom(uar, 1)

\* A Unit holds a digit of a base that is ten or more.
LEMMA UnitFacts ==
  /\ UnitBase \in Nat /\ UnitBase >= 10
  /\ Unit \subseteq Nat /\ 0 \in Unit
  BY UnitSizes DEF Unit

\* A digit and the digits above it are worth a natural.
LEMMA HornerNat ==
  ASSUME NEW u \in Nat, NEW v \in Nat, NEW base \in Nat
  PROVE  u + base * v \in Nat
  OBVIOUS

\* The worth of the topmost digits is found from the top down.
LEMMA TopsUnfold ==
  ASSUME NEW base \in Nat, base >= 1,
         NEW uar \in Arrays
  PROVE  /\ Tops(base, uar) \in [0..Len(uar) -> Nat]
         /\ Tops(base, uar)[0] = 0
         /\ \A k \in 1..Len(uar) :
              Tops(base, uar)[k] = uar[Len(uar) - k + 1] + base * Tops(base, uar)[k - 1]
<1> DEFINE n == Len(uar)
           Eq(f) == f = [ k \in 0..n |-> IF k = 0 THEN 0
                                         ELSE uar[n - k + 1] + base * f[k - 1] ]
           step == [ x \in Nat \X (1..n) |-> uar[n - x[2] + 1] + base * x[1] ]
<1>1. n \in Nat /\ \A k \in 1..n : uar[n - k + 1] \in Nat
  <2>1. n \in Nat /\ \A k \in 1..n : uar[k] \in Nat
    BY DEF Arrays
  <2>2. ASSUME NEW k \in 1..n PROVE uar[n - k + 1] \in Nat
    <3>1. n - k + 1 \in 1..n
      BY <2>1
    <3> QED BY <2>1, <3>1
  <2> QED BY <2>1, <2>2
<1>2. \A s \in Nat, i \in 1..n : step[<<s, i>>] = uar[n - i + 1] + base * s
  OBVIOUS
<1>3. ASSUME NEW s \in Nat, NEW i \in 1..n PROVE step[<<s, i>>] \in Nat
  BY <1>1, <1>2, HornerNat
<1> HIDE DEF step, n
<1>4. PICK f : /\ f \in [0..n -> Nat]
               /\ f[0] = 0
               /\ \A i \in 1..n : f[i] = step[<<f[i - 1], i>>]
  <2>1. Steps(step, Nat, n) /\ 0 \in Nat /\ n \in Nat
    BY <1>1, <1>3 DEF Steps
  <2>2. \E f : Solves(f, Nat, 0, n, step)
    BY <2>1, Recursion
  <2> QED BY <2>2 DEF Solves
<1>5. Eq(f)
  <2>1. ASSUME NEW k \in 0..n, k # 0
        PROVE  f[k] = uar[n - k + 1] + base * f[k - 1]
    <3>1. k \in 1..n /\ f[k - 1] \in Nat
      BY <1>1, <1>4, <2>1
    <3> QED BY <3>1, <1>2, <1>4
  <2> QED BY <1>4, <2>1
<1>6. Tops(base, uar) = CHOOSE g : Eq(g)
  BY DEF Tops, n
<1>7. Eq(Tops(base, uar))
  BY <1>5, <1>6
<1> DEFINE g == Tops(base, uar)
<1> HIDE DEF g
<1>8. ASSUME Eq(g) PROVE /\ g[0] = 0
           /\ \A k \in 1..n : g[k] = uar[n - k + 1] + base * g[k - 1]
  BY <1>1, <1>8
<1>9. g[0] = 0 /\ \A k \in 1..n : g[k] = uar[n - k + 1] + base * g[k - 1]
  BY <1>7, <1>8 DEF g
<1>10. g = [ k \in 0..n |-> g[k] ]
  BY <1>7 DEF g
<1> DEFINE T == { k \in 0..n : g[k] \notin Nat }
<1>11. T = {}
  <2>1. 0 \notin T
    BY <1>9
  <2>2. ASSUME NEW i \in 1..n, i - 1 \notin T PROVE i \notin T
    <3>1. g[i - 1] \in Nat
      BY <2>2, <1>1
    <3>2. g[i] = uar[n - i + 1] + base * g[i - 1] /\ uar[n - i + 1] \in Nat
      BY <1>1, <1>9
    <3>3. g[i] \in Nat
      BY <3>1, <3>2, HornerNat
    <3> QED BY <3>3
  <2>3. T \subseteq 0..n
    OBVIOUS
  <2> HIDE DEF T
  <2> QED BY <1>1, <2>1, <2>2, <2>3, Ascent
<1>12. g \in [0..n -> Nat]
  BY <1>10, <1>11
<1> QED BY <1>9, <1>12 DEF g, n

\* Horner's rule.
LEMMA HornerStep ==
  ASSUME NEW base \in Nat, base >= 1,
         NEW uar \in Arrays, NEW i \in Nat, i # 0
  PROVE  /\ Horner(base, uar, i) \in Nat
         /\ UnitAt(uar, i) \in Nat
         /\ Horner(base, uar, i) = UnitAt(uar, i) + base * Horner(base, uar, i + 1)
         /\ i > Len(uar) => Horner(base, uar, i) = 0
<1>1. Len(uar) \in Nat /\ \A k \in 1..Len(uar) : uar[k] \in Nat
  BY DEF Arrays
<1>2. CASE i > Len(uar)
  BY <1>1, <1>2 DEF Horner, UnitAt
<1>3. CASE i = Len(uar)
  <2>1. i \in 1..Len(uar) /\ Len(uar) - i + 1 = 1 /\ i + 1 \notin 1..Len(uar)
    BY <1>1, <1>3
  <2>2. Horner(base, uar, i) = Tops(base, uar)[1] /\ Horner(base, uar, i + 1) = 0
    BY <2>1 DEF Horner
  <2>3. Tops(base, uar)[1] = uar[i] + base * Tops(base, uar)[0] /\ Tops(base, uar)[0] = 0
    <3>1. 1 \in 1..Len(uar) /\ Len(uar) - 1 + 1 = i /\ 1 - 1 = 0
      BY <1>1, <1>3
    <3> QED BY <3>1, TopsUnfold
  <2>4. UnitAt(uar, i) = uar[i] /\ uar[i] \in Nat
    BY <1>1, <2>1 DEF UnitAt
  <2> QED BY <1>1, <1>3, <2>2, <2>3, <2>4
<1>4. CASE i < Len(uar)
  <2> DEFINE k == Len(uar) - i + 1
  <2>1. /\ k \in 1..Len(uar) /\ Len(uar) - k + 1 = i
        /\ k - 1 = Len(uar) - (i + 1) + 1 /\ k - 1 \in 0..Len(uar)
    BY <1>1, <1>4
  <2>2. Horner(base, uar, i) = Tops(base, uar)[k] /\ Horner(base, uar, i + 1) = Tops(base, uar)[k - 1]
    BY <1>1, <1>4, <2>1 DEF Horner
  <2> HIDE DEF k
  <2>3. Tops(base, uar)[k] = uar[i] + base * Tops(base, uar)[k - 1]
    BY <2>1, TopsUnfold
  <2>4. Tops(base, uar)[k] \in Nat
    <3>1. k \in 0..Len(uar)
      BY <1>1, <2>1
    <3> QED BY <3>1, TopsUnfold
  <2> QED BY <1>1, <1>4, <2>2, <2>3, <2>4 DEF UnitAt
<1> QED BY <1>1, <1>2, <1>3, <1>4

\* What the Units from i up are worth: Unit i, and UnitBase times the rest.
LEMMA FromStep ==
  ASSUME NEW uar \in Arrays, NEW i \in Nat, i # 0
  PROVE  /\ ValueFrom(uar, i) \in Nat
         /\ UnitAt(uar, i) \in Nat
         /\ ValueFrom(uar, i) = UnitAt(uar, i) + UnitBase * ValueFrom(uar, i + 1)
         /\ i > Len(uar) => ValueFrom(uar, i) = 0
<1>1. UnitBase \in Nat /\ UnitBase >= 1
  BY UnitFacts
<1>2. /\ Horner(UnitBase, uar, i) \in Nat
      /\ UnitAt(uar, i) \in Nat
      /\ Horner(UnitBase, uar, i)
           = UnitAt(uar, i) + UnitBase * Horner(UnitBase, uar, i + 1)
      /\ i > Len(uar) => Horner(UnitBase, uar, i) = 0
  BY <1>1, HornerStep
<1> QED BY <1>2 DEF ValueFrom

\* Whatever satisfies the rule is the value.
LEMMA HornerIs ==
  ASSUME NEW base \in Nat, base >= 1,
         NEW uar \in Arrays, NEW E \in [1..(Len(uar) + 1) -> Int],
         E[Len(uar) + 1] = 0,
         \A i \in 1..Len(uar) : E[i] = uar[i] + base * E[i + 1]
  PROVE  \A i \in 1..(Len(uar) + 1) : E[i] = Horner(base, uar, i)
<1> DEFINE n == Len(uar)
           T == { k \in 0..n : E[k + 1] # Horner(base, uar, k + 1) }
<1>1. n \in Nat
  BY DEF Arrays
<1>2. n \notin T
  BY <1>1, HornerStep
<1>3. ASSUME NEW i \in 0..(n - 1), i + 1 \notin T PROVE i \notin T
  <2>1. i + 1 \in 1..n /\ i + 1 \in 0..n
    BY <1>1
  <2>2. E[i + 2] = Horner(base, uar, i + 2)
    BY <1>3, <2>1
  <2>3. Horner(base, uar, i + 1) = uar[i + 1] + base * Horner(base, uar, i + 2)
    <3>1. UnitAt(uar, i + 1) = uar[i + 1] /\ (i + 1) + 1 = i + 2
      BY <2>1 DEF UnitAt
    <3> QED BY <2>1, <3>1, HornerStep
  <2>4. E[i + 1] = uar[i + 1] + base * E[i + 2]
    BY <2>1
  <2> QED BY <2>2, <2>3, <2>4
<1>4. T \subseteq 0..n
  OBVIOUS
<1>5. \A i \in 1..(n + 1) : i - 1 \notin T => E[i] = Horner(base, uar, i)
  BY <1>1
<1> HIDE DEF T
<1>6. T = {}
  BY <1>1, <1>2, <1>3, <1>4, Descent
<1> QED BY <1>5, <1>6

\* What obeys the recurrence of ValueFrom is ValueFrom.
LEMMA FromIs ==
  ASSUME NEW uar \in Arrays, NEW E \in [1..(Len(uar) + 1) -> Int],
         E[Len(uar) + 1] = 0,
         \A i \in 1..Len(uar) : E[i] = uar[i] + UnitBase * E[i + 1]
  PROVE  \A i \in 1..(Len(uar) + 1) : E[i] = ValueFrom(uar, i)
  BY HornerIs, UnitFacts DEF ValueFrom

----------------------------------------------------------------------------
(* The loops of decUnitAddSub.                                             *)

Units == Seq(Unit)
Carry == (1 - UnitBase)..(UnitBase - 1)
Settled == [ unit : Unit, carry : Carry ]

\* Units are naturals, within the array and beyond it.
LEMMA UnitsAreNatural ==
  ASSUME NEW uar \in Units
  PROVE  /\ uar \in Arrays /\ Len(uar) \in Nat
         /\ \A i \in Int : UnitAt(uar, i) \in Unit
<1>1. Len(uar) \in Nat /\ \A i \in 1..Len(uar) : uar[i] \in Unit
  BY DEF Units
<1>2. \A i \in Int : UnitAt(uar, i) \in Unit
  BY <1>1, UnitFacts DEF UnitAt
<1>3. uar \in Arrays
  <2>1. uar = [ i \in 1..Len(uar) |-> uar[i] ]
    BY DEF Units
  <2>2. \A i \in 1..Len(uar) : uar[i] \in Nat
    BY <1>1, UnitFacts
  <2> QED BY <1>1, <2>1, <2>2 DEF Arrays
<1> QED BY <1>1, <1>2, <1>3

\* What one column leaves is one of the Units and carries the next can take.
LEMMA ColumnSettles ==
  ASSUME NEW a \in Unit, NEW b \in Unit, NEW m \in Carry, NEW carry \in Carry
  PROVE  LET c == Column(carry + a + b * m)
         IN  /\ c \in Settled
             /\ c.unit + c.carry * UnitBase = carry + a + b * m
<1> DEFINE sum == carry + a + b * m
           c == Column(sum)
<1>1. /\ c.unit \in Unit /\ c.carry \in Carry
      /\ c.unit + c.carry * UnitBase = sum
  BY ColumnIsExact DEF Unit, Carry
<1>2. sum \in Int /\ UnitBase \in Nat
  BY UnitFacts DEF Unit, Carry
<1> HIDE DEF sum
<1>3. c = [ unit |-> c.unit, carry |-> c.carry ]
  BY <1>2 DEF Column, Settle
<1>4. c \in Settled
  BY <1>1, <1>3 DEF Settled
<1> QED BY <1>1, <1>4 DEF sum

\* A sum has room for both operands.
LEMMA SumLengthType ==
  ASSUME NEW a \in Units, NEW b \in Units, NEW bshift \in Nat
  PROVE  /\ SumLength(a, b, bshift) \in Nat
         /\ SumLength(a, b, bshift) >= Len(a)
         /\ SumLength(a, b, bshift) >= Len(b) + bshift
  BY UnitsAreNatural DEF SumLength

\* Every column settles the sum of its Units and the carry of the one before.
LEMMA ColumnsUnfold ==
  ASSUME NEW a \in Units, NEW b \in Units, NEW bshift \in Nat, NEW m \in Carry
  PROVE  LET n == SumLength(a, b, bshift)
             c == Columns(a, b, bshift, m)
         IN  /\ c \in [0..n -> Settled]
             /\ c[0] = [ unit |-> 0, carry |-> 0 ]
             /\ \A i \in 1..n :
                  c[i].unit + c[i].carry * UnitBase
                    = c[i - 1].carry + UnitAt(a, i) + UnitAt(b, i - bshift) * m
<1> DEFINE n == SumLength(a, b, bshift)
           base == [ unit |-> 0, carry |-> 0 ]
           Sum(s, i) == s.carry + UnitAt(a, i) + UnitAt(b, i - bshift) * m
           Eq(f) == f = [ i \in 0..n |-> IF i = 0 THEN base
                                         ELSE Column(Sum(f[i - 1], i)) ]
           step == [ x \in Settled \X (1..n) |-> Column(Sum(x[1], x[2])) ]
<1>1. n \in Nat /\ base \in Settled
  BY SumLengthType, UnitFacts DEF Settled, Unit, Carry
<1>2. ASSUME NEW s \in Settled, NEW i \in 1..n
      PROVE  /\ Column(Sum(s, i)) \in Settled
             /\ Column(Sum(s, i)).unit + Column(Sum(s, i)).carry * UnitBase = Sum(s, i)
  <2>1. UnitAt(a, i) \in Unit /\ UnitAt(b, i - bshift) \in Unit
    BY <1>1, UnitsAreNatural
  <2>2. s.carry \in Carry
    BY DEF Settled
  <2> QED BY <2>1, <2>2, ColumnSettles
<1>3. \A s \in Settled, i \in 1..n : step[<<s, i>>] = Column(Sum(s, i))
  OBVIOUS
<1>4. Columns(a, b, bshift, m) = CHOOSE g : Eq(g)
  BY DEF Columns
<1> HIDE DEF step, n, base, Sum
<1>5. Steps(step, Settled, n)
  BY <1>2, <1>3 DEF Steps
<1>6. PICK f : Solves(f, Settled, base, n, step)
  BY <1>1, <1>5, Recursion
<1>7. Eq(f)
  <2>1. ASSUME NEW i \in 0..n, i # 0
        PROVE  f[i] = Column(Sum(f[i - 1], i))
    <3>1. i \in 1..n /\ f[i - 1] \in Settled
      BY <1>1, <1>6, <2>1 DEF Solves
    <3> QED BY <3>1, <1>3, <1>6 DEF Solves
  <2> QED BY <1>6, <2>1 DEF Solves
<1> DEFINE c == Columns(a, b, bshift, m)
<1>8. Eq(c)
  BY <1>4, <1>7
<1> HIDE DEF c
<1>9. c[0] = base /\ \A i \in 1..n : c[i] = Column(Sum(c[i - 1], i))
  BY <1>1, <1>8
<1> DEFINE T == { i \in 0..n : c[i] \notin Settled }
<1>10. T = {}
  <2>1. 0 \notin T /\ T \subseteq 0..n
    BY <1>1, <1>9
  <2>2. ASSUME NEW i \in 1..n, i - 1 \notin T PROVE i \notin T
    <3>1. c[i - 1] \in Settled
      BY <2>2, <1>1
    <3> QED BY <3>1, <1>1, <1>2, <1>9
  <2> HIDE DEF T
  <2> QED BY <1>1, <2>1, <2>2, Ascent
<1>11. c \in [0..n -> Settled]
  BY <1>8, <1>10
<1>12. \A i \in 1..n : c[i].unit + c[i].carry * UnitBase = Sum(c[i - 1], i)
  BY <1>1, <1>2, <1>9, <1>11
<1> QED BY <1>9, <1>11, <1>12 DEF c, n, base, Sum

\* Every digit of the complement settles what is to be added and the
\* difference to UnitBase - 1.
LEMMA ComplementsUnfold ==
  ASSUME NEW units \in Units
  PROVE  LET n == Len(units)
             d == Complements(units)
         IN  /\ d \in [0..n -> [ unit : Unit, add : {0, 1} ]]
             /\ d[0].add = 1
             /\ \A i \in 1..n :
                  d[i].unit + d[i].add * UnitBase
                    = UnitBase - 1 + d[i - 1].add - units[i]
<1> DEFINE n == Len(units)
           S == [ unit : Unit, add : {0, 1} ]
           base == [ unit |-> 0, add |-> 1 ]
           Sum(s, i) == UnitBase - 1 + s.add - units[i]
           Next1(s, i) == IF Sum(s, i) < UnitBase
                            THEN [ unit |-> Sum(s, i), add |-> 0 ]
                            ELSE [ unit |-> 0, add |-> 1 ]
           Eq(f) == f = [ i \in 0..n |-> IF i = 0 THEN base
                                         ELSE Next1(f[i - 1], i) ]
           step == [ x \in S \X (1..n) |-> Next1(x[1], x[2]) ]
<1>1. n \in Nat /\ base \in S
  BY UnitFacts DEF Unit, Units
<1>2. ASSUME NEW s \in S, NEW i \in 1..n
      PROVE  /\ Next1(s, i) \in S
             /\ Next1(s, i).unit + Next1(s, i).add * UnitBase = Sum(s, i)
  <2>1. units[i] \in 0..(UnitBase - 1) /\ s.add \in {0, 1} /\ UnitBase \in Nat
    BY UnitFacts DEF Unit, Units
  <2>2. Sum(s, i) \in 0..UnitBase
    BY <2>1
  <2> HIDE DEF Sum
  <2> QED BY <2>1, <2>2 DEF Unit
<1>3. \A s \in S, i \in 1..n : step[<<s, i>>] = Next1(s, i)
  OBVIOUS
<1>4. Complements(units) = CHOOSE g : Eq(g)
  BY DEF Complements
<1> HIDE DEF step, n, base, Next1, Sum, S
<1>5. Steps(step, S, n)
  BY <1>2, <1>3 DEF Steps
<1>6. PICK f : Solves(f, S, base, n, step)
  BY <1>1, <1>5, Recursion
<1>7. Eq(f)
  <2>1. ASSUME NEW i \in 0..n, i # 0
        PROVE  f[i] = Next1(f[i - 1], i)
    <3>1. i \in 1..n /\ f[i - 1] \in S
      BY <1>1, <1>6, <2>1 DEF Solves
    <3> QED BY <3>1, <1>3, <1>6 DEF Solves
  <2> QED BY <1>6, <2>1 DEF Solves
<1> DEFINE d == Complements(units)
<1>8. Eq(d)
  BY <1>4, <1>7
<1> HIDE DEF d
<1>9. d[0] = base /\ \A i \in 1..n : d[i] = Next1(d[i - 1], i)
  BY <1>1, <1>8
<1> DEFINE T == { i \in 0..n : d[i] \notin S }
<1>10. T = {}
  <2>1. 0 \notin T /\ T \subseteq 0..n
    BY <1>1, <1>9
  <2>2. ASSUME NEW i \in 1..n, i - 1 \notin T PROVE i \notin T
    <3>1. d[i - 1] \in S
      BY <2>2, <1>1
    <3> QED BY <3>1, <1>1, <1>2, <1>9
  <2> HIDE DEF T
  <2> QED BY <1>1, <2>1, <2>2, Ascent
<1>11. d \in [0..n -> S]
  BY <1>8, <1>10
<1>12. \A i \in 1..n : d[i].unit + d[i].add * UnitBase = Sum(d[i - 1], i)
  BY <1>1, <1>2, <1>9, <1>11
<1> QED BY <1>9, <1>11, <1>12 DEF d, n, base, Sum, S

\* b with bshift zero Units below it.
Shifted(b, bshift) ==
  [ i \in 1..(Len(b) + bshift) |-> UnitAt(b, i - bshift) ]

\* Shifting an array puts zeros below it.
LEMMA ShiftedArray ==
  ASSUME NEW b \in Arrays, NEW bshift \in Nat
  PROVE  /\ Shifted(b, bshift) \in Arrays
         /\ Len(Shifted(b, bshift)) = Len(b) + bshift
         /\ \A i \in Nat : UnitAt(Shifted(b, bshift), i) = UnitAt(b, i - bshift)
<1>1. Len(b) \in Nat /\ \A i \in 1..Len(b) : b[i] \in Nat
  BY DEF Arrays
<1>2. \A i \in Int : UnitAt(b, i) \in Nat
  BY <1>1 DEF UnitAt
<1>3. /\ Shifted(b, bshift) \in Seq(Nat)
      /\ Len(Shifted(b, bshift)) = Len(b) + bshift
  BY SMTT(30), <1>1, <1>2 DEF Shifted
<1>4. ASSUME NEW i \in Nat
      PROVE  UnitAt(Shifted(b, bshift), i) = UnitAt(b, i - bshift)
  BY <1>1, <1>3, <1>4 DEF UnitAt, Shifted
<1> QED BY <1>3, <1>4 DEF Arrays

\* Shifting Units puts zeros below them.
LEMMA ShiftedFacts ==
  ASSUME NEW b \in Units, NEW bshift \in Nat
  PROVE  /\ Shifted(b, bshift) \in Units
         /\ Len(Shifted(b, bshift)) = Len(b) + bshift
         /\ \A i \in Nat : UnitAt(Shifted(b, bshift), i) = UnitAt(b, i - bshift)
         /\ Shifted(b, 0) = b
<1>1. Len(b) \in Nat /\ \A i \in Int : UnitAt(b, i) \in Unit
  BY UnitsAreNatural
<1>2. /\ Shifted(b, bshift) \in Seq(Unit)
      /\ Len(Shifted(b, bshift)) = Len(b) + bshift
  BY <1>1 DEF Shifted
<1>3. ASSUME NEW i \in Nat
      PROVE  UnitAt(Shifted(b, bshift), i) = UnitAt(b, i - bshift)
  BY <1>1, <1>2 DEF UnitAt, Shifted
<1>4. Shifted(b, 0) = b
  <2>1. Shifted(b, 0) = [ i \in 1..Len(b) |-> b[i] ]
    BY <1>1 DEF Shifted, UnitAt
  <2> QED BY <2>1 DEF Units
<1> QED BY <1>2, <1>3, <1>4 DEF Units

\* Units followed by one more, that is zero or that ends the value.
LEMMA FromAppend ==
  ASSUME NEW uar \in Arrays, NEW top \in Nat,
         NEW E \in [1..(Len(uar) + 1) -> Int],
         E[Len(uar) + 1] = top,
         \A i \in 1..Len(uar) : E[i] = uar[i] + UnitBase * E[i + 1]
  PROVE  Value(Append(uar, top)) = E[1]
<1> DEFINE n == Len(uar)
           ext == Append(uar, top)
           F == [ i \in 1..(n + 2) |-> IF i = n + 2 THEN 0 ELSE E[i] ]
<1>1. /\ n \in Nat /\ ext \in Arrays /\ Len(ext) = n + 1
      /\ ext[n + 1] = top /\ \A i \in 1..n : ext[i] = uar[i]
  BY DEF Arrays
<1> HIDE DEF ext, n
<1>2. F \in [1..(Len(ext) + 1) -> Int]
  BY <1>1 DEF n
<1>3. F[Len(ext) + 1] = 0
  BY <1>1
<1>4. ASSUME NEW i \in 1..Len(ext)
      PROVE  F[i] = ext[i] + UnitBase * F[i + 1]
  <2>1. CASE i = n + 1
    <3>1. F[i] = E[n + 1] /\ F[i + 1] = 0 /\ ext[i] = top
      BY <1>1, <2>1
    <3>2. E[n + 1] = top
      BY DEF n
    <3> QED BY <3>1, <3>2, UnitFacts
  <2>2. CASE i # n + 1
    <3>1. i \in 1..n /\ i + 1 # n + 2
      BY <1>1, <2>2
    <3>2. F[i] = E[i] /\ F[i + 1] = E[i + 1] /\ ext[i] = uar[i]
      BY <1>1, <3>1
    <3>3. E[i] = uar[i] + UnitBase * E[i + 1]
      BY <3>1 DEF n
    <3> QED BY <3>2, <3>3
  <2> QED BY <2>1, <2>2
<1>5. F[1] = E[1] /\ 1 \in 1..(Len(ext) + 1)
  BY <1>1
<1> HIDE DEF F
<1>6. F[1] = ValueFrom(ext, 1)
  BY <1>1, <1>2, <1>3, <1>4, <1>5, FromIs
<1> QED BY <1>5, <1>6 DEF Value, ext

\* decUnitAddSub computes a + b * m, b shifted by whole Units, for arrays of
\* any length: the Units of its result hold digits only, they stand for the
\* magnitude of that sum, the sign is its sign, and a Unit beyond the longer
\* operand is only there when it is not zero.
THEOREM UnitAddSubIsExact ==
  ASSUME NEW a \in Units, NEW b \in Units, NEW bshift \in Nat, NEW m \in Carry
  PROVE  LET n      == SumLength(a, b, bshift)
             sum    == Value(a) + m * Value(Shifted(b, bshift))
             result == UnitAddSub(a, b, bshift, m)
         IN  /\ result.units \in Units
             /\ result.neg <=> sum < 0
             /\ Value(result.units) = (IF result.neg THEN -sum ELSE sum)
             /\ \/ Len(result.units) = n
                \/ Len(result.units) = n + 1 /\ result.units[n + 1] # 0
<1> DEFINE n == SumLength(a, b, bshift)
           c == Columns(a, b, bshift, m)
           s == Shifted(b, bshift)
           units == [ i \in 1..n |-> c[i].unit ]
           E == [ i \in 1..(n + 1) |->
                    ValueFrom(a, i) + m * ValueFrom(s, i) + c[i - 1].carry ]
           sum == Value(a) + m * Value(s)
           result == UnitAddSub(a, b, bshift, m)
<1>1. /\ n \in Nat /\ n >= Len(a) /\ n >= Len(s)
      /\ a \in Arrays /\ s \in Arrays /\ s \in Units
      /\ Len(a) \in Nat /\ Len(s) \in Nat
      /\ m \in Int /\ UnitBase \in Nat /\ UnitBase >= 10
  <2>1. s \in Units /\ Len(s) = Len(b) + bshift
    BY ShiftedFacts
  <2>2. n \in Nat /\ n >= Len(a) /\ n >= Len(b) + bshift
    BY SumLengthType
  <2>3. m \in Int
    BY UnitFacts DEF Carry
  <2> HIDE DEF n, s
  <2> QED BY <2>1, <2>2, <2>3, UnitsAreNatural, UnitFacts
<1>2. /\ c \in [0..n -> Settled] /\ c[0].carry = 0
      /\ \A i \in 1..n : c[i].unit + c[i].carry * UnitBase
                           = c[i - 1].carry + UnitAt(a, i) + UnitAt(s, i) * m
  <2>1. c \in [0..n -> Settled] /\ c[0].carry = 0
    BY ColumnsUnfold
  <2>2. ASSUME NEW i \in 1..n
        PROVE  c[i].unit + c[i].carry * UnitBase
                 = c[i - 1].carry + UnitAt(a, i) + UnitAt(s, i) * m
    <3>1. i \in Nat
      BY <1>1
    <3>2. UnitAt(s, i) = UnitAt(b, i - bshift)
      BY <3>1, ShiftedFacts
    <3> QED BY <3>2, ColumnsUnfold
  <2> QED BY <2>1, <2>2
<1> DEFINE k == c[n].carry
<1>3. /\ result.neg <=> k < 0
      /\ result.units = CASE k = 0 -> units
                          [] k > 0 -> Append(units, k)
                          [] k < 0 -> Complement(units, k)
  BY DEF UnitAddSub
<1> HIDE DEF n, c, s, result
<1>4. \A i \in 0..n : /\ c[i].unit \in Unit /\ c[i].unit \in Nat
                      /\ c[i].unit <= UnitBase - 1
                      /\ c[i].carry \in Carry /\ c[i].carry \in Int
  BY SMTT(30), <1>1, <1>2, UnitFacts DEF Settled, Carry, Unit
<1>5. \A i \in 1..(n + 1) : ValueFrom(a, i) \in Nat /\ ValueFrom(s, i) \in Nat
  BY <1>1, FromStep
<1>6. E \in [1..(n + 1) -> Int]
  <2>1. ASSUME NEW i \in 1..(n + 1)
        PROVE  ValueFrom(a, i) + m * ValueFrom(s, i) + c[i - 1].carry \in Int
    <3>1. i - 1 \in 0..n
      BY <1>1
    <3> QED BY <3>1, <1>1, <1>4, <1>5
  <2> QED BY <2>1
<1>7. E[1] = sum /\ E[n + 1] = k
  <2>1. ValueFrom(a, n + 1) = 0 /\ ValueFrom(s, n + 1) = 0
    <3>1. n + 1 \in Nat /\ n + 1 # 0 /\ n + 1 > Len(a) /\ n + 1 > Len(s)
      BY <1>1
    <3> QED BY <1>1, <3>1, FromStep
  <2>2. 1 \in 1..(n + 1) /\ n + 1 \in 1..(n + 1) /\ 1 - 1 = 0 /\ (n + 1) - 1 = n
    BY <1>1
  <2>3. E[1] = ValueFrom(a, 1) + m * ValueFrom(s, 1) + 0
    BY <1>2, <2>2
  <2>4. E[n + 1] = 0 + m * 0 + c[n].carry
    BY <2>1, <2>2
  <2>5. ValueFrom(a, 1) \in Nat /\ ValueFrom(s, 1) \in Nat /\ c[n].carry \in Int
    BY <1>1, <1>4, <1>5, <2>2
  <2> QED BY <1>1, <2>3, <2>4, <2>5 DEF Value
<1>8. ASSUME NEW i \in 1..n
      PROVE  E[i] = c[i].unit + UnitBase * E[i + 1]
  <2>1. /\ i \in Nat /\ i # 0 /\ i \in 1..(n + 1) /\ i + 1 \in 1..(n + 1)
        /\ (i + 1) - 1 = i /\ i - 1 \in 0..n /\ i \in 0..n
    BY <1>1
  <2>2. /\ UnitAt(a, i) \in Int /\ ValueFrom(a, i + 1) \in Int
        /\ UnitAt(s, i) \in Int /\ ValueFrom(s, i + 1) \in Int
        /\ ValueFrom(a, i) = UnitAt(a, i) + UnitBase * ValueFrom(a, i + 1)
        /\ ValueFrom(s, i) = UnitAt(s, i) + UnitBase * ValueFrom(s, i + 1)
    <3>1. i + 1 \in Nat /\ a \in Arrays /\ s \in Arrays
      BY <1>1, <2>1
    <3>2. /\ UnitAt(a, i) \in Nat
          /\ ValueFrom(a, i) = UnitAt(a, i) + UnitBase * ValueFrom(a, i + 1)
      BY <2>1, <3>1, FromStep
    <3>3. /\ UnitAt(s, i) \in Nat
          /\ ValueFrom(s, i) = UnitAt(s, i) + UnitBase * ValueFrom(s, i + 1)
      BY <2>1, <3>1, FromStep
    <3>4. ValueFrom(a, i + 1) \in Nat /\ ValueFrom(s, i + 1) \in Nat
      BY <1>5, <2>1
    <3> QED BY <3>2, <3>3, <3>4
  <2>3. /\ c[i - 1].carry \in Int /\ c[i].carry \in Int /\ c[i].unit \in Int
        /\ UnitBase \in Int
    BY SMTT(30), <1>1, <1>4, <2>1
  <2>4. E[i] = (UnitAt(a, i) + UnitBase * ValueFrom(a, i + 1))
                 + m * (UnitAt(s, i) + UnitBase * ValueFrom(s, i + 1))
                 + c[i - 1].carry
    BY <2>1, <2>2
  <2>5. E[i + 1] = ValueFrom(a, i + 1) + m * ValueFrom(s, i + 1) + c[i].carry
    BY <2>1
  <2>6. c[i].unit + c[i].carry * UnitBase
          = c[i - 1].carry + UnitAt(a, i) + UnitAt(s, i) * m
    BY <1>2
  <2>7. (UnitAt(a, i) + UnitBase * ValueFrom(a, i + 1))
           + m * (UnitAt(s, i) + UnitBase * ValueFrom(s, i + 1))
           + c[i - 1].carry
         = c[i].unit + UnitBase
             * (ValueFrom(a, i + 1) + m * ValueFrom(s, i + 1) + c[i].carry)
    <3> DEFINE a0 == UnitAt(a, i)
               a1 == ValueFrom(a, i + 1)
               b0 == UnitAt(s, i)
               b1 == ValueFrom(s, i + 1)
               k0 == c[i - 1].carry
               k1 == c[i].carry
               u  == c[i].unit
    <3>1. /\ a0 \in Int /\ a1 \in Int /\ b0 \in Int /\ b1 \in Int
          /\ k0 \in Int /\ k1 \in Int /\ u \in Int /\ m \in Int /\ UnitBase \in Int
          /\ u + k1 * UnitBase = k0 + a0 + b0 * m
      BY <1>1, <2>2, <2>3, <2>6
    <3> HIDE DEF a0, a1, b0, b1, k0, k1, u
    <3>2. UnitBase * (a1 + m * b1 + k1) = UnitBase * a1 + UnitBase * (m * b1) + k1 * UnitBase
      BY <3>1
    <3>3. m * (b0 + UnitBase * b1) = b0 * m + UnitBase * (m * b1)
      BY <3>1
    <3>4. /\ UnitBase * a1 \in Int /\ UnitBase * (m * b1) \in Int
          /\ k1 * UnitBase \in Int /\ b0 * m \in Int
      BY <3>1
    <3>5. (a0 + UnitBase * a1) + m * (b0 + UnitBase * b1) + k0
            = u + UnitBase * (a1 + m * b1 + k1)
      BY <3>1, <3>2, <3>3, <3>4
    <3> QED BY <3>5 DEF a0, a1, b0, b1, k0, k1, u
  <2> QED BY <2>4, <2>5, <2>7
<1>9. /\ units \in Units /\ units \in Arrays /\ Len(units) = n
      /\ \A i \in 1..n : units[i] = c[i].unit
  <2>1. \A i \in 1..n : c[i].unit \in Unit
    BY <1>1, <1>4
  <2>2. units \in Seq(Unit) /\ Len(units) = n
    BY <1>1, <2>1
  <2> QED BY <2>2, UnitsAreNatural DEF Units
<1>10. k \in Int /\ k \in Carry /\ n \in 0..n
  BY <1>1, <1>4
<1>11. \A i \in 1..n : E[i] = units[i] + UnitBase * E[i + 1]
  BY <1>8, <1>9
<1> HIDE DEF E, units, sum, k
<1>12. CASE k = 0
  <2>1. result.units = units /\ ~result.neg
    <3>1. ~(k > 0) /\ ~(k < 0)
      BY <1>10, <1>12
    <3>2. result.units = units
      BY <1>3, <1>12, <3>1
    <3> QED BY <1>3, <3>1, <3>2
  <2>2. E[1] = ValueFrom(units, 1)
    <3>1. /\ E \in [1..(Len(units) + 1) -> Int] /\ E[Len(units) + 1] = 0
          /\ \A i \in 1..Len(units) : E[i] = units[i] + UnitBase * E[i + 1]
      BY <1>6, <1>7, <1>9, <1>11, <1>12
    <3>2. 1 \in 1..(Len(units) + 1)
      BY <1>1, <1>9
    <3> QED BY <1>9, <3>1, <3>2, FromIs
  <2>3. sum \in Nat
    BY <1>1, <1>7, <1>9, <2>2, FromStep
  <2> QED BY <1>7, <1>9, <2>1, <2>2, <2>3 DEF Value, sum, result, s, n
<1>13. CASE k > 0
  <2>1. result.units = Append(units, k) /\ ~result.neg
    <3>1. ~(k = 0) /\ ~(k < 0)
      BY <1>10, <1>13
    <3>2. result.units = Append(units, k)
      BY <1>3, <1>13, <3>1
    <3> QED BY <1>3, <3>1, <3>2
  <2>2. k \in Unit /\ k \in Nat
    BY <1>1, <1>10, <1>13 DEF Unit, Carry
  <2>3. /\ result.units \in Units /\ Len(result.units) = n + 1
        /\ result.units[n + 1] = k
    BY <1>1, <1>9, <2>1, <2>2 DEF Units
  <2>4. Value(result.units) = E[1]
    BY <1>6, <1>7, <1>9, <1>11, <2>1, <2>2, FromAppend
  <2>5. sum \in Nat
    <3>1. result.units \in Arrays
      BY <2>3, UnitsAreNatural
    <3>2. ValueFrom(result.units, 1) \in Nat
      BY <3>1, FromStep
    <3> QED BY <1>7, <2>4, <3>2 DEF Value
  <2> QED BY <1>7, <1>13, <2>1, <2>3, <2>4, <2>5 DEF sum, result, s, n
<1>14. CASE k < 0
  <2> DEFINE d == Complements(units)
             top == d[n].add - k - 1
             low == [ i \in 1..n |-> d[i].unit ]
             Y == [ i \in 1..(n + 1) |-> d[i - 1].add - 1 - E[i] ]
  <2>1. /\ d \in [0..n -> [ unit : Unit, add : {0, 1} ]] /\ d[0].add = 1
        /\ \A i \in 1..n : d[i].unit + d[i].add * UnitBase
                             = UnitBase - 1 + d[i - 1].add - units[i]
    BY <1>9, ComplementsUnfold
  <2>2. /\ result.units = (IF top # 0 THEN Append(low, top) ELSE low)
        /\ result.neg
    <3>1. result.units = Complement(units, k) /\ result.neg
      <4>1. ~(k = 0) /\ ~(k > 0)
        BY <1>10, <1>14
      <4> QED BY <1>3, <1>14, <4>1
    <3> QED BY <1>9, <3>1 DEF Complement
  <2> HIDE DEF d
  <2>3. \A i \in 0..n : /\ d[i].unit \in Unit /\ d[i].unit \in Nat
                        /\ d[i].add \in {0, 1}
    BY <2>1, UnitFacts
  <2>4. top \in Unit /\ top \in Nat
    <3>1. d[n].add \in {0, 1} /\ k \in (1 - UnitBase)..(-1)
      BY <1>1, <1>10, <1>14, <2>3 DEF Carry
    <3>2. PICK add \in {0, 1} : add = d[n].add
      BY <3>1
    <3>3. UnitBase \in Nat /\ top = add - k - 1
      BY <3>2, UnitSizes
    <3>4. add - k - 1 \in 0..(UnitBase - 1) /\ add - k - 1 \in Nat
      BY <3>1, <3>2, <3>3
    <3> HIDE DEF top
    <3> QED BY <3>3, <3>4 DEF Unit
  <2>5. /\ low \in Units /\ low \in Arrays /\ Len(low) = n
        /\ \A i \in 1..n : low[i] = d[i].unit
    <3>1. \A i \in 1..n : d[i].unit \in Unit
      BY <1>1, <2>3
    <3>2. low \in Seq(Unit) /\ Len(low) = n
      BY <1>1, <3>1
    <3> QED BY <3>2, UnitsAreNatural DEF Units
  <2>6. Y \in [1..(n + 1) -> Int]
    <3>1. ASSUME NEW i \in 1..(n + 1) PROVE d[i - 1].add - 1 - E[i] \in Int
      <4>1. i - 1 \in 0..n
        BY <1>1
      <4>2. d[i - 1].add \in Int /\ E[i] \in Int
        BY <4>1, <1>6, <2>3
      <4> QED BY <4>2
    <3> QED BY <3>1
  <2>7. Y[n + 1] = top /\ Y[1] = -sum
    <3>1. n + 1 \in 1..(n + 1) /\ 1 \in 1..(n + 1) /\ (n + 1) - 1 = n /\ 1 - 1 = 0
      BY <1>1
    <3>2. Y[n + 1] = d[n].add - 1 - k /\ Y[1] = 1 - 1 - sum
      BY <1>7, <2>1, <3>1
    <3>3. d[n].add \in Int /\ sum \in Int
      BY <1>6, <1>7, <1>10, <2>3, <3>1
    <3> QED BY <1>10, <3>2, <3>3
  <2>8. ASSUME NEW i \in 1..n
        PROVE  Y[i] = low[i] + UnitBase * Y[i + 1]
    <3>1. /\ i \in 1..(n + 1) /\ i + 1 \in 1..(n + 1)
          /\ (i + 1) - 1 = i /\ i - 1 \in 0..n /\ i \in 0..n
      BY <1>1
    <3>2. /\ Y[i] = d[i - 1].add - 1 - E[i]
          /\ Y[i + 1] = d[i].add - 1 - E[i + 1]
      BY <3>1
    <3>3. E[i] = units[i] + UnitBase * E[i + 1]
      BY <1>11
    <3>4. d[i].unit + d[i].add * UnitBase = UnitBase - 1 + d[i - 1].add - units[i]
      BY <2>1
    <3>5. /\ d[i].unit \in Int /\ d[i].add \in Int /\ d[i - 1].add \in Int
          /\ units[i] \in Int /\ E[i] \in Int /\ E[i + 1] \in Int /\ UnitBase \in Int
      <4>1. d[i].unit \in Int /\ d[i].add \in Int /\ d[i - 1].add \in Int
        BY <2>3, <3>1
      <4>2. E[i] \in Int /\ E[i + 1] \in Int
        BY <1>6, <3>1
      <4>3. units[i] \in Int /\ UnitBase \in Int
        BY <1>1, <1>4, <1>9, <3>1
      <4> QED BY <4>1, <4>2, <4>3
    <3>6. low[i] = d[i].unit
      BY <2>5
    <3> HIDE DEF Y, low
    <3> DEFINE x == d[i].add
               e == E[i + 1]
    <3>7. x \in Int /\ e \in Int /\ UnitBase \in Int
      BY <3>5
    <3> HIDE DEF x, e
    <3>8. UnitBase * (x - 1 - e) = x * UnitBase - UnitBase - UnitBase * e
      BY <3>7
    <3>9. x * UnitBase \in Int /\ UnitBase * e \in Int
      BY <3>7
    <3>10. /\ Y[i] = d[i - 1].add - 1 - (units[i] + UnitBase * e)
           /\ UnitBase * Y[i + 1] = x * UnitBase - UnitBase - UnitBase * e
           /\ d[i].unit + x * UnitBase = UnitBase - 1 + d[i - 1].add - units[i]
      BY <3>2, <3>3, <3>4, <3>8 DEF x, e
    <3> QED BY <3>5, <3>6, <3>7, <3>9, <3>10
  <2> HIDE DEF Y, low, top
  <2>9. /\ result.units \in Units
        /\ Value(result.units) = -sum
    <3>1. CASE top # 0
      <4>1. Value(Append(low, top)) = Y[1]
        BY <2>4, <2>5, <2>6, <2>7, <2>8, FromAppend
      <4>2. Append(low, top) \in Units
        BY <2>4, <2>5 DEF Units
      <4> QED BY <2>2, <2>7, <3>1, <4>1, <4>2
    <3>2. CASE top = 0
      <4>1. 1 \in 1..(Len(low) + 1)
        BY <1>1, <2>5
      <4>2. /\ Y \in [1..(Len(low) + 1) -> Int] /\ Y[Len(low) + 1] = 0
            /\ \A i \in 1..Len(low) : Y[i] = low[i] + UnitBase * Y[i + 1]
        BY <2>5, <2>6, <2>7, <2>8, <3>2
      <4>3. Y[1] = ValueFrom(low, 1)
        BY <2>5, <4>1, <4>2, FromIs
      <4> QED BY <2>2, <2>5, <2>7, <3>2, <4>3 DEF Value
    <3> QED BY <3>1, <3>2
  <2>10. \/ Len(result.units) = n
         \/ Len(result.units) = n + 1 /\ result.units[n + 1] # 0
    BY <1>1, <2>2, <2>4, <2>5
  <2>11. sum \in Int /\ sum < 0
    <3> DEFINE T == { i \in 0..n : E[i + 1] >= 0 }
    <3>1. n \notin T /\ T \subseteq 0..n
      BY <1>1, <1>7, <1>10, <1>14
    <3>2. ASSUME NEW i \in 0..(n - 1), i + 1 \notin T PROVE i \notin T
      <4>1. /\ i + 1 \in 1..n /\ i + 1 \in 0..n /\ (i + 1) + 1 = i + 2
            /\ i + 1 \in 1..(n + 1) /\ i + 2 \in 1..(n + 1)
        BY <1>1
      <4>2. E[i + 2] \in Int /\ E[i + 1] \in Int
        BY <1>6, <4>1
      <4>3. E[i + 2] < 0
        BY <3>2, <4>1, <4>2
      <4>4. E[i + 1] = units[i + 1] + UnitBase * E[i + 2]
        BY <1>11, <4>1
      <4>5. units[i + 1] \in Nat /\ units[i + 1] <= UnitBase - 1
        BY <1>4, <1>9, <4>1
      <4>6. UnitBase * E[i + 2] <= -UnitBase
        <5> DEFINE e == E[i + 2]
        <5>1. e \in Int /\ e <= -1 /\ UnitBase \in Nat
          BY <1>1, <4>2, <4>3
        <5> HIDE DEF e
        <5>2. UnitBase * e <= UnitBase * (-1)
          BY <5>1
        <5> QED BY <1>1, <5>1, <5>2 DEF e
      <4> QED BY SMTT(30), <1>1, <4>2, <4>4, <4>5, <4>6
    <3>3. 0 \notin T => E[1] < 0
      <4>1. 0 \in 0..n /\ E[0 + 1] = E[1] /\ E[1] \in Int
        BY <1>1, <1>6
      <4> QED BY <4>1
    <3>4. E[1] \in Int
      BY <1>1, <1>6
    <3> HIDE DEF T
    <3>5. T = {}
      BY <1>1, <3>1, <3>2, Descent
    <3> QED BY <1>7, <3>3, <3>4, <3>5
  <2> QED BY <2>2, <2>9, <2>10, <2>11 DEF sum, result, s, n
<1> QED BY <1>10, <1>12, <1>13, <1>14

----------------------------------------------------------------------------
(* Parts of an array, and comparing arrays Unit by Unit.                   *)

\* Arrays that agree, one of them shift Units up, stand for the same number.
LEMMA SameItems ==
  ASSUME NEW base \in Nat, base >= 1,
         NEW u \in Arrays, NEW v \in Arrays, NEW shift \in Nat,
         NEW i \in Nat, i # 0,
         \A j \in Nat : j >= i => UnitAt(u, j) = UnitAt(v, j + shift)
  PROVE  Horner(base, u, i) = Horner(base, v, i + shift)
<1> DEFINE n == i + Len(u) + Len(v)
           T == { k \in 0..n : k >= i /\ Horner(base, u, k) # Horner(base, v, k + shift) }
<1>1. n \in Nat /\ n > Len(u) /\ n > Len(v) /\ n >= i
  BY DEF Arrays
<1> HIDE DEF n
<1>2. n \notin T
  <2>1. Horner(base, u, n) = 0
    <3>1. n \in Nat /\ n # 0 /\ n > Len(u)
      BY <1>1 DEF Arrays
    <3> QED BY <3>1, HornerStep
  <2>2. Horner(base, v, n + shift) = 0
    <3>1. n + shift \in Nat /\ n + shift # 0 /\ n + shift > Len(v)
      BY <1>1 DEF Arrays
    <3> QED BY <3>1, HornerStep
  <2> QED BY <2>1, <2>2
<1>3. ASSUME NEW k \in 0..(n - 1), k + 1 \notin T PROVE k \notin T
  <2>1. SUFFICES ASSUME k >= i PROVE Horner(base, u, k) = Horner(base, v, k + shift)
    OBVIOUS
  <2>2. /\ k \in Nat /\ k # 0 /\ k + 1 \in 0..n /\ k + 1 >= i
        /\ k + shift \in Nat /\ k + shift # 0 /\ (k + 1) + shift = (k + shift) + 1
    BY <1>1, <2>1
  <2>3. Horner(base, u, k + 1) = Horner(base, v, (k + shift) + 1)
    BY <1>3, <2>2
  <2>4. UnitAt(u, k) = UnitAt(v, k + shift)
    BY <2>1, <2>2
  <2>5. Horner(base, u, k) = UnitAt(u, k) + base * Horner(base, u, k + 1)
    BY <2>2, HornerStep
  <2>6. Horner(base, v, k + shift)
          = UnitAt(v, k + shift) + base * Horner(base, v, (k + shift) + 1)
    BY <2>2, HornerStep
  <2> QED BY <2>3, <2>4, <2>5, <2>6
<1>4. T \subseteq 0..n /\ i \in 0..n /\ (i \notin T => Horner(base, u, i) = Horner(base, v, i + shift))
  BY <1>1
<1> HIDE DEF T
<1>5. T = {}
  BY <1>1, <1>2, <1>3, <1>4, Descent
<1> QED BY <1>4, <1>5

\* Equal Units from an index up are worth the same.
LEMMA SameUnits ==
  ASSUME NEW u \in Arrays, NEW v \in Arrays, NEW shift \in Nat,
         NEW i \in Nat, i # 0,
         \A j \in Nat : j >= i => UnitAt(u, j) = UnitAt(v, j + shift)
  PROVE  ValueFrom(u, i) = ValueFrom(v, i + shift)
  BY SameItems, UnitFacts DEF ValueFrom

\* The powers of a base, from zero up to n; those of UnitBase are the weights
\* of the Units.
Powers(base, w, n) ==
  Solves(w, Nat, 1, n, [ x \in Nat \X (1..n) |-> base * x[1] ])
Weights(w, n) == Powers(UnitBase, w, n)

\* Every base has its powers.
LEMMA PowersExist ==
  ASSUME NEW base \in Nat, base >= 1,
         NEW n \in Nat
  PROVE  \E w : Powers(base, w, n)
<1> DEFINE step == [ x \in Nat \X (1..n) |-> base * x[1] ]
<1>1. ASSUME NEW s \in Nat, NEW i \in 1..n PROVE step[<<s, i>>] \in Nat
  <2>1. step[<<s, i>>] = base * s
    OBVIOUS
  <2>2. base * s \in Nat
    OBVIOUS
  <2> QED BY <2>1, <2>2
<1> HIDE DEF step
<1>2. Steps(step, Nat, n) /\ 1 \in Nat
  BY <1>1 DEF Steps
<1>3. \E f : Solves(f, Nat, 1, n, step)
  BY <1>2, Recursion
<1> QED BY <1>3 DEF Powers, step

\* So have the Units their weights.
LEMMA WeightsExist ==
  ASSUME NEW n \in Nat
  PROVE  \E w : Weights(w, n)
  BY PowersExist, UnitFacts DEF Weights

\* A power is positive, and the base times the power before.
LEMMA PowerFacts ==
  ASSUME NEW base \in Nat, base >= 1,
         NEW n \in Nat, NEW w, Powers(base, w, n)
  PROVE  /\ w[0] = 1
         /\ \A i \in 0..n : w[i] \in Nat /\ w[i] > 0
         /\ \A i \in 1..n : w[i] = base * w[i - 1]
<1>1. w \in [0..n -> Nat] /\ w[0] = 1
  BY DEF Powers, Solves
<1>2. ASSUME NEW i \in 1..n PROVE w[i] = base * w[i - 1]
  <2>1. w[i - 1] \in Nat
    BY <1>1
  <2>2. w[i] = [ x \in Nat \X (1..n) |-> base * x[1] ][<<w[i - 1], i>>]
    BY DEF Powers, Solves
  <2> QED BY <2>1, <2>2
<1> DEFINE T == { i \in 0..n : w[i] = 0 }
<1>3. 0 \notin T /\ T \subseteq 0..n
  BY <1>1
<1>4. ASSUME NEW i \in 1..n, i - 1 \notin T PROVE i \notin T
  <2>1. w[i - 1] \in Nat /\ w[i - 1] > 0
    BY <1>1, <1>4
  <2>2. base * w[i - 1] # 0
    BY <2>1
  <2> QED BY <1>2, <2>2
<1>5. \A i \in 0..n : i \notin T => w[i] > 0
  BY <1>1
<1> HIDE DEF T
<1>6. T = {}
  BY <1>3, <1>4, Ascent
<1> QED BY <1>1, <1>2, <1>5, <1>6

\* A weight is positive, and UnitBase times the weight before.
LEMMA WeightFacts ==
  ASSUME NEW n \in Nat, NEW w, Weights(w, n)
  PROVE  /\ w[0] = 1
         /\ \A i \in 0..n : w[i] \in Nat /\ w[i] > 0
         /\ \A i \in 1..n : w[i] = UnitBase * w[i - 1]
  BY PowerFacts, UnitFacts DEF Weights

\* The Units below an index are worth less than one at that index.
LEMMA SplitItems ==
  ASSUME NEW base \in Nat, base >= 1, NEW n \in Nat, NEW w, Powers(base, w, n),
         NEW u \in Arrays, \A k \in Int : UnitAt(u, k) < base, NEW i \in 0..n
  PROVE  \E low \in 0..(w[i] - 1) : Horner(base, u, 1) = low + w[i] * Horner(base, u, i + 1)
<1> DEFINE T == { k \in 0..n : ~ \E low \in 0..(w[k] - 1) :
                                   Horner(base, u, 1) = low + w[k] * Horner(base, u, k + 1) }
<1>1. /\ w[0] = 1
      /\ \A k \in 0..n : w[k] \in Nat /\ w[k] > 0
      /\ \A k \in 1..n : w[k] = base * w[k - 1]
  BY PowerFacts
<1>2. /\ u \in Arrays
      /\ \A k \in Int : UnitAt(u, k) < base
  OBVIOUS
<1>3. 0 \notin T
  <2>1. 1 \in Nat /\ Horner(base, u, 1) \in Nat
    BY <1>2, HornerStep
  <2>2. Horner(base, u, 1) = 0 + 1 * Horner(base, u, 0 + 1)
    BY <2>1
  <2> QED BY <1>1, <2>2
<1>4. ASSUME NEW k \in 1..n, k - 1 \notin T PROVE k \notin T
  <2>1. /\ k - 1 \in 0..n /\ k \in Nat /\ k # 0 /\ k \in 0..n
        /\ (k - 1) + 1 = k /\ k + 1 \in Nat /\ k + 1 # 0
    OBVIOUS
  <2>2. PICK low \in 0..(w[k - 1] - 1) :
             Horner(base, u, 1) = low + w[k - 1] * Horner(base, u, k)
    BY <1>4, <2>1
  <2> DEFINE unit == UnitAt(u, k)
             high == Horner(base, u, k + 1)
             size == w[k - 1]
  <2>3. Horner(base, u, k) = unit + base * high
    BY <1>2, <2>1, HornerStep
  <2>4. high \in Nat /\ size \in Nat /\ size > 0 /\ low \in 0..(size - 1)
    BY <1>1, <1>2, <2>1, HornerStep
  <2>5. unit \in 0..(base - 1)
    <3>1. k \in Int
      BY <2>1
    <3>2. unit < base
      BY <1>2, <3>1
    <3>3. unit \in Nat
      BY <1>2, <2>1, HornerStep
    <3> QED BY <3>2, <3>3
  <2>6. w[k] = base * size
    BY <1>1
  <2>7. Horner(base, u, 1) = low + size * (unit + base * high)
    BY <2>2, <2>3
  <2> HIDE DEF unit, high, size
  <2>8. size * (unit + base * high) = size * unit + (base * size) * high
    BY <2>4, <2>5
  <2>9. size * unit \in Nat /\ (base * size) * high \in Nat
    BY <2>4, <2>5
  <2>10. size * unit <= size * (base - 1)
    BY <2>4, <2>5
  <2>11. size * (base - 1) = base * size - size /\ base * size \in Nat
    BY <2>4, <2>5
  <2>12. low + size * unit \in 0..(w[k] - 1)
    BY <2>4, <2>6, <2>9, <2>10, <2>11
  <2>13. Horner(base, u, 1) = (low + size * unit) + w[k] * high
    BY <2>4, <2>6, <2>7, <2>8, <2>9
  <2> QED BY <2>12, <2>13 DEF high
<1>5. T \subseteq 0..n /\ (i \notin T => \E low \in 0..(w[i] - 1) :
                             Horner(base, u, 1) = low + w[i] * Horner(base, u, i + 1))
  OBVIOUS
<1> HIDE DEF T
<1>6. T = {}
  BY <1>3, <1>4, <1>5, Ascent
<1> QED BY <1>5, <1>6

\* Units below i are worth less than the weight of the Unit above them.
LEMMA SplitValue ==
  ASSUME NEW n \in Nat, NEW w, Weights(w, n), NEW u \in Units, NEW i \in 0..n
  PROVE  \E low \in 0..(w[i] - 1) : Value(u) = low + w[i] * ValueFrom(u, i + 1)
<1>1. UnitBase \in Nat /\ UnitBase >= 1 /\ Powers(UnitBase, w, n) /\ u \in Arrays
  BY UnitFacts, UnitsAreNatural DEF Weights
<1>2. ASSUME NEW k \in Int PROVE UnitAt(u, k) < UnitBase
  <2>1. UnitAt(u, k) \in Unit
    BY UnitsAreNatural
  <2> QED BY <1>1, <2>1 DEF Unit
<1>3. \E low \in 0..(w[i] - 1) :
        Horner(UnitBase, u, 1) = low + w[i] * Horner(UnitBase, u, i + 1)
  BY <1>1, <1>2, SplitItems
<1> QED BY <1>3 DEF Value, ValueFrom

\* What the Units below an index are worth depends on nothing else.
LEMMA LowItems ==
  ASSUME NEW base \in Nat, base >= 1,
         NEW n \in Nat, NEW w, Powers(base, w, n), NEW u \in Arrays, NEW v \in Arrays,
         NEW i \in 0..n,
         \A j \in 1..i : UnitAt(u, j) = UnitAt(v, j)
  PROVE  Horner(base, u, 1) - w[i] * Horner(base, u, i + 1)
           = Horner(base, v, 1) - w[i] * Horner(base, v, i + 1)
<1> DEFINE Same(k) == Horner(base, u, 1) - w[k] * Horner(base, u, k + 1)
                        = Horner(base, v, 1) - w[k] * Horner(base, v, k + 1)
           T == { k \in 0..n : k <= i /\ ~Same(k) }
<1>1. /\ w[0] = 1
      /\ \A k \in 0..n : w[k] \in Nat /\ w[k] > 0
      /\ \A k \in 1..n : w[k] = base * w[k - 1]
  BY PowerFacts
<1>2. u \in Arrays /\ v \in Arrays
  OBVIOUS
<1>3. 0 \notin T
  <2>1. Horner(base, u, 1) \in Nat /\ Horner(base, v, 1) \in Nat
    BY <1>2, 1 \in Nat, 1 # 0, HornerStep
  <2>2. /\ w[0] * Horner(base, u, 0 + 1) = Horner(base, u, 1)
        /\ w[0] * Horner(base, v, 0 + 1) = Horner(base, v, 1)
    BY <1>1, <2>1
  <2> QED BY <2>1, <2>2
<1>4. ASSUME NEW k \in 1..n, k - 1 \notin T PROVE k \notin T
  <2> SUFFICES ASSUME k <= i PROVE Same(k)
    OBVIOUS
  <2>1. /\ k - 1 \in 0..n /\ k \in Nat /\ k # 0 /\ (k - 1) + 1 = k
        /\ k - 1 <= i /\ k \in 1..i
    OBVIOUS
  <2>2. Same(k - 1)
    BY <1>4, <2>1
  <2> DEFINE size == w[k - 1]
             a == Horner(base, u, k + 1)
             b == Horner(base, v, k + 1)
             unit == UnitAt(u, k)
  <2>3. /\ Horner(base, u, k) = unit + base * a
        /\ Horner(base, v, k) = unit + base * b
        /\ unit \in Nat
    <3>1. UnitAt(v, k) = unit
      BY <2>1
    <3> QED BY <1>2, <2>1, <3>1, HornerStep
  <2>4. a \in Nat /\ b \in Nat
    <3>1. k + 1 \in Nat /\ k + 1 # 0
      BY <2>1
    <3> QED BY <1>2, <3>1, HornerStep
  <2>5. size \in Nat /\ w[k] = base * size
    BY <1>1, <2>1
  <2>6. Horner(base, u, 1) - size * (unit + base * a) = Horner(base, v, 1) - size * (unit + base * b)
    BY <2>1, <2>2, <2>3
  <2>7. Horner(base, u, 1) \in Nat /\ Horner(base, v, 1) \in Nat
    BY <1>2, 1 \in Nat, 1 # 0, HornerStep
  <2>8. ASSUME NEW x \in {a, b}
        PROVE  /\ size * (unit + base * x) = size * unit + w[k] * x
               /\ size * unit \in Nat /\ w[k] * x \in Nat
    <3>1. x \in Nat
      BY <2>4
    <3> HIDE DEF size, a, b, unit
    <3>2. size * (unit + base * x) = size * unit + (base * size) * x
      BY <2>3, <2>5, <3>1
    <3>3. (base * size) * x \in Nat /\ size * unit \in Nat
      BY <2>3, <2>5, <3>1
    <3> QED BY <2>5, <3>2, <3>3
  <2>9. /\ size * (unit + base * a) = size * unit + w[k] * a
        /\ size * (unit + base * b) = size * unit + w[k] * b
        /\ size * unit \in Nat /\ w[k] * a \in Nat /\ w[k] * b \in Nat
    BY <2>8
  <2> HIDE DEF size, unit
  <2> QED BY SMTT(30), <2>6, <2>7, <2>9
<1>5. T \subseteq 0..n /\ (i \notin T => Same(i))
  OBVIOUS
<1> HIDE DEF T
<1>6. T = {}
  BY <1>3, <1>4, <1>5, Ascent
<1> QED BY <1>5, <1>6

\* Equal Units up to i are worth the same.
LEMMA LowPart ==
  ASSUME NEW n \in Nat, NEW w, Weights(w, n), NEW u \in Units, NEW v \in Units,
         NEW i \in 0..n,
         \A j \in 1..i : UnitAt(u, j) = UnitAt(v, j)
  PROVE  Value(u) - w[i] * ValueFrom(u, i + 1) = Value(v) - w[i] * ValueFrom(v, i + 1)
  BY LowItems, UnitFacts, UnitsAreNatural DEF ValueFrom, Value, Weights

\* Moved up by a number of Units, an array is worth so many times more.
LEMMA ShiftedItems ==
  ASSUME NEW base \in Nat, base >= 1,
         NEW n \in Nat, NEW w, Powers(base, w, n), NEW b \in Arrays, NEW i \in 0..n
  PROVE  Horner(base, Shifted(b, i), 1) = w[i] * Horner(base, b, 1)
<1> DEFINE s == Shifted(b, i)
<1>1. /\ s \in Arrays /\ b \in Arrays
      /\ \A j \in Nat : UnitAt(s, j) = UnitAt(b, j - i)
  BY i \in Nat, ShiftedArray
<1>2. << >> \in Arrays /\ Len(<< >>) = 0
  BY DEF Arrays
<1> HIDE DEF s
<1>3. ASSUME NEW j \in 1..i PROVE UnitAt(s, j) = UnitAt(<< >>, j)
  <2>1. j \in Nat /\ j - i \notin 1..Len(b)
    OBVIOUS
  <2>2. UnitAt(b, j - i) = 0
    BY <2>1 DEF UnitAt
  <2>3. UnitAt(<< >>, j) = 0
    BY <1>2 DEF UnitAt
  <2> QED BY <1>1, <2>1, <2>2, <2>3
<1>4. Horner(base, s, 1) - w[i] * Horner(base, s, i + 1)
        = Horner(base, << >>, 1) - w[i] * Horner(base, << >>, i + 1)
  BY <1>1, <1>2, <1>3, LowItems
<1>5. Horner(base, << >>, 1) = 0 /\ Horner(base, << >>, i + 1) = 0
  <2>1. 1 \in Nat /\ 1 # 0 /\ 1 > 0 /\ i + 1 \in Nat /\ i + 1 # 0 /\ i + 1 > 0
    OBVIOUS
  <2> QED BY <1>2, <2>1, HornerStep
<1>6. Horner(base, b, 1) = Horner(base, s, 1 + i)
  <2>1. ASSUME NEW j \in Nat, j >= 1 PROVE UnitAt(b, j) = UnitAt(s, j + i)
    <3>1. j + i \in Nat /\ (j + i) - i = j
      OBVIOUS
    <3> QED BY <1>1, <3>1
  <2> QED BY <1>1, <2>1, 1 \in Nat, 1 # 0, i \in Nat, SameItems
<1>7. 1 + i = i + 1
  OBVIOUS
<1>8. w[i] \in Nat /\ Horner(base, s, 1) \in Nat /\ Horner(base, s, i + 1) \in Nat
  <2>1. 1 \in Nat /\ 1 # 0 /\ i + 1 \in Nat /\ i + 1 # 0
    OBVIOUS
  <2> QED BY <1>1, <2>1, HornerStep, PowerFacts
<1>9. w[i] * Horner(base, s, i + 1) \in Nat /\ w[i] * 0 = 0
  BY <1>8
<1>10. Horner(base, s, 1) = w[i] * Horner(base, s, i + 1)
  BY <1>4, <1>5, <1>8, <1>9
<1> QED BY <1>6, <1>7, <1>10 DEF s

\* A shift multiplies by the weight of the places it shifts by.
LEMMA ShiftedValue ==
  ASSUME NEW n \in Nat, NEW w, Weights(w, n), NEW b \in Units, NEW i \in 0..n
  PROVE  Value(Shifted(b, i)) = w[i] * Value(b)
  BY ShiftedItems, UnitFacts, UnitsAreNatural DEF ValueFrom, Value, Weights

\* An array is worth less than a Unit beyond its end.
LEMMA BelowWeight ==
  ASSUME NEW n \in Nat, NEW w, Weights(w, n), NEW u \in Units,
         NEW i \in 0..n, i >= Len(u)
  PROVE  Value(u) < w[i]
<1>1. PICK low \in 0..(w[i] - 1) : Value(u) = low + w[i] * ValueFrom(u, i + 1)
  BY SplitValue
<1>2. i + 1 \in Nat /\ i + 1 # 0 /\ i + 1 > Len(u) /\ u \in Arrays
  BY UnitsAreNatural
<1>3. ValueFrom(u, i + 1) = 0
  BY <1>2, FromStep
<1> QED BY <1>1, <1>3, WeightFacts

\* A Unit that is not zero is worth its weight at least.
LEMMA AboveWeight ==
  ASSUME NEW n \in Nat, NEW w, Weights(w, n), NEW u \in Units,
         NEW i \in 1..n, UnitAt(u, i) # 0
  PROVE  Value(u) >= w[i - 1]
<1>1. i - 1 \in 0..n /\ (i - 1) + 1 = i /\ i \in Nat /\ i # 0 /\ u \in Arrays
  BY UnitsAreNatural
<1>2. PICK low \in 0..(w[i - 1] - 1) : Value(u) = low + w[i - 1] * ValueFrom(u, i)
  BY <1>1, SplitValue
<1>3. /\ ValueFrom(u, i) = UnitAt(u, i) + UnitBase * ValueFrom(u, i + 1)
      /\ UnitAt(u, i) \in Nat /\ ValueFrom(u, i) \in Nat
  BY <1>1, FromStep
<1>4. ValueFrom(u, i + 1) \in Nat
  <2>1. i + 1 \in Nat /\ i + 1 # 0
    BY <1>1
  <2> QED BY <1>1, <2>1, FromStep
<1>5. ValueFrom(u, i) >= 1
  <2>1. UnitBase * ValueFrom(u, i + 1) \in Nat
    BY <1>4, UnitFacts
  <2> QED BY <1>3, <2>1
<1>6. w[i - 1] \in Nat
  BY <1>1, WeightFacts
<1>7. w[i - 1] * ValueFrom(u, i) \in Nat /\ w[i - 1] * ValueFrom(u, i) >= w[i - 1]
  BY <1>3, <1>5, <1>6
<1> QED BY <1>2, <1>6, <1>7

\* The first Units that differ, from the top, decide a comparison.
LEMMA CompareUnits ==
  ASSUME NEW u \in Units, NEW v \in Units, NEW i \in Nat, i # 0,
         UnitAt(u, i) < UnitAt(v, i),
         \A j \in Nat : j > i => UnitAt(u, j) = UnitAt(v, j)
  PROVE  Value(u) < Value(v)
<1>1. PICK w : Weights(w, i)
  BY WeightsExist
<1>2. /\ i - 1 \in 0..i /\ (i - 1) + 1 = i /\ i + 1 \in Nat /\ i + 1 # 0
      /\ u \in Arrays /\ v \in Arrays
  BY UnitsAreNatural
<1> DEFINE size == w[i - 1]
<1>3. size \in Nat /\ size > 0
  BY <1>1, <1>2, WeightFacts
<1>4. PICK low \in 0..(size - 1) : Value(u) = low + size * ValueFrom(u, i)
  BY <1>1, <1>2, SplitValue
<1>5. PICK lov \in 0..(size - 1) : Value(v) = lov + size * ValueFrom(v, i)
  BY <1>1, <1>2, SplitValue
<1>6. /\ ValueFrom(u, i) = UnitAt(u, i) + UnitBase * ValueFrom(u, i + 1)
      /\ ValueFrom(v, i) = UnitAt(v, i) + UnitBase * ValueFrom(v, i + 1)
      /\ ValueFrom(u, i) \in Nat /\ ValueFrom(v, i) \in Nat
      /\ UnitAt(u, i) \in Nat /\ UnitAt(v, i) \in Nat
  BY <1>2, FromStep
<1>7. ValueFrom(u, i + 1) = ValueFrom(v, i + 1) /\ ValueFrom(v, i + 1) \in Nat
  <2>1. \A j \in Nat : j >= i + 1 => UnitAt(u, j) = UnitAt(v, j + 0)
    OBVIOUS
  <2>2. ValueFrom(u, i + 1) = ValueFrom(v, (i + 1) + 0)
    BY <1>2, <2>1, 0 \in Nat, SameUnits
  <2>3. (i + 1) + 0 = i + 1
    OBVIOUS
  <2> QED BY <1>2, <2>2, <2>3, FromStep
<1> HIDE DEF size
<1>8. ValueFrom(u, i) + 1 <= ValueFrom(v, i)
  BY <1>6, <1>7, UnitFacts
<1>9. size * (ValueFrom(u, i) + 1) <= size * ValueFrom(v, i)
  BY <1>3, <1>6, <1>8
<1>10. size * (ValueFrom(u, i) + 1) = size * ValueFrom(u, i) + size
  BY <1>3, <1>6
<1> QED BY <1>3, <1>4, <1>5, <1>6, <1>9, <1>10

----------------------------------------------------------------------------
(* The greatest member of a set of indices, and the digits of a Unit.      *)

\* A set of indices that is not empty has a greatest element.
LEMMA Greatest ==
  ASSUME NEW n \in Nat, NEW T, T \subseteq 1..n, T # {}
  PROVE  Max(T) \in T /\ \A y \in T : y <= Max(T)
<1> DEFINE M == { k \in 0..n : n - k \in T }
<1>1. \A t \in T : n - t \in M
  OBVIOUS
<1>2. M \subseteq Nat /\ M # {}
  <2>1. PICK t \in T : TRUE
    OBVIOUS
  <2>2. n - t \in M
    BY <1>1
  <2>3. M \subseteq Nat
    OBVIOUS
  <2> QED BY <2>2, <2>3
<1>3. \A k \in M : n - k \in T
  OBVIOUS
<1> HIDE DEF M
<1>4. PICK k \in M : \A y \in M : k <= y
  BY <1>2, Least
<1>5. \A y \in T : n - k >= y
  BY <1>1, <1>2, <1>4
<1> QED BY <1>3, <1>5 DEF Max

----------------------------------------------------------------------------
(* Quotients.                                                              *)

\* A quotient and a remainder are the ones there are.
LEMMA QuotientIs ==
  ASSUME NEW m \in Nat, m > 0, NEW c \in Nat, NEW r \in 0..(m - 1),
         NEW x, x = m * c + r
  PROVE  x \in Nat /\ x \div m = c /\ x % m = r
<1>1. m * c \in Nat
  OBVIOUS
<1>2. x \in Nat
  BY <1>1
<1> DEFINE d == x \div m
           e == x % m
<1>3. d \in Nat /\ e \in 0..(m - 1) /\ x = m * d + e
  BY <1>2
<1> HIDE DEF d, e
<1>4. d = c
  <2>1. CASE d < c
    <3>1. m * (d + 1) <= m * c
      BY <1>3, <2>1
    <3>2. m * (d + 1) = m * d + m
      BY <1>3
    <3> QED BY <1>1, <1>3, <3>1, <3>2
  <2>2. CASE d > c
    <3>1. m * (c + 1) <= m * d
      BY <1>3, <2>2
    <3>2. m * (c + 1) = m * c + m
      OBVIOUS
    <3> QED BY <1>1, <1>3, <3>1, <3>2
  <2> QED BY <1>3, <2>1, <2>2
<1>5. e = r
  BY <1>1, <1>3, <1>4
<1> QED BY <1>2, <1>4, <1>5 DEF d, e

\* A multiple that is added goes into the quotient.
LEMMA QuotientOfSum ==
  ASSUME NEW m \in Nat, m > 0, NEW a \in Nat, NEW c \in Nat
  PROVE  (a + m * c) \div m = (a \div m) + c
<1> DEFINE d == a \div m
           e == a % m
           x == a + m * c
<1>1. d \in Nat /\ e \in 0..(m - 1) /\ a = m * d + e
  OBVIOUS
<1>2. x = m * (d + c) + e
  <2> HIDE DEF d, e
  <2> QED BY <1>1
<1> HIDE DEF d, e, x
<1>3. d + c \in Nat
  BY <1>1
<1>4. x \div m = d + c
  <2> DEFINE y == d + c
  <2>1. y \in Nat /\ x = m * y + e
    BY <1>2, <1>3
  <2> HIDE DEF y
  <2>2. x \div m = y
    BY <1>1, <2>1, QuotientIs
  <2> QED BY <2>2 DEF y
<1> QED BY <1>4 DEF x, d

\* Quotients of quotients, of a number made of two parts.
LEMMA QuotientOfParts ==
  ASSUME NEW p \in Nat, p > 0, NEW r \in Nat, r > 0,
         NEW a \in 0..(p - 1), NEW b \in Nat
  PROVE  (a + b * p) \div (p * r) = b \div r
<1> DEFINE d == b \div r
           e == b % r
           x == a + b * p
           m == p * r
           f == a + e * p
<1>1. d \in Nat /\ e \in 0..(r - 1) /\ b = r * d + e
  OBVIOUS
<1>2. x = m * d + f
  <2> HIDE DEF d, e
  <2>1. b * p = (r * d) * p + e * p
    BY <1>1
  <2>2. (r * d) * p = (p * r) * d
    BY <1>1
  <2> QED BY <1>1, <2>1, <2>2
<1>3. m \in Nat /\ m > 0
  OBVIOUS
<1>4. f \in 0..(m - 1)
  <2> HIDE DEF d, e
  <2>1. (e + 1) * p <= r * p
    BY <1>1
  <2>2. (e + 1) * p = e * p + p /\ r * p = p * r /\ e * p \in Nat
    BY <1>1
  <2> QED BY <1>1, <1>3, <2>1, <2>2
<1> HIDE DEF d, e, x, m, f
<1>5. x \div m = d
  BY <1>1, <1>2, <1>3, <1>4, QuotientIs
<1> QED BY <1>5 DEF x, m, d

----------------------------------------------------------------------------
(* Powers of ten, and the digits of a number.                              *)

\* The powers of a base are the same in every range.
LEMMA PowersAgree ==
  ASSUME NEW base \in Nat, base >= 1, NEW n \in Nat, NEW m \in Nat, m <= n,
         NEW w, Powers(base, w, n), NEW v, Powers(base, v, m)
  PROVE  w[m] = v[m]
<1> DEFINE T == { i \in 0..m : w[i] # v[i] }
<1>1. w[0] = 1 /\ v[0] = 1
  BY PowerFacts
<1>2. \A i \in 1..n : w[i] = base * w[i - 1]
  BY PowerFacts
<1>3. \A i \in 1..m : v[i] = base * v[i - 1]
  BY PowerFacts
<1>4. ASSUME NEW i \in 1..m, i - 1 \notin T PROVE i \notin T
  <2>1. i \in 1..n /\ i - 1 \in 0..m
    OBVIOUS
  <2>2. w[i - 1] = v[i - 1]
    BY <1>4, <2>1
  <2>3. w[i] = base * w[i - 1] /\ v[i] = base * v[i - 1]
    BY <1>2, <1>3, <2>1
  <2> QED BY <2>2, <2>3
<1>5. 0 \notin T /\ T \subseteq 0..m /\ m \in 0..m
  BY <1>1
<1>6. T = {} => w[m] = v[m]
  BY <1>5
<1> HIDE DEF T
<1> QED BY <1>4, <1>5, <1>6, Ascent

\* The powers of ten satisfy their recursion.
LEMMA TenIs ==
  /\ Ten = [ n \in Nat |-> Ten[n] ]
  /\ Ten[0] = 1
  /\ \A n \in Nat : n > 0 => Ten[n] = 10 * Ten[n - 1]
  /\ \A n \in Nat : Ten[n] \in Nat /\ Ten[n] > 0
<1> DEFINE Pow(n) == CHOOSE w : Powers(10, w, n)
           Eq(g) == g = [ n \in Nat |-> IF n < 10 THEN DECPOWERS[n + 1] ELSE 10 * g[n - 1] ]
           f == [ n \in Nat |-> Pow(n)[n] ]
<1>1. ASSUME NEW n \in Nat PROVE Powers(10, Pow(n), n)
  <2>1. \E w : Powers(10, w, n)
    BY PowersExist
  <2> QED BY <2>1
<1> HIDE DEF Pow
<1>2. ASSUME NEW n \in Nat
      PROVE  f[n] \in Nat /\ f[n] > 0 /\ f[n] = IF n = 0 THEN 1 ELSE 10 * f[n - 1]
  <2>1. Powers(10, Pow(n), n)
    BY <1>1
  <2>2. /\ Pow(n)[0] = 1
        /\ \A i \in 0..n : Pow(n)[i] \in Nat /\ Pow(n)[i] > 0
        /\ \A i \in 1..n : Pow(n)[i] = 10 * Pow(n)[i - 1]
    BY <2>1, PowerFacts
  <2>3. n \in 0..n /\ (n > 0 => n \in 1..n)
    OBVIOUS
  <2>4. CASE n = 0
    BY <2>2, <2>3, <2>4
  <2>5. CASE n > 0
    <3>1. n - 1 \in Nat
      BY <2>5
    <3> DEFINE m == n - 1
    <3>2. m \in Nat /\ m <= n
      BY <3>1
    <3> HIDE DEF m
    <3>3. Powers(10, Pow(m), m)
      BY <1>1, <3>2
    <3>4. Pow(n)[m] = Pow(m)[m]
      BY <2>1, <3>2, <3>3, PowersAgree
    <3>5. f[n] = Pow(n)[n] /\ f[m] = Pow(m)[m]
      BY <3>2
    <3>6. Pow(n)[n] = 10 * Pow(n)[m]
      BY <2>2, <2>3, <2>5 DEF m
    <3> QED BY <2>2, <2>3, <2>5, <3>4, <3>5, <3>6 DEF m
  <2> QED BY <2>4, <2>5
<1>t. \A n \in Nat : n < 10 => f[n] = DECPOWERS[n + 1]
  <2> HIDE DEF f
  <2>1. f[0] = 1 /\ f[1] = 10 /\ f[2] = 100 /\ f[3] = 1000 /\ f[4] = 10000
    <3>1. \A n \in Nat : f[n] = IF n = 0 THEN 1 ELSE 10 * f[n - 1]
      BY <1>2
    <3>2. f[0] = 1
      BY <3>1
    <3>3. f[1] = 10 * f[0]
      BY <3>1
    <3>4. f[2] = 10 * f[1]
      BY <3>1
    <3>5. f[3] = 10 * f[2]
      BY <3>1
    <3>6. f[4] = 10 * f[3]
      BY <3>1
    <3> QED BY <3>2, <3>3, <3>4, <3>5, <3>6
  <2>2. f[5] = 100000 /\ f[6] = 1000000 /\ f[7] = 10000000 /\ f[8] = 100000000
        /\ f[9] = 1000000000
    <3>1. \A n \in Nat : f[n] = IF n = 0 THEN 1 ELSE 10 * f[n - 1]
      BY <1>2
    <3>2. f[5] = 10 * f[4]
      BY <3>1
    <3>3. f[6] = 10 * f[5]
      BY <3>1
    <3>4. f[7] = 10 * f[6]
      BY <3>1
    <3>5. f[8] = 10 * f[7]
      BY <3>1
    <3>6. f[9] = 10 * f[8]
      BY <3>1
    <3> QED BY <2>1, <3>2, <3>3, <3>4, <3>5, <3>6
  <2>3. /\ DECPOWERS[1] = 1 /\ DECPOWERS[2] = 10 /\ DECPOWERS[3] = 100
        /\ DECPOWERS[4] = 1000 /\ DECPOWERS[5] = 10000
        /\ DECPOWERS[6] = 100000 /\ DECPOWERS[7] = 1000000
        /\ DECPOWERS[8] = 10000000 /\ DECPOWERS[9] = 100000000
        /\ DECPOWERS[10] = 1000000000
    BY DEF DECPOWERS
  <2>4. SUFFICES ASSUME NEW n \in Nat, n < 10 PROVE f[n] = DECPOWERS[n + 1]
    OBVIOUS
  <2>5. \/ n = 0 \/ n = 1 \/ n = 2 \/ n = 3 \/ n = 4
        \/ n = 5 \/ n = 6 \/ n = 7 \/ n = 8 \/ n = 9
    BY <2>4
  <2> QED BY <2>1, <2>2, <2>3, <2>5
<1>3. Eq(f)
  <2>1. f = [ n \in Nat |-> f[n] ]
    OBVIOUS
  <2> HIDE DEF f
  <2>2. \A n \in Nat : f[n] = IF n < 10 THEN DECPOWERS[n + 1] ELSE 10 * f[n - 1]
    BY <1>2, <1>t
  <2> QED BY <2>1, <2>2
<1> HIDE DEF f
<1>4. Eq(Ten)
  <2>1. Ten = CHOOSE g : Eq(g)
    BY DEF Ten
  <2> QED BY <1>3, <2>1
<1>5. \A n \in Nat : Ten[n] = IF n < 10 THEN DECPOWERS[n + 1] ELSE 10 * Ten[n - 1]
  BY <1>4
<1>6. Ten = [ n \in Nat |-> Ten[n] ]
  <2>1. \A n \in Nat : (IF n < 10 THEN DECPOWERS[n + 1] ELSE 10 * Ten[n - 1]) = Ten[n]
    BY <1>5
  <2> QED BY <1>4, <2>1
<1>7. ASSUME NEW n \in Nat PROVE Ten[n] = f[n]
  <2> DEFINE T == { i \in 0..n : Ten[i] # f[i] }
  <2>1. \A i \in Nat : f[i] = IF i < 10 THEN DECPOWERS[i + 1] ELSE 10 * f[i - 1]
    BY <1>2, <1>t
  <2>2. ASSUME NEW i \in 1..n, i - 1 \notin T PROVE i \notin T
    <3>1. i \in Nat /\ i # 0 /\ i - 1 \in 0..n
      OBVIOUS
    <3>2. CASE i < 10
      <4>1. Ten[i] = DECPOWERS[i + 1] /\ f[i] = DECPOWERS[i + 1]
        BY <1>5, <2>1, <3>1, <3>2
      <4> QED BY <4>1
    <3>3. CASE ~(i < 10)
      <4>1. Ten[i] = 10 * Ten[i - 1] /\ f[i] = 10 * f[i - 1]
        BY <1>5, <2>1, <3>1, <3>3
      <4> QED BY <2>2, <3>1, <4>1
    <3> QED BY <3>2, <3>3
  <2>3. 0 \notin T /\ T \subseteq 0..n /\ n \in 0..n
    BY <1>5, <2>1
  <2>4. T = {} => Ten[n] = f[n]
    BY <2>3
  <2> HIDE DEF T
  <2> QED BY <2>2, <2>3, <2>4, Ascent
<1>8. \A n \in Nat : Ten[n] \in Nat /\ Ten[n] > 0
  BY <1>2, <1>7
<1>9. Ten[0] = 1 /\ \A n \in Nat : n > 0 => Ten[n] = 10 * Ten[n - 1]
  BY <1>2, <1>7
<1> HIDE DEF Eq
<1> QED BY <1>6, <1>8, <1>9

\* A power of ten is a positive natural, ten times the one before.
LEMMA TenNat ==
  ASSUME NEW n \in Nat
  PROVE  Ten[n] \in Nat /\ Ten[n] > 0
  BY TenIs

LEMMA TenNext ==
  ASSUME NEW n \in Nat
  PROVE  Ten[n + 1] = 10 * Ten[n]
<1>1. n + 1 \in Nat /\ n + 1 > 0 /\ (n + 1) - 1 = n
  OBVIOUS
<1> QED BY <1>1, TenIs

\* The powers a code path names.
LEMMA TenSmall ==
  Ten[0] = 1 /\ Ten[1] = 10 /\ Ten[2] = 100 /\ Ten[3] = 1000 /\ Ten[4] = 10000
<1>1. Ten[0] = 1 /\ Ten[0 + 1] = 10 * Ten[0] /\ Ten[1 + 1] = 10 * Ten[1]
      /\ Ten[2 + 1] = 10 * Ten[2] /\ Ten[3 + 1] = 10 * Ten[3]
  BY TenIs, TenNext, 0 \in Nat, 1 \in Nat, 2 \in Nat, 3 \in Nat
<1> QED BY <1>1

\* Exponents add up.
LEMMA TenSum ==
  ASSUME NEW a \in Nat, NEW b \in Nat
  PROVE  Ten[a + b] = Ten[a] * Ten[b]
<1> DEFINE T == { i \in 0..b : Ten[a + i] # Ten[a] * Ten[i] }
<1>1. 0 \notin T /\ T \subseteq 0..b /\ b \in 0..b
  <2>1. a + 0 = a /\ Ten[a] * 1 = Ten[a]
    BY TenNat
  <2> QED BY <2>1, TenIs
<1>2. ASSUME NEW i \in 1..b, i - 1 \notin T PROVE i \notin T
  <2> DEFINE j == i - 1
  <2>1. j \in Nat /\ j \in 0..b /\ i = j + 1 /\ a + i = (a + j) + 1 /\ a + j \in Nat
    OBVIOUS
  <2>2. Ten[a + j] = Ten[a] * Ten[j]
    BY <1>2, <2>1
  <2> HIDE DEF j
  <2>3. Ten[i] = 10 * Ten[j] /\ Ten[a + i] = 10 * Ten[a + j]
    BY <2>1, TenNext
  <2>4. Ten[a] \in Nat /\ Ten[j] \in Nat
    BY <2>1, TenNat
  <2>5. 10 * (Ten[a] * Ten[j]) = Ten[a] * (10 * Ten[j])
    BY <2>4
  <2> QED BY <2>2, <2>3, <2>5
<1>3. T = {} => Ten[a + b] = Ten[a] * Ten[b]
  BY <1>1
<1> HIDE DEF T
<1> QED BY <1>1, <1>2, <1>3, Ascent

\* They grow.
LEMMA TenMonotone ==
  ASSUME NEW a \in Nat, NEW b \in Nat, a <= b
  PROVE  Ten[a] <= Ten[b]
<1> DEFINE d == b - a
<1>1. d \in Nat /\ b = a + d
  OBVIOUS
<1> HIDE DEF d
<1>2. Ten[b] = Ten[a] * Ten[d] /\ Ten[a] \in Nat /\ Ten[d] \in Nat /\ Ten[d] > 0
  BY <1>1, TenSum, TenNat
<1> QED BY <1>2

LEMMA TenStrict ==
  ASSUME NEW a \in Nat, NEW b \in Nat, a < b
  PROVE  10 * Ten[a] <= Ten[b]
<1>1. a + 1 \in Nat /\ a + 1 <= b
  OBVIOUS
<1>2. Ten[a + 1] <= Ten[b]
  BY <1>1, TenMonotone
<1> QED BY <1>2, TenNext

LEMMA TenExceeds ==
  ASSUME NEW n \in Nat
  PROVE  n < Ten[n]
<1> DEFINE T == { i \in 0..n : ~(i < Ten[i]) }
<1>1. 0 \notin T /\ T \subseteq 0..n /\ n \in 0..n
  BY TenIs
<1>2. ASSUME NEW i \in 1..n, i - 1 \notin T PROVE i \notin T
  <2>1. i - 1 \in 0..n /\ i \in Nat /\ i > 0 /\ i - 1 \in Nat
    OBVIOUS
  <2>2. i - 1 < Ten[i - 1]
    BY <1>2, <2>1
  <2>3. Ten[i] = 10 * Ten[i - 1] /\ Ten[i - 1] \in Nat
    BY <2>1, TenIs
  <2> QED BY <2>1, <2>2, <2>3
<1>3. T = {} => n < Ten[n]
  BY <1>1
<1> HIDE DEF T
<1> QED BY <1>1, <1>2, <1>3, Ascent

\* A Unit holds DECDPUN digits.
LEMMA UnitIsTen == UnitBase = Ten[DECDPUN]
  BY UnitSizes, TenSmall

\* decGetDigits: the least number of digits, at least one, that holds c.
LEMMA DigitsAre ==
  ASSUME NEW c \in Nat
  PROVE  /\ GetDigits(c) \in Nat /\ GetDigits(c) >= 1
         /\ c < Ten[GetDigits(c)]
         /\ GetDigits(c) > 1 => Ten[GetDigits(c) - 1] <= c
<1> DEFINE P == { k \in Nat : c < Ten[k] }
           From(k) == { j \in P : j >= k }
           Eq(f) == f = [ k \in Nat |-> IF c < Ten[k] THEN k ELSE f[k + 1] ]
           count == CHOOSE f : Eq(f)
           Low(S) == IF S = {} THEN 0 ELSE CHOOSE j \in S : \A i \in S : j <= i
           first == [ k \in Nat |-> Low(From(k)) ]
<1>1. ASSUME NEW k \in Nat
      PROVE  first[k] = IF k \in P THEN k ELSE first[k + 1]
  <2>1. CASE k \in P
    <3>1. k \in From(k) /\ \A i \in From(k) : k <= i
      BY <2>1
    <3>2. \A j \in From(k) : (\A i \in From(k) : j <= i) => j = k
      BY <3>1
    <3>3. Low(From(k)) = k
      BY <3>1, <3>2
    <3> QED BY <2>1, <3>3
  <2>2. CASE k \notin P
    <3>1. From(k) = From(k + 1)
      BY <2>2
    <3>2. k + 1 \in Nat
      OBVIOUS
    <3>3. first[k] = Low(From(k)) /\ first[k + 1] = Low(From(k + 1))
      BY <3>2
    <3> HIDE DEF Low, From, first
    <3> QED BY <2>2, <3>1, <3>3
  <2> QED BY <2>1, <2>2
<1>2. Eq(first)
  <2>1. \A k \in Nat : k \in P <=> c < Ten[k]
    OBVIOUS
  <2>2. first = [ k \in Nat |-> first[k] ]
    OBVIOUS
  <2> HIDE DEF first, P
  <2> QED BY <1>1, <2>1, <2>2
<1> HIDE DEF first
<1>3. Eq(count)
  BY <1>2
<1> HIDE DEF count
<1>4. \A k \in Nat : count[k] = IF c < Ten[k] THEN k ELSE count[k + 1]
  BY <1>3
<1>5. GetDigits(c) = count[1]
  BY DEF GetDigits, count
<1>6. PICK d \in From(1) : \A j \in From(1) : d <= j
  <2>1. c + 1 \in Nat /\ c + 1 < Ten[c + 1]
    BY TenExceeds
  <2>2. c + 1 \in From(1)
    BY <2>1, TenNat
  <2>3. From(1) \subseteq Nat
    OBVIOUS
  <2> HIDE DEF From
  <2> QED BY <2>2, <2>3, Least
<1>7. d \in Nat /\ d >= 1 /\ c < Ten[d] /\ \A k \in Nat : k >= 1 /\ k < d => ~(c < Ten[k])
  BY <1>6
<1> DEFINE T == { i \in 0..(d - 1) : count[i + 1] # count[1] }
<1>8. 0 \notin T /\ T \subseteq 0..(d - 1) /\ d - 1 \in 0..(d - 1) /\ d - 1 \in Nat
  BY <1>7
<1>9. ASSUME NEW i \in 1..(d - 1), i - 1 \notin T PROVE i \notin T
  <2>1. i \in Nat /\ i >= 1 /\ i < d /\ i - 1 \in 0..(d - 1) /\ (i - 1) + 1 = i
    BY <1>7
  <2>2. count[i] = count[1]
    BY <1>9, <2>1
  <2>3. count[i] = count[i + 1]
    BY <1>4, <1>7, <2>1
  <2> QED BY <2>2, <2>3
<1>10. T = {} => count[d] = count[1]
  BY <1>7, <1>8
<1> HIDE DEF T
<1>11. T = {}
  BY <1>8, <1>9, Ascent
<1>12. GetDigits(c) = d
  BY <1>4, <1>5, <1>7, <1>10, <1>11
<1>13. d > 1 => Ten[d - 1] <= c
  <2> SUFFICES ASSUME d > 1 PROVE Ten[d - 1] <= c
    OBVIOUS
  <2>1. d - 1 \in Nat /\ d - 1 >= 1 /\ d - 1 < d
    BY <1>7
  <2>2. ~(c < Ten[d - 1]) /\ Ten[d - 1] \in Nat
    BY <1>7, <2>1, TenNat
  <2> QED BY <2>2
<1> QED BY <1>7, <1>12, <1>13

\* The digits of a number are known by its bounds.
LEMMA DigitsUnique ==
  ASSUME NEW c \in Nat, NEW d \in Nat, d >= 1, c < Ten[d],
         d > 1 => Ten[d - 1] <= c
  PROVE  GetDigits(c) = d
<1> DEFINE g == GetDigits(c)
<1>1. g \in Nat /\ g >= 1 /\ c < Ten[g] /\ (g > 1 => Ten[g - 1] <= c)
  BY DigitsAre
<1> HIDE DEF g
<1>2. ASSUME g < d PROVE FALSE
  <2>1. d - 1 \in Nat /\ g <= d - 1 /\ d > 1
    BY <1>1, <1>2
  <2>2. Ten[g] <= Ten[d - 1] /\ Ten[g] \in Nat /\ Ten[d - 1] \in Nat
    BY <1>1, <2>1, TenMonotone, TenNat
  <2> QED BY <1>1, <2>1, <2>2
<1>3. ASSUME d < g PROVE FALSE
  <2>1. g - 1 \in Nat /\ d <= g - 1 /\ g > 1
    BY <1>1, <1>3
  <2>2. Ten[d] <= Ten[g - 1] /\ Ten[d] \in Nat /\ Ten[g - 1] \in Nat
    BY <1>1, <2>1, TenMonotone, TenNat
  <2> QED BY <1>1, <2>1, <2>2
<1> QED BY <1>1, <1>2, <1>3 DEF g

\* decGetDigits counts from one to the digits of a Unit.
LEMMA GetDigitsOfUnit ==
  ASSUME NEW c \in Unit
  PROVE  GetDigits(c) \in 1..DECDPUN
<1>1. c \in Nat /\ c < Ten[DECDPUN] /\ DECDPUN \in Nat
  BY UnitFacts, UnitSizes, UnitIsTen DEF Unit
<1> DEFINE g == GetDigits(c)
<1>2. g \in Nat /\ g >= 1 /\ (g > 1 => Ten[g - 1] <= c)
  BY <1>1, DigitsAre
<1> HIDE DEF g
<1>3. ASSUME g > DECDPUN PROVE FALSE
  <2>1. g - 1 \in Nat /\ DECDPUN <= g - 1 /\ g > 1
    BY <1>1, <1>2, <1>3, UnitSizes
  <2>2. Ten[DECDPUN] <= Ten[g - 1] /\ Ten[DECDPUN] \in Nat /\ Ten[g - 1] \in Nat
    BY <1>1, <2>1, TenMonotone, TenNat
  <2> QED BY <1>1, <1>2, <2>1, <2>2
<1> QED BY <1>1, <1>2, <1>3 DEF g

----------------------------------------------------------------------------
(* Arrays added up item by item, grown at the top, and their uniqueness.   *)

\* An array of digits is worth less than an item beyond its end.
LEMMA BelowItems ==
  ASSUME NEW base \in Nat, base >= 1, NEW n \in Nat, NEW w, Powers(base, w, n),
         NEW u \in Arrays, \A k \in Int : UnitAt(u, k) < base,
         NEW i \in 0..n, i >= Len(u)
  PROVE  Horner(base, u, 1) < w[i]
<1>1. PICK low \in 0..(w[i] - 1) : Horner(base, u, 1) = low + w[i] * Horner(base, u, i + 1)
  BY SplitItems
<1>2. i + 1 \in Nat /\ i + 1 # 0 /\ i + 1 > Len(u) /\ u \in Arrays
  BY DEF Arrays
<1>3. Horner(base, u, i + 1) = 0
  BY <1>2, HornerStep
<1> QED BY <1>1, <1>3, PowerFacts

\* The items from an index up are worth no more than all of them.
LEMMA AboveItems ==
  ASSUME NEW base \in Nat, base >= 1, NEW n \in Nat, NEW w, Powers(base, w, n),
         NEW u \in Arrays, NEW i \in 0..n
  PROVE  Horner(base, u, 1) >= w[i] * Horner(base, u, i + 1)
<1> DEFINE T == { k \in 0..n : ~(Horner(base, u, 1) >= w[k] * Horner(base, u, k + 1)) }
<1>1. /\ w[0] = 1
      /\ \A k \in 0..n : w[k] \in Nat /\ w[k] > 0
      /\ \A k \in 1..n : w[k] = base * w[k - 1]
  BY PowerFacts
<1>2. u \in Arrays
  OBVIOUS
<1>3. 0 \notin T
  <2>1. 1 \in Nat /\ Horner(base, u, 1) \in Nat /\ 0 + 1 = 1
    BY <1>2, 1 \in Nat, 1 # 0, HornerStep
  <2>2. w[0] * Horner(base, u, 0 + 1) = Horner(base, u, 1)
    BY <1>1, <2>1
  <2> QED BY <2>1, <2>2
<1>4. ASSUME NEW k \in 1..n, k - 1 \notin T PROVE k \notin T
  <2>1. /\ k - 1 \in 0..n /\ k \in Nat /\ k # 0 /\ k \in 0..n
        /\ (k - 1) + 1 = k /\ k + 1 \in Nat /\ k + 1 # 0
    OBVIOUS
  <2> DEFINE unit == UnitAt(u, k)
             high == Horner(base, u, k + 1)
             size == w[k - 1]
             all == Horner(base, u, 1)
  <2>2. all >= size * Horner(base, u, k)
    BY <1>4, <2>1
  <2>3. Horner(base, u, k) = unit + base * high /\ unit \in Nat
    BY <1>2, <2>1, HornerStep
  <2>4. high \in Nat /\ size \in Nat /\ all \in Nat
    BY <1>1, <1>2, <2>1, 1 \in Nat, 1 # 0, HornerStep
  <2>5. w[k] = base * size
    BY <1>1
  <2>6. all >= size * (unit + base * high)
    BY <2>2, <2>3
  <2> HIDE DEF unit, high, size, all
  <2>7. size * (unit + base * high) = size * unit + (base * size) * high
    BY <2>3, <2>4
  <2>8. size * unit \in Nat /\ (base * size) * high \in Nat
    BY <2>3, <2>4
  <2>9. all >= w[k] * high
    BY <2>4, <2>5, <2>6, <2>7, <2>8
  <2> QED BY <2>9 DEF all, high
<1>5. T \subseteq 0..n /\ (i \notin T => Horner(base, u, 1) >= w[i] * Horner(base, u, i + 1))
  OBVIOUS
<1> HIDE DEF T
<1>6. T = {}
  BY <1>3, <1>4, <1>5, Ascent
<1> QED BY <1>5, <1>6

\* A multiple of an array, moved up, added item by item and without carries.
IsSum(c, a, b, shift, m) ==
  /\ Len(c) = Len(a) /\ Len(b) + shift <= Len(a)
  /\ \A i \in 1..Len(a) : c[i] = a[i] + UnitAt(b, i - shift) * m

\* A multiple added at a shift adds its worth at that weight.
LEMMA AddedItems ==
  ASSUME NEW base \in Nat, base >= 1, NEW n \in Nat, NEW w, Powers(base, w, n),
         NEW a \in Arrays, NEW b \in Arrays, NEW c \in Arrays,
         NEW m \in Nat, NEW shift \in 0..n, IsSum(c, a, b, shift, m)
  PROVE  Horner(base, c, 1) = Horner(base, a, 1) + m * (w[shift] * Horner(base, b, 1))
<1> DEFINE s == Shifted(b, shift)
           E == [ i \in 1..(Len(c) + 1) |-> Horner(base, a, i) + m * Horner(base, s, i) ]
<1>0. /\ Len(c) = Len(a) /\ Len(b) + shift <= Len(a)
      /\ \A i \in 1..Len(a) : c[i] = a[i] + UnitAt(b, i - shift) * m
  BY DEF IsSum
<1>1. /\ s \in Arrays /\ a \in Arrays /\ c \in Arrays
      /\ Len(s) = Len(b) + shift
      /\ \A i \in Nat : UnitAt(s, i) = UnitAt(b, i - shift)
  BY shift \in Nat, ShiftedArray
<1>2. Len(a) \in Nat /\ Len(c) = Len(a) /\ Len(s) \in Nat /\ Len(s) <= Len(a)
  BY <1>0, <1>1 DEF Arrays
<1>3. Horner(base, s, 1) = w[shift] * Horner(base, b, 1)
  BY ShiftedItems
<1> HIDE DEF s
<1>4. ASSUME NEW i \in 1..(Len(c) + 1)
      PROVE  /\ Horner(base, a, i) \in Nat /\ Horner(base, s, i) \in Nat
             /\ m * Horner(base, s, i) \in Nat
  <2>1. i \in Nat /\ i # 0
    BY <1>2
  <2>2. Horner(base, a, i) \in Nat /\ Horner(base, s, i) \in Nat
    BY <1>1, <2>1, HornerStep
  <2> QED BY <2>2
<1>5. E \in [1..(Len(c) + 1) -> Int]
  BY <1>4
<1>6. E[Len(c) + 1] = 0
  <2>1. /\ Len(c) + 1 \in Nat /\ Len(c) + 1 # 0
        /\ Len(c) + 1 > Len(a) /\ Len(c) + 1 > Len(s) /\ Len(c) + 1 \in 1..(Len(c) + 1)
    BY <1>2
  <2>2. Horner(base, a, Len(c) + 1) = 0 /\ Horner(base, s, Len(c) + 1) = 0
    BY <1>1, <2>1, HornerStep
  <2> QED BY <2>1, <2>2
<1>7. ASSUME NEW i \in 1..Len(c) PROVE E[i] = c[i] + base * E[i + 1]
  <2>1. /\ i \in Nat /\ i # 0 /\ i + 1 \in 1..(Len(c) + 1) /\ i \in 1..(Len(c) + 1)
        /\ i \in 1..Len(a) /\ i + 1 \in Nat /\ i + 1 # 0
    BY <1>2
  <2> DEFINE x == Horner(base, a, i + 1)
             y == Horner(base, s, i + 1)
             t == UnitAt(s, i)
  <2>2. Horner(base, a, i) = a[i] + base * x /\ a[i] \in Nat
    <3>1. UnitAt(a, i) = a[i]
      BY <2>1 DEF UnitAt
    <3>2. Horner(base, a, i) = UnitAt(a, i) + base * x /\ UnitAt(a, i) \in Nat
      BY <1>1, <2>1, HornerStep
    <3> QED BY <3>1, <3>2
  <2>3. Horner(base, s, i) = t + base * y /\ t \in Nat
    BY <1>1, <2>1, HornerStep
  <2>4. x \in Nat /\ y \in Nat
    BY <1>1, <2>1, HornerStep
  <2>5. c[i] = a[i] + t * m
    BY <1>0, <1>1, <2>1
  <2>6. E[i] = (a[i] + base * x) + m * (t + base * y) /\ E[i + 1] = x + m * y
    BY <2>1, <2>2, <2>3
  <2> HIDE DEF x, y, t, E
  <2>7. m * (t + base * y) = t * m + base * (m * y)
    BY <2>3, <2>4
  <2>8. base * (x + m * y) = base * x + base * (m * y)
    BY <2>4
  <2>9. t * m \in Nat /\ base * (m * y) \in Nat /\ base * x \in Nat
    BY <2>3, <2>4
  <2> QED BY <2>2, <2>5, <2>6, <2>7, <2>8, <2>9
<1>8. 1 \in 1..(Len(c) + 1) /\ E[1] = Horner(base, a, 1) + m * Horner(base, s, 1)
  BY <1>2
<1> HIDE DEF E
<1>9. E[1] = Horner(base, c, 1)
  BY <1>1, <1>5, <1>6, <1>7, <1>8, HornerIs
<1> QED BY <1>3, <1>8, <1>9

\* One more item at the top.
LEMMA ExtendedItems ==
  ASSUME NEW base \in Nat, base >= 1, NEW n \in Nat, NEW w, Powers(base, w, n),
         NEW z \in Arrays, NEW r \in 1..n, r <= Len(z)
  PROVE  Horner(base, SubSeq(z, 1, r), 1)
           = Horner(base, SubSeq(z, 1, r - 1), 1) + w[r - 1] * z[r]
<1> DEFINE u == SubSeq(z, 1, r)
           v == SubSeq(z, 1, r - 1)
<1>1. /\ z \in Seq(Nat) /\ Len(z) \in Nat /\ r \in Nat /\ r # 0
      /\ \A k \in 1..Len(z) : z[k] \in Nat
  BY DEF Arrays
<1>2. /\ u \in Arrays /\ Len(u) = r /\ \A k \in 1..r : u[k] = z[k]
      /\ v \in Arrays /\ Len(v) = r - 1 /\ \A k \in 1..(r - 1) : v[k] = z[k]
  BY <1>1 DEF Arrays
<1> HIDE DEF u, v
<1>3. \A k \in 1..(r - 1) : UnitAt(u, k) = UnitAt(v, k)
  BY <1>1, <1>2 DEF UnitAt
<1>4. Horner(base, u, 1) - w[r - 1] * Horner(base, u, (r - 1) + 1)
        = Horner(base, v, 1) - w[r - 1] * Horner(base, v, (r - 1) + 1)
  <2>1. r - 1 \in 0..n
    OBVIOUS
  <2> QED BY <1>2, <1>3, <2>1, LowItems
<1>5. (r - 1) + 1 = r
  OBVIOUS
<1>6. Horner(base, u, r) = z[r] /\ z[r] \in Nat
  <2>1. Horner(base, u, r) = UnitAt(u, r) + base * Horner(base, u, r + 1)
    BY <1>1, <1>2, HornerStep
  <2>2. Horner(base, u, r + 1) = 0
    <3>1. r + 1 \in Nat /\ r + 1 # 0 /\ r + 1 > Len(u)
      BY <1>1, <1>2
    <3> QED BY <1>2, <3>1, HornerStep
  <2>3. UnitAt(u, r) = z[r] /\ z[r] \in Nat
    BY <1>1, <1>2 DEF UnitAt
  <2> QED BY <2>1, <2>2, <2>3
<1>7. Horner(base, v, r) = 0
  <2>1. r > Len(v)
    BY <1>1, <1>2
  <2> QED BY <1>1, <1>2, <2>1, HornerStep
<1>8. w[r - 1] \in Nat /\ Horner(base, u, 1) \in Nat /\ Horner(base, v, 1) \in Nat
  <2>1. r - 1 \in 0..n
    OBVIOUS
  <2> QED BY <1>2, <2>1, 1 \in Nat, 1 # 0, PowerFacts, HornerStep
<1>9. w[r - 1] * z[r] \in Nat /\ w[r - 1] * 0 = 0
  BY <1>6, <1>8
<1> QED BY <1>4, <1>5, <1>6, <1>7, <1>8, <1>9 DEF u, v

\* Arrays of digits that stand for the same number have the same items.
LEMMA UniqueItems ==
  ASSUME NEW base \in Nat, base >= 1, NEW u \in Arrays, NEW v \in Arrays,
         \A k \in Int : UnitAt(u, k) < base, \A k \in Int : UnitAt(v, k) < base,
         Horner(base, u, 1) = Horner(base, v, 1),
         NEW i \in Nat, i # 0
  PROVE  UnitAt(u, i) = UnitAt(v, i)
<1> DEFINE T == { k \in 0..i : Horner(base, u, k + 1) # Horner(base, v, k + 1) }
<1>1. u \in Arrays /\ v \in Arrays
  OBVIOUS
<1>2. ASSUME NEW k \in 1..i, Horner(base, u, k) = Horner(base, v, k)
      PROVE  /\ UnitAt(u, k) = UnitAt(v, k)
             /\ Horner(base, u, k + 1) = Horner(base, v, k + 1)
  <2>1. k \in Nat /\ k # 0 /\ k + 1 \in Nat /\ k + 1 # 0 /\ k \in Int
    OBVIOUS
  <2> DEFINE a == UnitAt(u, k)
             b == UnitAt(v, k)
             x == Horner(base, u, k + 1)
             y == Horner(base, v, k + 1)
  <2>2. /\ a \in Nat /\ Horner(base, u, k) = a + base * x
        /\ b \in Nat /\ Horner(base, v, k) = b + base * y
    BY <1>1, <2>1, HornerStep
  <2>3. x \in Nat /\ y \in Nat
    BY <1>1, <2>1, HornerStep
  <2>4. a < base /\ b < base
    BY <2>1
  <2>5. a + base * x = b + base * y
    BY <1>2, <2>2
  <2> HIDE DEF a, b, x, y
  <2>6. x <= y
    <3> SUFFICES ASSUME x >= y + 1 PROVE FALSE
      BY <2>3
    <3>1. base * x >= base * (y + 1)
      BY <2>3
    <3>2. base * (y + 1) = base * y + base /\ base * y \in Nat /\ base * x \in Nat
      BY <2>3
    <3> QED BY <2>2, <2>4, <2>5, <3>1, <3>2
  <2>7. y <= x
    <3> SUFFICES ASSUME y >= x + 1 PROVE FALSE
      BY <2>3
    <3>1. base * y >= base * (x + 1)
      BY <2>3
    <3>2. base * (x + 1) = base * x + base /\ base * y \in Nat /\ base * x \in Nat
      BY <2>3
    <3> QED BY <2>2, <2>4, <2>5, <3>1, <3>2
  <2>8. x = y
    BY <2>3, <2>6, <2>7
  <2>9. a = b
    <3>1. base * x \in Nat
      BY <2>3
    <3> QED BY <2>2, <2>5, <2>8, <3>1
  <2> QED BY <2>8, <2>9 DEF a, b, x, y
<1>3. 0 \notin T
  OBVIOUS
<1>4. ASSUME NEW k \in 1..i, k - 1 \notin T PROVE k \notin T
  <2>1. k - 1 \in 0..i /\ (k - 1) + 1 = k
    OBVIOUS
  <2>2. Horner(base, u, k) = Horner(base, v, k)
    BY <1>4, <2>1
  <2> QED BY <1>2, <2>2
<1>5. /\ T \subseteq 0..i
      /\ i - 1 \notin T => Horner(base, u, i) = Horner(base, v, i)
  <2>1. i - 1 \in 0..i /\ (i - 1) + 1 = i
    OBVIOUS
  <2> QED BY <2>1
<1> HIDE DEF T
<1>6. T = {}
  BY <1>3, <1>4, <1>5, Ascent
<1>7. Horner(base, u, i) = Horner(base, v, i) /\ i \in 1..i
  BY <1>5, <1>6
<1> QED BY <1>2, <1>7

\* Weights multiply as indices add up.
LEMMA AddedPowers ==
  ASSUME NEW base \in Nat, base >= 1, NEW n \in Nat, NEW w, Powers(base, w, n),
         NEW a \in 0..n, NEW b \in 0..n, a + b <= n
  PROVE  w[a + b] = w[a] * w[b]
<1> DEFINE T == { k \in 0..(n - a) : w[a + k] # w[a] * w[k] }
<1>1. /\ w[0] = 1
      /\ \A k \in 0..n : w[k] \in Nat /\ w[k] > 0
      /\ \A k \in 1..n : w[k] = base * w[k - 1]
  BY PowerFacts
<1>2. 0 \notin T
  <2>1. a + 0 = a /\ w[a] \in Nat
    BY <1>1
  <2>2. w[a] * 1 = w[a]
    BY <2>1
  <2> QED BY <1>1, <2>1, <2>2
<1>3. ASSUME NEW k \in 1..(n - a), k - 1 \notin T PROVE k \notin T
  <2>1. /\ k - 1 \in 0..(n - a) /\ k - 1 \in 0..n /\ k \in 1..n
        /\ a + k \in 1..n /\ (a + k) - 1 = a + (k - 1)
    OBVIOUS
  <2>2. w[a + (k - 1)] = w[a] * w[k - 1]
    BY <1>3, <2>1
  <2>3. w[a + k] = base * w[a + (k - 1)] /\ w[k] = base * w[k - 1]
    BY <1>1, <2>1
  <2> DEFINE x == w[a]
             y == w[k - 1]
  <2>4. x \in Nat /\ y \in Nat
    BY <1>1, <2>1
  <2> HIDE DEF x, y
  <2>5. base * (x * y) = x * (base * y)
    BY <2>4
  <2>6. w[a + k] = w[a] * w[k]
    BY <2>2, <2>3, <2>5 DEF x, y
  <2> QED BY <2>6
<1>4. /\ n - a \in Nat /\ T \subseteq 0..(n - a)
      /\ b \notin T => w[a + b] = w[a] * w[b]
  OBVIOUS
<1> HIDE DEF T
<1>5. T = {}
  BY <1>2, <1>3, <1>4, Ascent
<1> QED BY <1>4, <1>5

\* v is u with what item i is too large by handed to the two items above it.
IsCarried(base, u, v, i, next, above) ==
  /\ UnitAt(u, i) = UnitAt(v, i) + base * next + (base * base) * above
  /\ UnitAt(v, i + 1) = UnitAt(u, i + 1) + next
  /\ UnitAt(v, i + 2) = UnitAt(u, i + 2) + above
  /\ \A j \in Nat : j \notin {0, i, i + 1, i + 2} => UnitAt(v, j) = UnitAt(u, j)

\* A carry moved one and two places up leaves the worth as it is.
LEMMA CarriedItems ==
  ASSUME NEW base \in Nat, base >= 1, NEW u \in Arrays, NEW v \in Arrays,
         NEW i \in Nat, i # 0, NEW next \in Nat, NEW above \in Nat,
         IsCarried(base, u, v, i, next, above)
  PROVE  Horner(base, v, 1) = Horner(base, u, 1)
<1>1. u \in Arrays /\ v \in Arrays
  OBVIOUS
<1>2. /\ i + 1 \in Nat /\ i + 1 # 0 /\ (i + 1) + 1 = i + 2
      /\ i + 2 \in Nat /\ i + 2 # 0 /\ (i + 2) + 1 = i + 3
      /\ i + 3 \in Nat /\ i + 3 # 0
  OBVIOUS
<1>3. Horner(base, v, i + 3) = Horner(base, u, i + 3)
  <2> DEFINE k == i + 3
  <2>1. k \in Nat /\ k # 0 /\ k + 0 = k
    OBVIOUS
  <2>2. ASSUME NEW j \in Nat, j >= k PROVE UnitAt(v, j) = UnitAt(u, j + 0)
    <3>1. j \notin {0, i, i + 1, i + 2} /\ j + 0 = j
      BY <2>2
    <3> QED BY <3>1 DEF IsCarried
  <2> HIDE DEF k
  <2>3. Horner(base, v, k) = Horner(base, u, k + 0)
    BY <1>1, <2>1, <2>2, 0 \in Nat, SameItems
  <2> QED BY <2>1, <2>3 DEF k
<1> DEFINE h == Horner(base, u, i + 3)
           u0 == UnitAt(u, i)
           u1 == UnitAt(u, i + 1)
           u2 == UnitAt(u, i + 2)
           v0 == UnitAt(v, i)
           v1 == UnitAt(v, i + 1)
           v2 == UnitAt(v, i + 2)
<1>4. /\ Horner(base, u, i) = u0 + base * Horner(base, u, i + 1)
      /\ Horner(base, u, i + 1) = u1 + base * Horner(base, u, i + 2)
      /\ Horner(base, u, i + 2) = u2 + base * h
      /\ u0 \in Nat /\ u1 \in Nat /\ u2 \in Nat /\ h \in Nat
  BY <1>1, <1>2, HornerStep
<1>5. /\ Horner(base, v, i) = v0 + base * Horner(base, v, i + 1)
      /\ Horner(base, v, i + 1) = v1 + base * Horner(base, v, i + 2)
      /\ Horner(base, v, i + 2) = v2 + base * h
      /\ v0 \in Nat /\ v1 \in Nat /\ v2 \in Nat
  BY <1>1, <1>2, <1>3, HornerStep
<1>6. /\ u0 = v0 + base * next + (base * base) * above
      /\ v1 = u1 + next /\ v2 = u2 + above
  BY DEF IsCarried
<1>7. /\ Horner(base, u, i) = u0 + base * (u1 + base * (u2 + base * h))
      /\ Horner(base, v, i) = v0 + base * (v1 + base * (v2 + base * h))
  BY <1>4, <1>5
<1>8. Horner(base, u, i) = Horner(base, v, i)
  <2> HIDE DEF h, u0, u1, u2, v0, v1, v2
  <2> DEFINE x == u2 + base * h
             y == u1 + base * x
  <2>1. x \in Nat /\ y \in Nat
    <3>1. base * h \in Nat
      BY <1>4
    <3>2. x \in Nat
      BY <1>4, <3>1
    <3> HIDE DEF x
    <3>3. base * x \in Nat
      BY <3>2
    <3> QED BY <1>4, <3>2, <3>3
  <2>2. v2 + base * h = x + above
    <3>1. base * h \in Nat
      BY <1>4
    <3> QED BY <1>4, <1>6, <3>1
  <2>3. Horner(base, v, i) = v0 + base * (v1 + base * (x + above))
    BY <1>7, <2>2
  <2>4. base * (x + above) = base * x + base * above /\ base * x \in Nat /\ base * above \in Nat
    <3> HIDE DEF x, y
    <3> QED BY <2>1
  <2>5. v1 + base * (x + above) = y + (next + base * above)
    <3> HIDE DEF x
    <3> QED BY <1>4, <1>6, <2>1, <2>4
  <2>6. Horner(base, v, i) = v0 + base * (y + (next + base * above))
    BY <2>3, <2>5
  <2>7. Horner(base, u, i) = u0 + base * y
    BY <1>7
  <2> HIDE DEF x, y
  <2>8. base * (y + (next + base * above)) = base * y + base * next + (base * base) * above
    BY <2>1
  <2>9. base * y \in Nat /\ base * next \in Nat /\ (base * base) * above \in Nat
    BY <2>1
  <2> QED BY <1>4, <1>5, <1>6, <2>6, <2>7, <2>8, <2>9
<1>9. PICK w : Powers(base, w, i)
  BY PowersExist
<1>10. Horner(base, v, 1) - w[i - 1] * Horner(base, v, (i - 1) + 1)
         = Horner(base, u, 1) - w[i - 1] * Horner(base, u, (i - 1) + 1)
  <2>1. ASSUME NEW j \in 1..(i - 1) PROVE UnitAt(v, j) = UnitAt(u, j)
    <3>1. j \in Nat /\ j \notin {0, i, i + 1, i + 2}
      OBVIOUS
    <3> QED BY <3>1 DEF IsCarried
  <2>2. i - 1 \in 0..i
    OBVIOUS
  <2> QED BY <1>1, <1>9, <2>1, <2>2, LowItems
<1>11. (i - 1) + 1 = i /\ i - 1 \in 0..i
  OBVIOUS
<1>12. /\ w[i - 1] \in Nat /\ Horner(base, u, i) \in Nat
       /\ Horner(base, u, 1) \in Nat /\ Horner(base, v, 1) \in Nat
  BY <1>1, <1>9, <1>11, 1 \in Nat, 1 # 0, PowerFacts, HornerStep
<1>13. w[i - 1] * Horner(base, u, i) \in Nat
  BY <1>12
<1> HIDE DEF h, u0, u1, u2, v0, v1, v2
<1>14. Horner(base, v, 1) - w[i - 1] * Horner(base, u, i)
         = Horner(base, u, 1) - w[i - 1] * Horner(base, u, i)
  BY <1>8, <1>10, <1>11
<1> QED BY <1>12, <1>13, <1>14

\* The product of two arrays of digits has at most as many as they have together.
LEMMA BelowProduct ==
  ASSUME NEW base \in Nat, base >= 1, NEW n \in Nat, NEW w, Powers(base, w, n),
         NEW u \in Arrays, \A k \in Int : UnitAt(u, k) < base,
         NEW v \in Arrays, \A k \in Int : UnitAt(v, k) < base,
         NEW i \in Nat, NEW j \in Nat, i >= Len(u), j >= Len(v), i + j <= n
  PROVE  Horner(base, u, 1) * Horner(base, v, 1) < w[i + j]
<1> DEFINE a == Horner(base, u, 1)
           b == Horner(base, v, 1)
           x == w[i]
           y == w[j]
<1>1. i \in 0..n /\ j \in 0..n
  OBVIOUS
<1>2. a < x /\ b < y
  BY <1>1, BelowItems
<1>3. a \in Nat /\ b \in Nat
  <2>1. u \in Arrays /\ v \in Arrays
    OBVIOUS
  <2> QED BY <2>1, 1 \in Nat, 1 # 0, HornerStep
<1>4. x \in Nat /\ y \in Nat
  BY <1>1, PowerFacts
<1>5. w[i + j] = x * y
  BY <1>1, AddedPowers
<1> HIDE DEF a, b, x, y
<1>6. a * b <= x * b
  BY <1>2, <1>3, <1>4
<1>7. x * (b + 1) <= x * y
  BY <1>2, <1>3, <1>4
<1>8. x * (b + 1) = x * b + x /\ x * b \in Nat /\ x * y \in Nat /\ a * b \in Nat /\ x > 0
  BY <1>2, <1>3, <1>4
<1>9. a * b < x * y
  <2> DEFINE p == a * b
             q == x * b
             r == x * y
  <2>1. p <= q /\ q + x <= r /\ p \in Nat /\ q \in Nat /\ r \in Nat /\ x > 0
    BY <1>6, <1>7, <1>8
  <2> HIDE DEF p, q, r
  <2>2. p < r
    BY <2>1, <1>4
  <2> QED BY <2>2 DEF p, r
<1>10. a * b < w[i + j]
  BY <1>5, <1>9 DEF x, y
<1> QED BY <1>10 DEF a, b

\* An array of zeros, or of nothing, is worth nothing.
LEMMA ZeroItems ==
  ASSUME NEW base \in Nat, base >= 1, NEW u \in Arrays, \A k \in 1..Len(u) : u[k] = 0
  PROVE  Horner(base, u, 1) = 0
<1>1. << >> \in Arrays /\ Len(<< >>) = 0 /\ Len(u) \in Nat
  BY DEF Arrays
<1> DEFINE v == << >>
<1>2. ASSUME NEW j \in Nat, j >= 1 PROVE UnitAt(u, j) = UnitAt(v, j + 0)
  BY <1>1 DEF UnitAt
<1>3. v \in Arrays /\ 1 > Len(v) /\ 1 + 0 = 1
  BY <1>1
<1> HIDE DEF v
<1>4. ASSUME NEW i \in Nat, i = 1, NEW shift \in Nat, shift = 0
      PROVE  Horner(base, u, i) = Horner(base, v, i + shift)
  <2>1. i # 0 /\ \A j \in Nat : j >= i => UnitAt(u, j) = UnitAt(v, j + shift)
    BY <1>2, <1>4
  <2> QED BY <1>3, <2>1, SameItems
<1>5. Horner(base, v, 1) = 0
  BY <1>3, HornerStep
<1>6. Horner(base, u, 1) = Horner(base, v, 1 + 0)
  BY <1>4
<1> QED BY <1>3, <1>5, <1>6
=============================================================================
