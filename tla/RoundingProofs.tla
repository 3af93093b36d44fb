--------------------------- MODULE RoundingProofs ---------------------------
(***************************************************************************)
(* Why rounding from a residue is right.  decSetCoeff never looks at all   *)
(* the digits it drops: it keeps a number from -1 to 9, the residue, built *)
(* from one Unit and a sticky bit, and decApplyRound decides from it.  For *)
(* coefficients of any length: the residue tells exactly what the rounding *)
(* modes need to know of the digits dropped, whether it is read off a      *)
(* whole Unit or in the middle of one, and after an earlier shortening or  *)
(* a subtraction left a residue of its own; and the decision made from it  *)
(* is the correct rounding.  From there to whole numbers: decCopyFit and   *)
(* then decFinalize, with its second shortening below the range, its       *)
(* overflow and its fold, give the exact value rounded once.  And so do    *)
(* the operations that end there: products, and by each path of decAddOp   *)
(* sums and differences.                                                   *)
(***************************************************************************)
EXTENDS DecReference, DecArith, UnitProofs

\* Residue r stands for the fraction rest / power; a negative fraction is one
\* subtracted from the digits kept, and is less than a half.
StandsFor(r, rest, power) ==
  /\ r \in -1..9
  /\ r < 0 <=> rest < 0
  /\ r = 0 <=> rest = 0
  /\ r \in 1..4 <=> rest > 0 /\ 2 * rest < power
  /\ r = 5 <=> 2 * rest = power
  /\ r \in 6..9 <=> 2 * rest > power
  /\ 2 * rest > -power

\* The sticky mark s carries the sign of what lies below, a fraction of the
\* last digit inspected.
Marks(s, below, size) ==
  /\ s \in {-1, 0, 1}
  /\ s > 0 <=> below > 0
  /\ s < 0 <=> below < 0
  /\ -size < below
  /\ below < size

\* A Unit has an even base: half of it is a whole number.
LEMMA UnitBases == /\ UnitBase \in {10, 100, 1000, 10000}
                   /\ UnitBase = 2 * (UnitBase \div 2)
                   /\ UnitBase \div 2 \in 5..5000
<1>1. DECDPUN = 1 => UnitBase = 10
  BY DEF UnitBase
<1>2. DECDPUN = 2 => UnitBase = 100
  BY DEF UnitBase
<1>3. DECDPUN = 3 => UnitBase = 1000
  BY DEF UnitBase
<1>4. DECDPUN = 4 => UnitBase = 10000
  BY DEF UnitBase
<1>5. UnitBase \in {10, 100, 1000, 10000}
  BY <1>1, <1>2, <1>3, <1>4, DecDPunAssumption
<1> QED BY <1>5

\* A multiple of a positive size is at least as far from zero as its factor.
LEMMA Monotone ==
  ASSUME NEW a \in Int, NEW b \in Int, NEW size \in Nat, a <= b
  PROVE  a * size <= b * size
  OBVIOUS

\* The first digit dropped is the top digit of its Unit: the residue read off
\* the Unit and the sticky mark stands for the whole fraction dropped.
THEOREM UnitResidueSound ==
  ASSUME NEW size \in Nat, size > 0,
         NEW below \in Int, NEW s \in Int, Marks(s, below, size),
         NEW unit \in Nat, unit < UnitBase
  PROVE  StandsFor(UnitResidue(unit, s), unit * size + below, UnitBase * size)
<1> DEFINE half == UnitBase \div 2
<1> DEFINE rest == unit * size + below
<1> DEFINE power == UnitBase * size
<1>1. half \in Nat /\ half > 0 /\ UnitBase \in Nat /\ UnitBase = 2 * half
  BY UnitBases
<1>2. power = 2 * (half * size) /\ half * size \in Nat /\ half * size >= size
  BY <1>1
<1> HIDE DEF half
<1>3. CASE unit > half
  <2>1. unit * size >= half * size + size
    <3>1. (half + 1) * size <= unit * size
      BY <1>1, <1>3, Monotone
    <3> QED BY <3>1, <1>1
  <2>2. UnitResidue(unit, s) = 7
    BY <1>1, <1>3 DEF UnitResidue, half
  <2> QED BY <1>2, <2>1, <2>2 DEF StandsFor, Marks
<1>4. CASE unit = half
  <2>1. UnitResidue(unit, s) = s + 5
    BY <1>1, <1>4 DEF UnitResidue, half
  <2> QED BY <1>2, <1>4, <2>1 DEF StandsFor, Marks
<1>5. CASE unit < half /\ unit # 0
  <2>1. unit * size >= size /\ unit * size <= half * size - size
    <3>1. 1 * size <= unit * size
      BY <1>5, Monotone
    <3>2. unit * size <= (half - 1) * size
      BY <1>1, <1>5, Monotone
    <3> QED BY <3>1, <3>2, <1>1
  <2>2. UnitResidue(unit, s) = 3
    BY <1>1, <1>5 DEF UnitResidue, half
  <2> QED BY <1>2, <2>1, <2>2 DEF StandsFor, Marks
<1>6. CASE unit = 0
  <2>1. UnitResidue(unit, s) = s
    BY <1>1, <1>6 DEF UnitResidue, half
  <2>2. rest = below
    BY <1>6
  <2>3. power \in Nat /\ power >= 10 * size
    <3>1. 10 * size <= UnitBase * size
      BY UnitBases, Monotone
    <3> QED BY <3>1, <1>1
  <2> HIDE DEF rest, power
  <2>4. StandsFor(s, below, power)
    BY <2>3 DEF StandsFor, Marks
  <2> QED BY <2>1, <2>2, <2>4 DEF rest, power
<1> QED BY <1>1, <1>3, <1>4, <1>5, <1>6

\* The guard digit and the sticky mark below it.
LEMMA GuardResidue ==
  ASSUME NEW guard \in 0..9, NEW s \in Int,
         NEW size \in Nat, size > 0,
         NEW below \in Int, Marks(s, below, size)
  PROVE  StandsFor(s + Resmap(guard), guard * size + below, 10 * size)
<1>1. CASE guard = 0
  BY <1>1 DEF Resmap, StandsFor, Marks
<1>2. CASE guard \in 1..4
  <2>1. guard * size >= size /\ guard * size <= 4 * size
    BY <1>2
  <2>2. Resmap(guard) = 3
    BY <1>2 DEF Resmap
  <2> QED BY <2>1, <2>2 DEF StandsFor, Marks
<1>3. CASE guard = 5
  BY <1>3 DEF Resmap, StandsFor, Marks
<1>4. CASE guard \in 6..9
  <2>1. guard * size >= 6 * size
    BY <1>4
  <2>2. Resmap(guard) = 7
    BY <1>4 DEF Resmap
  <2> QED BY <2>1, <2>2 DEF StandsFor, Marks
<1> QED BY <1>1, <1>2, <1>3, <1>4

\* Digits of a Unit below the one inspected take over the mark of what is
\* below the Unit.
LEMMA MarksMore ==
  ASSUME NEW size \in Nat, size > 0,
         NEW below \in Int, NEW s \in Int, Marks(s, below, size),
         NEW power \in Nat, NEW low \in Nat, low < power
  PROVE  /\ power * size \in Nat /\ power * size >= size
         /\ Marks(IF low # 0 THEN 1 ELSE s, low * size + below, power * size)
<1>1. power * size \in Nat /\ power * size >= size
  <2>1. 1 * size <= power * size
    BY Monotone
  <2> QED BY <2>1
<1>2. CASE low = 0
  <2>1. low * size + below = below
    BY <1>2
  <2>2. Marks(s, below, power * size)
    BY <1>1 DEF Marks
  <2> QED BY <1>1, <1>2, <2>1, <2>2
<1>3. CASE low # 0
  <2> DEFINE tail == low * size + below
  <2>1. 1 * size <= low * size
    BY <1>3, Monotone
  <2>2. low * size <= (power - 1) * size
    BY Monotone
  <2>3. (power - 1) * size = power * size - size
    OBVIOUS
  <2>4. tail \in Int /\ tail > 0 /\ tail < power * size
    BY <2>1, <2>2, <2>3, <1>1 DEF Marks
  <2> HIDE DEF tail
  <2>5. Marks(1, tail, power * size)
    BY <2>4, <1>1 DEF Marks
  <2> QED BY <1>1, <1>3, <2>5 DEF tail
<1> QED BY <1>2, <1>3

\* The first digit dropped is inside its Unit, with cut digits of the Unit
\* below it (power is Ten[cut]): those digits and the sticky mark become one
\* mark, and the residue stands for guard, lower digits and what is below.
THEOREM DigitResidueSound ==
  ASSUME NEW size \in Nat, size > 0,
         NEW below \in Int, NEW s \in Int, Marks(s, below, size),
         NEW unit \in Nat, NEW cut \in Nat,
         NEW power \in Nat, power = Ten[cut], power > 0,
         NEW guard \in 0..9, guard = (unit \div power) % 10,
         NEW low \in Nat, low = unit % power, low < power
  PROVE  StandsFor(DigitResidue(unit, cut, s),
                   guard * (power * size) + (low * size + below),
                   10 * (power * size))
<1> DEFINE mark == IF low # 0 THEN 1 ELSE s
<1> DEFINE tail == low * size + below
<1>1. power * size \in Nat /\ power * size >= size
      /\ Marks(mark, tail, power * size)
  BY MarksMore
<1>3. DigitResidue(unit, cut, s) = mark + Resmap(guard)
  BY DEF DigitResidue
<1>4. mark \in Int /\ tail \in Int /\ power * size > 0
  <2>1. low * size \in Nat
    OBVIOUS
  <2>2. tail \in Int
    BY <2>1
  <2>3. mark \in Int
    OBVIOUS
  <2>4. power * size > 0
    BY <1>1
  <2> QED BY <2>2, <2>3, <2>4
<1> HIDE DEF mark, tail
<1>5. StandsFor(mark + Resmap(guard), guard * (power * size) + tail,
                10 * (power * size))
  BY <1>1, <1>4, GuardResidue
<1> QED BY <1>3, <1>5 DEF tail

\* quot + rest / power correctly rounded to an integer; a negative fraction
\* makes quot - 1 the digits kept.
Rounded(neg, quot, rest, power, round) ==
  IF rest < 0
    THEN quot - 1 + (IF Away(neg, quot - 1, power + rest, power, round)
                       THEN 1 ELSE 0)
    ELSE quot + (IF Away(neg, quot, rest, power, round) THEN 1 ELSE 0)

\* decApplyRound decides from the residue alone, and decides right: in every
\* rounding mode the step it takes is the correct rounding of the exact value,
\* for any number of dropped digits and any coefficient.
THEOREM BumpRounds ==
  ASSUME NEW dn, dn.coeff \in Nat, dn.neg \in BOOLEAN,
         NEW round \in Roundings,
         NEW r \in Int, NEW rest \in Int, NEW power \in Nat, rest < power,
         StandsFor(r, rest, power)
  PROVE  dn.coeff + (IF r = 0 THEN 0 ELSE Bump(dn, round, r))
           = Rounded(dn.neg, dn.coeff, rest, power, round)
<1> DEFINE c == dn.coeff
           up(x) == IF x THEN 1 ELSE 0
           away(q, x) == Away(dn.neg, q, x, power, round)
           bump == Bump(dn, round, r)
<1>1. \/ r < 0 /\ rest < 0 /\ 2 * (power + rest) > power /\ power + rest # 0
      \/ r = 0 /\ rest = 0
      \/ r \in 1..4 /\ rest > 0 /\ 2 * rest < power
      \/ r = 5 /\ rest > 0 /\ 2 * rest = power
      \/ r \in 6..9 /\ rest > 0 /\ 2 * rest > power
  BY DEF StandsFor
<1>2. /\ rest < 0 => Rounded(dn.neg, c, rest, power, round)
                       = c - 1 + up(away(c - 1, power + rest))
      /\ rest >= 0 => Rounded(dn.neg, c, rest, power, round)
                       = c + up(away(c, rest))
  BY DEF Rounded
<1> SUFFICES ASSUME r # 0
             PROVE  \/ r < 0 /\ bump = up(away(c - 1, power + rest)) - 1
                    \/ r > 0 /\ bump = up(away(c, rest))
  <2>1. CASE r = 0
    <3>1. ~away(c, rest)
      BY <1>1, <2>1 DEF Away
    <3> QED BY <1>1, <1>2, <2>1, <3>1
  <2>2. CASE r # 0
    <3>1. \/ r < 0 /\ bump = up(away(c - 1, power + rest)) - 1
          \/ r > 0 /\ bump = up(away(c, rest))
      BY <2>2
    <3> HIDE DEF away, bump
    <3>2. up(away(c - 1, power + rest)) \in Int /\ up(away(c, rest)) \in Int
      OBVIOUS
    <3> QED BY <1>1, <1>2, <2>2, <3>1, <3>2 DEF bump
  <2> QED BY <2>1, <2>2
<1>3. CASE round = "UP"
  <2>1. bump = up(r > 0)
    BY <1>3 DEF Bump
  <2>2. \A q \in Int, x \in Int \ {0} : away(q, x) <=> TRUE
    BY <1>3 DEF Away
  <2> QED BY <1>1, <2>1, <2>2
<1>4. CASE round = "DOWN"
  <2>1. bump = (IF r < 0 THEN -1 ELSE 0)
    BY <1>4 DEF Bump
  <2>2. \A q \in Int, x \in Int \ {0} : away(q, x) <=> FALSE
    BY <1>4 DEF Away
  <2> QED BY <1>1, <2>1, <2>2
<1>5. CASE round = "HALF_UP"
  <2>1. bump = up(r >= 5)
    BY <1>5 DEF Bump
  <2>2. \A q \in Int, x \in Int \ {0} : away(q, x) <=> 2 * x >= power
    BY <1>5 DEF Away
  <2> QED BY <1>1, <2>1, <2>2
<1>6. CASE round = "HALF_DOWN"
  <2>1. bump = up(r > 5)
    BY <1>6 DEF Bump
  <2>2. \A q \in Int, x \in Int \ {0} : away(q, x) <=> 2 * x > power
    BY <1>6 DEF Away
  <2> QED BY <1>1, <2>1, <2>2
<1>7. CASE round = "HALF_EVEN"
  <2>1. bump = up(r > 5 \/ (r = 5 /\ c % 2 = 1))
    BY <1>7 DEF Bump
  <2>2. \A q \in Int, x \in Int \ {0} :
          away(q, x) <=> 2 * x > power \/ (2 * x = power /\ q % 2 = 1)
    BY <1>7 DEF Away
  <2> QED BY <1>1, <2>1, <2>2
<1>8. CASE round = "05UP"
  <2>1. bump = (IF r < 0 THEN (IF c % 5 # 1 THEN -1 ELSE 0) ELSE up(c % 5 = 0))
    BY <1>8 DEF Bump
  <2>2. \A q \in Int, x \in Int \ {0} : away(q, x) <=> q % 5 = 0
    BY <1>8 DEF Away
  <2>3. (c - 1) % 5 = 0 <=> c % 5 = 1
    OBVIOUS
  <2> QED BY <1>1, <2>1, <2>2, <2>3
<1>9. CASE round = "CEILING" /\ dn.neg
  <2>1. bump = (IF r < 0 THEN -1 ELSE 0)
    BY <1>9 DEF Bump
  <2>2. \A q \in Int, x \in Int \ {0} : ~away(q, x)
    BY <1>9 DEF Away
  <2> QED BY <1>1, <2>1, <2>2
<1>10. CASE round = "CEILING" /\ ~dn.neg
  <2>1. bump = up(r > 0)
    BY <1>10 DEF Bump
  <2>2. \A q \in Int, x \in Int \ {0} : away(q, x)
    BY <1>10 DEF Away
  <2> QED BY <1>1, <2>1, <2>2
<1>11. CASE round = "FLOOR" /\ dn.neg
  <2>1. bump = up(r > 0)
    BY <1>11 DEF Bump
  <2>2. \A q \in Int, x \in Int \ {0} : away(q, x)
    BY <1>11 DEF Away
  <2> QED BY <1>1, <2>1, <2>2
<1>12. CASE round = "FLOOR" /\ ~dn.neg
  <2>1. bump = (IF r < 0 THEN -1 ELSE 0)
    BY <1>12 DEF Bump
  <2>2. \A q \in Int, x \in Int \ {0} : ~away(q, x)
    BY <1>12 DEF Away
  <2> QED BY <1>1, <2>1, <2>2
<1> QED BY <1>3, <1>4, <1>5, <1>6, <1>7, <1>8, <1>9, <1>10,
           <1>11, <1>12 DEF Roundings

\* Cutting a number at a digit: the digits kept and those dropped.
LEMMA CutAt ==
  ASSUME NEW n \in Nat, NEW k \in Nat
  PROVE  /\ n \div Ten[k] \in Nat /\ n % Ten[k] \in Nat /\ n % Ten[k] < Ten[k]
         /\ n = Ten[k] * (n \div Ten[k]) + (n % Ten[k])
<1> DEFINE m == Ten[k]
<1>1. m \in Nat /\ m > 0
  BY TenNat
<1> HIDE DEF m
<1>2. n \div m \in Nat /\ n % m \in 0..(m - 1) /\ n = m * (n \div m) + (n % m)
  BY <1>1
<1> QED BY <1>1, <1>2 DEF m

\* And conversely: whatever adds up to n so is its quotient and rest.
LEMMA CutIs ==
  ASSUME NEW n, NEW k \in Nat, NEW c \in Nat, NEW r \in Nat, r < Ten[k],
         n = Ten[k] * c + r
  PROVE  n \in Nat /\ n \div Ten[k] = c /\ n % Ten[k] = r
<1> DEFINE m == Ten[k]
<1>1. m \in Nat /\ m > 0 /\ r < m
  BY TenNat
<1>2. n = m * c + r
  OBVIOUS
<1> HIDE DEF m
<1>3. r \in 0..(m - 1)
  BY <1>1
<1>4. n \in Nat /\ n \div m = c /\ n % m = r
  BY <1>1, <1>2, <1>3, QuotientIs, Zenon
<1> QED BY <1>4, Zenon DEF m

\* Cutting twice is cutting once.
LEMMA CutTwice ==
  ASSUME NEW n \in Nat, NEW k \in Nat, NEW j \in Nat
  PROVE  /\ n \div Ten[k + j] = (n \div Ten[k]) \div Ten[j]
         /\ n % Ten[k + j] = ((n \div Ten[k]) % Ten[j]) * Ten[k] + (n % Ten[k])
<1> DEFINE a == Ten[k]
           b == Ten[j]
           c == n \div Ten[k]
           r == n % Ten[k]
           d == c \div Ten[j]
           s == c % Ten[j]
           i == k + j
<1>1. a \in Nat /\ b \in Nat /\ a > 0 /\ b > 0
  BY TenNat
<1>2. c \in Nat /\ r \in Nat /\ r < a /\ n = a * c + r
  BY CutAt
<1> HIDE DEF c, r
<1>3. d \in Nat /\ s \in Nat /\ s < b /\ c = b * d + s
  BY <1>2, CutAt
<1>4. i \in Nat /\ Ten[i] = a * b
  BY TenSum
<1> HIDE DEF a, b, d, s, i
<1>5. s * a + r \in Nat /\ s * a + r < a * b
  <2>1. (s + 1) * a <= b * a
    BY <1>1, <1>3
  <2>2. (s + 1) * a = s * a + a /\ s * a \in Nat /\ b * a = a * b
    BY <1>1, <1>3
  <2>3. r \in Nat /\ r < a /\ a \in Nat /\ a * b \in Nat
    BY <1>1, <1>2
  <2> QED BY <2>1, <2>2, <2>3
<1>6. n = (a * b) * d + (s * a + r)
  <2>1. a * (b * d + s) = (a * b) * d + s * a
    BY <1>1, <1>3
  <2>2. (a * b) * d \in Nat /\ s * a \in Nat /\ r \in Nat
    BY <1>1, <1>2, <1>3
  <2>3. n = a * (b * d + s) + r
    BY <1>2, <1>3
  <2> QED BY <2>1, <2>2, <2>3
<1> DEFINE x == s * a + r
<1> HIDE DEF x
<1>7. n \div Ten[i] = d /\ n % Ten[i] = x
  BY <1>3, <1>4, <1>5, <1>6, CutIs DEF x
<1> QED BY <1>7 DEF x, i, d, s, a, c, r

\* A number cut above a digit of its lowest Unit: power is what the digit is
\* worth.
CutInUnit(x, unit, power) ==
  LET guard == (unit \div power) % 10
      low   == unit % power
  IN  /\ guard \in 0..9 /\ low \in Nat /\ low < power
      /\ \E h \in Nat : x = (10 * power) * h + (guard * power + low)

\* The guard digit and what is below it, read off the lowest Unit.
LEMMA DigitInUnit ==
  ASSUME NEW x \in Nat, NEW power \in Nat, power > 0, NEW rest \in Nat, rest > 0,
         NEW base, base = power * 10 * rest
  PROVE  CutInUnit(x, x % base, power)
<1> DEFINE unit == x % base
           hi == x \div base
           u == unit \div power
           low == unit % power
           v == u \div 10
           guard == u % 10
<1>1. base \in Nat /\ base > 0
  BY Monotone
<1>2. unit \in Nat /\ hi \in Nat /\ x = base * hi + unit
  BY <1>1
<1> HIDE DEF unit, hi
<1>3. u \in Nat /\ low \in Nat /\ low < power /\ unit = power * u + low
  BY <1>2
<1> HIDE DEF u, low
<1>4. v \in Nat /\ guard \in 0..9 /\ u = 10 * v + guard
  BY <1>3
<1> HIDE DEF v, guard
<1> DEFINE h == rest * hi + v
<1>5. h \in Nat
  BY <1>2, <1>4
<1>6. x = (10 * power) * h + (guard * power + low)
  <2>1. base * hi = (10 * power) * (rest * hi)
    BY <1>2
  <2>2. power * (10 * v + guard) = (10 * power) * v + guard * power
    BY <1>4
  <2>3. (10 * power) * (rest * hi + v) = (10 * power) * (rest * hi) + (10 * power) * v
    BY <1>2, <1>4
  <2>4. x = base * hi + (power * (10 * v + guard) + low)
    BY <1>2, <1>3, <1>4
  <2> DEFINE a == base * hi
             b == power * (10 * v + guard)
             c == (10 * power) * (rest * hi)
             d == (10 * power) * v
             e == guard * power
  <2>5. c \in Nat /\ d \in Nat /\ e \in Nat /\ low \in Nat
    BY <1>2, <1>3, <1>4
  <2>6. a = c /\ b = d + e /\ x = a + (b + low) /\ (10 * power) * h = c + d
    BY <2>1, <2>2, <2>3, <2>4
  <2> HIDE DEF a, b, c, d
  <2> QED BY <2>5, <2>6
<1> HIDE DEF h
<1>7. \E y \in Nat : x = (10 * power) * y + (guard * power + low)
  BY <1>5, <1>6
<1> QED BY <1>3, <1>4, <1>7 DEF CutInUnit, unit, u, guard, low

\* The Unit and the digit in it where a shortening cuts.
LEMMA CutPlace ==
  ASSUME NEW discard \in Nat, discard > 0
  PROVE  LET below == ((discard - 1) \div DECDPUN) * DECDPUN
             cut   == discard - below - 1
         IN  below \in Nat /\ cut \in 0..(DECDPUN - 1) /\ discard = below + cut + 1
<1> DEFINE d == discard - 1
           units == d \div DECDPUN
<1>1. d \in Nat /\ DECDPUN \in Nat /\ DECDPUN > 0
  BY UnitSizes
<1> HIDE DEF d
<1>2. units \in Nat /\ d % DECDPUN \in 0..(DECDPUN - 1)
      /\ d = DECDPUN * units + (d % DECDPUN)
  BY <1>1
<1> HIDE DEF units
<1>3. DECDPUN * units = units * DECDPUN /\ units * DECDPUN \in Nat
  BY <1>1, <1>2
<1>4. discard = d + 1
  BY DEF d
<1> DEFINE low == units * DECDPUN
<1>5. low \in Nat /\ discard - low - 1 \in 0..(DECDPUN - 1)
      /\ discard = low + (discard - low - 1) + 1
  BY <1>1, <1>2, <1>3, <1>4
<1> QED BY <1>5 DEF low, units, d

\* decSetCoeff, partial discard: whatever digits are cut, and whatever the mark
\* of an earlier cut stands for, the residue stands for the digits dropped.
THEOREM DropDigitsSound ==
  ASSUME NEW c \in Nat, NEW discard \in Nat, discard > 0,
         NEW size \in Nat, size > 0,
         NEW below \in Int, NEW s \in Int, Marks(s, below, size)
  PROVE  StandsFor(DropDigits(c, discard, s),
                   (c % Ten[discard]) * size + below, Ten[discard] * size)
<1> DEFINE base == ((discard - 1) \div DECDPUN) * DECDPUN
           cut == discard - base - 1
           t == Ten[base]
           x == c \div Ten[base]
           r == c % Ten[base]
           unit == x % UnitBase
           sticky == IF r # 0 THEN 1 ELSE s
           tail == r * size + below
           wide == t * size
<1>1. base \in Nat /\ cut \in 0..(DECDPUN - 1) /\ discard = base + cut + 1
  BY CutPlace
<1>2. DropDigits(c, discard, s)
        = IF cut = DECDPUN - 1 THEN UnitResidue(unit, sticky)
                               ELSE DigitResidue(unit, cut, sticky)
  BY DEF DropDigits
<1> HIDE DEF base, cut
<1>3. t \in Nat /\ t > 0
  BY <1>1, TenNat
<1>4. x \in Nat /\ r \in Nat /\ r < t /\ c = t * x + r
  BY <1>1, CutAt
<1> HIDE DEF t, x, r
<1>5. wide \in Nat /\ wide >= size /\ Marks(sticky, tail, wide)
  <2> HIDE DEF unit
  <2>1. t \in Nat /\ r \in Nat /\ r < t
    BY <1>3, <1>4
  <2>2. t * size \in Nat /\ t * size >= size
        /\ Marks(IF r # 0 THEN 1 ELSE s, r * size + below, t * size)
    BY <2>1, MarksMore
  <2> QED BY <2>2
<1>6. tail \in Int /\ sticky \in Int
  <2>1. r * size \in Nat
    BY <1>4
  <2>2. tail \in Int
    BY <2>1
  <2>3. sticky \in Int
    OBVIOUS
  <2> QED BY <2>2, <2>3
<1>7. unit \in Nat /\ unit < UnitBase
  BY <1>4, UnitFacts
<1> DEFINE p == Ten[cut]
           q == Ten[DECDPUN - cut - 1]
<1>8. p \in Nat /\ p > 0 /\ q \in Nat /\ q > 0 /\ UnitBase = p * 10 * q
  <2> DEFINE j == DECDPUN - cut - 1
             i == cut + 1
  <2>1. j \in Nat /\ i \in Nat /\ cut \in Nat /\ DECDPUN = i + j
    BY <1>1, UnitSizes
  <2> HIDE DEF j, i
  <2>2. Ten[i + j] = Ten[i] * Ten[j] /\ Ten[j] \in Nat /\ Ten[j] > 0
    BY <2>1, TenSum, TenNat
  <2>3. Ten[i] = 10 * Ten[cut] /\ Ten[cut] \in Nat /\ Ten[cut] > 0
    BY <2>1, TenNext, TenNat DEF i
  <2>4. UnitBase = (10 * Ten[cut]) * Ten[j]
    BY <2>1, <2>2, <2>3, UnitIsTen
  <2>5. (10 * Ten[cut]) * Ten[j] = Ten[cut] * 10 * Ten[j]
    BY <2>2, <2>3
  <2> QED BY <2>2, <2>3, <2>4, <2>5 DEF j
<1>9. Ten[discard] = 10 * p * t
  <2> DEFINE i == base + cut
  <2>1. i \in Nat /\ cut \in Nat /\ discard = i + 1
    BY <1>1
  <2>2. Ten[i] = t * p
    BY <1>1, <2>1, TenSum DEF t
  <2> HIDE DEF i
  <2>3. Ten[discard] = 10 * Ten[i]
    BY <2>1, TenNext
  <2>4. 10 * (t * p) = 10 * p * t
    BY <1>3, <1>8
  <2> QED BY <2>2, <2>3, <2>4
<1>10. CASE cut = DECDPUN - 1
  <2>1. q = 1
    <3>1. DECDPUN - cut - 1 = 0
      BY <1>10, UnitSizes
    <3> QED BY <3>1, TenSmall
  <2>2. UnitBase = 10 * p
    BY <1>8, <2>1
  <2>3. Ten[discard] = UnitBase * t
    BY <1>9, <2>2
  <2>4. c % Ten[discard] = unit * t + r
    <3> DEFINE h == x \div UnitBase
               low == unit * t + r
    <3>1. h \in Nat /\ x = UnitBase * h + unit
      BY <1>4, UnitFacts
    <3> HIDE DEF h, unit, p
    <3>2. unit * t \in Nat /\ low \in Nat
      BY <1>3, <1>4, <1>7
    <3>3. low < UnitBase * t
      <4>1. (unit + 1) * t <= UnitBase * t
        BY <1>3, <1>7, UnitFacts, Monotone
      <4>2. (unit + 1) * t = unit * t + t
        BY <1>3, <1>7
      <4> QED BY <1>3, <1>4, <3>2, <4>1, <4>2, UnitFacts
    <3>4. c = (UnitBase * t) * h + low
      <4>1. t * (UnitBase * h + unit) = (UnitBase * t) * h + unit * t
        BY <1>3, <1>7, <3>1, UnitFacts
      <4>2. c = t * (UnitBase * h + unit) + r
        BY <1>4, <3>1
      <4>3. (UnitBase * t) * h \in Nat
        BY <1>3, <3>1, UnitFacts
      <4> QED BY <1>4, <3>2, <4>1, <4>2, <4>3
    <3> HIDE DEF low
    <3>5. c % Ten[discard] = low
      BY <2>3, <3>1, <3>2, <3>3, <3>4, CutIs
    <3> QED BY <3>5 DEF low
  <2>5. StandsFor(UnitResidue(unit, sticky), unit * wide + tail, UnitBase * wide)
    <3> HIDE DEF unit, sticky, tail, wide
    <3>1. wide > 0
      BY <1>5
    <3> QED BY <1>5, <1>6, <1>7, <3>1, UnitResidueSound
  <2>6. unit * wide + tail = (unit * t + r) * size + below
    <3> HIDE DEF unit
    <3>1. unit * (t * size) = (unit * t) * size
      BY <1>3, <1>7
    <3>2. (unit * t + r) * size = (unit * t) * size + r * size
      BY <1>3, <1>4, <1>7
    <3>3. (unit * t) * size \in Nat /\ r * size \in Nat
      BY <1>3, <1>4, <1>7
    <3> QED BY <3>1, <3>2, <3>3
  <2>7. UnitBase * wide = (UnitBase * t) * size
    BY <1>3, UnitFacts
  <2> QED BY <1>2, <1>10, <2>3, <2>4, <2>5, <2>6, <2>7
<1>11. CASE cut # DECDPUN - 1
  <2> DEFINE guard == (unit \div p) % 10
             low == unit % p
             drop == guard * p + low
  <2>1. guard \in 0..9 /\ low \in Nat /\ low < p
        /\ \E h \in Nat : x = (10 * p) * h + drop
    <3>1. CutInUnit(x, unit, p)
      <4> HIDE DEF p, q
      <4> QED BY <1>4, <1>8, DigitInUnit
    <3> QED BY <3>1 DEF CutInUnit
  <2>2. StandsFor(DigitResidue(unit, cut, sticky),
                  guard * (p * wide) + (low * wide + tail), 10 * (p * wide))
    <3>1. wide > 0 /\ cut \in Nat /\ guard = (unit \div p) % 10 /\ low = unit % p
      BY <1>1, <1>5
    <3>2. p \in Nat /\ p > 0 /\ p = Ten[cut]
      BY <1>8
    <3> HIDE DEF unit, sticky, tail, wide, guard, low, p
    <3> QED BY <1>5, <1>6, <1>7, <2>1, <3>1, <3>2, DigitResidueSound
  <2>3. PICK h \in Nat : x = (10 * p) * h + drop
    BY <2>1
  <2> HIDE DEF guard, low
  <2>4. guard * p \in Nat /\ drop \in Nat /\ drop + 1 <= 10 * p
    <3>1. guard * p <= 9 * p
      BY <1>8, <2>1, Monotone
    <3>2. guard * p \in Nat
      BY <1>8, <2>1
    <3> HIDE DEF p
    <3> QED BY <1>8, <2>1, <3>1, <3>2
  <2> HIDE DEF p, drop
  <2>5. c % Ten[discard] = drop * t + r
    <3> DEFINE all == drop * t + r
    <3>1. drop * t \in Nat /\ all \in Nat
      BY <1>3, <1>4, <2>4
    <3>2. all < 10 * p * t
      <4>1. (drop + 1) * t <= (10 * p) * t
        BY <1>3, <1>8, <2>4, Monotone
      <4>2. (drop + 1) * t = drop * t + t
        BY <1>3, <2>4
      <4> QED BY <1>3, <1>4, <1>8, <3>1, <4>1, <4>2
    <3>3. c = (10 * p * t) * h + all
      <4>1. t * ((10 * p) * h + drop) = (10 * p * t) * h + drop * t
        BY <1>3, <1>8, <2>4
      <4>2. c = t * ((10 * p) * h + drop) + r
        BY <1>4, <2>3
      <4>3. (10 * p * t) * h \in Nat
        BY <1>3, <1>8
      <4> QED BY <1>4, <3>1, <4>1, <4>2, <4>3
    <3> HIDE DEF all
    <3>4. c % Ten[discard] = all
      BY <1>9, <3>1, <3>2, <3>3, CutIs
    <3> QED BY <3>4 DEF all
  <2>6. guard * (p * wide) + (low * wide + tail) = (drop * t + r) * size + below
    <3>1. guard * (p * (t * size)) = ((guard * p) * t) * size
      BY <1>3, <1>8, <2>1
    <3>2. low * (t * size) = (low * t) * size
      BY <1>3, <2>1
    <3>3. drop * t = (guard * p) * t + low * t
      BY <1>3, <1>8, <2>1 DEF drop
    <3>4. (drop * t + r) * size = ((guard * p) * t) * size + (low * t) * size + r * size
      BY <1>3, <1>4, <1>8, <2>1, <3>3
    <3>5. ((guard * p) * t) * size \in Nat /\ (low * t) * size \in Nat /\ r * size \in Nat
      BY <1>3, <1>4, <1>8, <2>1
    <3> QED BY <3>1, <3>2, <3>4, <3>5
  <2>7. 10 * (p * wide) = (10 * p * t) * size
    BY <1>3, <1>8
  <2> QED BY <1>2, <1>9, <1>11, <2>2, <2>5, <2>6, <2>7
<1> QED BY <1>10, <1>11

----------------------------------------------------------------------------
(* decSetCoeff as a whole.                                                 *)

\* The digits of what is kept when k digits are cut.
LEMMA DigitsKept ==
  ASSUME NEW n \in Nat, NEW k \in Nat, k < GetDigits(n)
  PROVE  /\ GetDigits(n \div Ten[k]) = GetDigits(n) - k
         /\ n # 0 => n \div Ten[k] # 0
<1> DEFINE d == GetDigits(n)
           c == n \div Ten[k]
           r == n % Ten[k]
           t == Ten[k]
           j == d - k
<1>1. d \in Nat /\ d >= 1 /\ n < Ten[d] /\ (d > 1 => Ten[d - 1] <= n)
  BY DigitsAre
<1>2. c \in Nat /\ r \in Nat /\ r < t /\ n = t * c + r
  BY CutAt
<1>3. t \in Nat /\ t > 0
  BY TenNat
<1>4. j \in Nat /\ j >= 1 /\ d = k + j /\ k < d
  BY <1>1
<1> HIDE DEF d, c, r, j
<1>5. Ten[d] = t * Ten[j] /\ Ten[j] \in Nat
  BY <1>4, TenSum, TenNat
<1>6. c < Ten[j]
  <2>1. SUFFICES ASSUME Ten[j] <= c PROVE FALSE
    BY <1>2, <1>5
  <2>2. t * Ten[j] <= t * c
    BY <1>2, <1>3, <1>5, <2>1
  <2>3. t * c \in Nat
    BY <1>2, <1>3
  <2> HIDE DEF t
  <2>4. t * Ten[j] \in Nat
    BY <1>3, <1>5
  <2> QED BY <1>1, <1>2, <1>3, <1>5, <2>2, <2>3, <2>4
<1>7. j > 1 => Ten[j - 1] <= c
  <2>1. SUFFICES ASSUME j > 1, c < Ten[j - 1] PROVE FALSE
    <3>1. j > 1 => Ten[j - 1] \in Nat
      BY <1>4, TenNat
    <3> QED BY <1>2, <3>1
  <2> DEFINE i == j - 1
  <2>2. i \in Nat /\ d - 1 = k + i /\ d > 1
    BY <1>4, <2>1
  <2> HIDE DEF i
  <2>3. Ten[d - 1] = t * Ten[i] /\ Ten[i] \in Nat
    BY <2>2, TenSum, TenNat
  <2>4. c + 1 <= Ten[i]
    BY <1>2, <2>1, <2>3 DEF i
  <2>5. t * (c + 1) <= t * Ten[i]
    BY <1>2, <1>3, <2>3, <2>4
  <2>6. t * (c + 1) = t * c + t /\ t * c \in Nat
    BY <1>2, <1>3
  <2>7. t * Ten[i] \in Nat
    BY <1>3, <2>3
  <2> HIDE DEF t
  <2> QED BY <1>1, <1>2, <1>3, <2>2, <2>3, <2>5, <2>6, <2>7
<1>8. GetDigits(c) = j
  BY <1>2, <1>4, <1>6, <1>7, DigitsUnique
<1>9. n # 0 => c # 0
  <2>1. SUFFICES ASSUME n # 0, c = 0 PROVE FALSE
    OBVIOUS
  <2>2. j = 1
    <3>1. 0 < Ten[1] /\ 1 \in Nat
      BY TenSmall
    <3>2. GetDigits(0) = 1
      BY <3>1, DigitsUnique
    <3> QED BY <1>8, <2>1, <3>2
  <2>3. n < t
    <3>1. t * 0 = 0
      BY <1>3
    <3> QED BY <1>2, <2>1, <3>1
  <2>4. k = d - 1
    BY <1>1, <1>4, <2>2
  <2>5. CASE d > 1
    BY <1>1, <1>3, <2>3, <2>4, <2>5
  <2>6. CASE d = 1
    <3>1. t = 1
      BY <2>4, <2>6, TenSmall
    <3> QED BY <2>1, <2>3, <3>1
  <2> QED BY <1>1, <2>5, <2>6
<1> QED BY <1>8, <1>9 DEF c, d, j

\* A finite number as it is stored.
Stored(neg, coeff, digits, exponent) ==
  [ kind |-> "finite", neg |-> neg, coeff |-> coeff, digits |-> digits,
    exponent |-> exponent ]

\* Finite stores the digits the coefficient has.
LEMMA FiniteIsStored ==
  ASSUME NEW neg, NEW c, NEW e
  PROVE  Finite(neg, c, e) = Stored(neg, c, GetDigits(c), e)
  BY DEF Finite, Number, Stored

\* Its fields.
LEMMA StoredFields ==
  ASSUME NEW neg, NEW c, NEW d, NEW x, NEW dn, dn = Stored(neg, c, d, x)
  PROVE  /\ dn.kind = "finite" /\ dn.neg = neg /\ dn.coeff = c
         /\ dn.digits = d /\ dn.exponent = x
  BY DEF Stored

\* The fields of a work record, and what Raise and an update make of it.
LEMMA WorkFields ==
  ASSUME NEW dn, NEW r, NEW st, NEW w, w = Work(dn, r, st)
  PROVE  /\ w.dn = dn /\ w.residue = r /\ w.status = st
         /\ \A y : [ w EXCEPT !.dn = y ] = Work(y, r, st)
         /\ \A y : Raise(w, y) = Work(dn, r, st \cup y)
<1>1. w.dn = dn /\ w.residue = r /\ w.status = st
  BY DEF Work
<1>2. ASSUME NEW y PROVE [ w EXCEPT !.dn = y ] = Work(y, r, st)
  BY DEF Work
<1>3. ASSUME NEW y PROVE Raise(w, y) = Work(dn, r, st \cup y)
  BY DEF Work, Raise
<1> QED BY <1>1, <1>2, <1>3

\* A stored number with another coefficient, digit count and exponent.
LEMMA ResizedIs ==
  ASSUME NEW neg, NEW c, NEW d, NEW x, NEW dn, dn = Stored(neg, c, d, x),
         NEW y, NEW z, NEW a
  PROVE  Resized(dn, y, z, a) = Stored(neg, y, z, a)
<1>1. Resized(dn, y, z, a)
        = [ [ [ dn EXCEPT !.coeff = y ] EXCEPT !.digits = z ] EXCEPT !.exponent = a ]
  BY DEF Stored, Resized
<1>2. [ dn EXCEPT !.coeff = y ] = Stored(neg, y, d, x)
  BY DEF Stored
<1>3. \A m : m = Stored(neg, y, d, x) => [ m EXCEPT !.digits = z ] = Stored(neg, y, z, x)
  BY DEF Stored
<1>4. \A m : m = Stored(neg, y, z, x) => [ m EXCEPT !.exponent = a ] = Stored(neg, y, z, a)
  BY DEF Stored
<1>5. [ [ dn EXCEPT !.coeff = y ] EXCEPT !.digits = z ] = Stored(neg, y, z, x)
  BY <1>2, <1>3
<1>6. [ [ [ dn EXCEPT !.coeff = y ] EXCEPT !.digits = z ] EXCEPT !.exponent = a ]
        = Stored(neg, y, z, a)
  BY <1>4, <1>5
<1> QED BY <1>1, <1>6

\* A stored number with shift zeros more.
LEMMA PaddedIs ==
  ASSUME NEW neg, NEW c, NEW d, NEW x, NEW dn, dn = Stored(neg, c, d, x), NEW shift
  PROVE  Padded(dn, shift) = Stored(neg, c * Ten[shift], d + shift, x - shift)
<1>1. dn.coeff = c /\ dn.digits = d /\ dn.exponent = x
  BY StoredFields
<1>2. Padded(dn, shift) = Resized(dn, c * Ten[shift], d + shift, x - shift)
  BY <1>1 DEF Padded
<1> QED BY <1>2, ResizedIs

\* Nothing to cut, nothing cut before.
LEMMA SetCoeffNone ==
  ASSUME NEW dn, NEW st, NEW set, dn.digits \in Nat, set.digits \in Nat,
         dn.digits <= set.digits
  PROVE  SetCoeff(Work(dn, 0, st), set) = Work(dn, 0, st)
<1> DEFINE w == Work(dn, 0, st)
           discard == w.dn.digits - set.digits
<1>1. w.dn = dn /\ w.residue = 0
  BY DEF Work
<1>2. discard <= 0 /\ ~(discard > 0) /\ ~(discard > w.dn.digits)
  BY <1>1
<1> HIDE DEF w
<1>3. SetCoeff(w, set) = w
  BY <1>1, <1>2, SMT DEF SetCoeff
<1> QED BY <1>3 DEF w

\* The residue decSetCoeff starts from.
Prior(r) == IF r > 1 THEN 1 ELSE r

\* A cut of w that leaves dn, with the residue of what was dropped.
Cuts(w, set, dn, residue) ==
  SetCoeff(w, set)
    = Work(dn, residue, w.status \cup {"Rounded"} \cup InexactIf(residue))

KeptDigits(d, j) == IF j = d THEN 1 ELSE d - j

\* decSetCoeff where something is cut, digits left or not.
LEMMA SetCoeffSome ==
  ASSUME NEW neg, NEW c \in Nat, NEW d \in Nat, c < Ten[d], NEW x \in Int,
         NEW r \in Int, NEW st, NEW set, NEW j \in Nat, j > 0, j <= d,
         set.digits = d - j
  PROVE  Cuts(Work(Stored(neg, c, d, x), r, st), set,
              Stored(neg, c \div Ten[j], KeptDigits(d, j), x + j),
              DropDigits(c, j, Prior(r)))
<1> DEFINE w == Work(Stored(neg, c, d, x), r, st)
           res == DropDigits(c, j, Prior(r))
           flags == st \cup {"Rounded"} \cup InexactIf(res)
<1>1. w.dn = Stored(neg, c, d, x) /\ w.residue = r /\ w.status = st
  BY WorkFields
<1>2. w.dn.coeff = c /\ w.dn.digits = d /\ w.dn.exponent = x
  BY <1>1, StoredFields
<1>3. w.dn.digits - set.digits = j
  BY <1>2
<1> HIDE DEF w
<1>4. SetCoeff(w, set) = Cut(w, set, res)
  <2>1. SetCoeff(w, set) = Cut(w, set, DropDigits(c, j, IF r > 1 THEN 1 ELSE r))
    BY <1>1, <1>2, <1>3, SMT DEF SetCoeff
  <2> QED BY <2>1 DEF Prior
<1> HIDE DEF res
<1>5. Cut(w, set, res)
        = Work(IF set.digits <= 0 THEN Resized(w.dn, 0, 1, x + j)
               ELSE Resized(w.dn, c \div Ten[j], d - j, x + j), res, flags)
  BY <1>1, <1>2, <1>3 DEF Cut
<1>6. CASE j = d
  <2>1. c \div Ten[j] = 0
    <3>1. c = Ten[d] * 0 + c
      BY TenNat
    <3> QED BY <1>6, <3>1, CutIs
  <2>2. set.digits <= 0
    BY <1>6
  <2>3. Resized(w.dn, 0, 1, x + j) = Stored(neg, 0, 1, x + j)
    BY <1>1, ResizedIs
  <2>4. Cut(w, set, res) = Work(Stored(neg, 0, 1, x + j), res, flags)
    BY <1>5, <2>2, <2>3
  <2> QED BY <1>1, <1>4, <1>6, <2>1, <2>4 DEF w, res, Cuts, KeptDigits
<1>7. CASE j # d
  <2>1. ~(set.digits <= 0)
    BY <1>7
  <2>2. Resized(w.dn, c \div Ten[j], d - j, x + j)
          = Stored(neg, c \div Ten[j], d - j, x + j)
    BY <1>1, ResizedIs
  <2>3. Cut(w, set, res) = Work(Stored(neg, c \div Ten[j], d - j, x + j), res, flags)
    BY <1>5, <2>1, <2>2
  <2> QED BY <1>1, <1>4, <1>7, <2>3 DEF w, res, Cuts, KeptDigits
<1> QED BY <1>6, <1>7

\* decSetCoeff with no digit left to keep.
LEMMA SetCoeffAll ==
  ASSUME NEW neg, NEW c \in Nat, NEW d \in Nat, NEW x \in Int,
         NEW r \in Int, NEW st, NEW set, NEW j \in Nat, j > d, set.digits = d - j
  PROVE  Cuts(Work(Stored(neg, c, d, x), r, st), set,
              Stored(neg, 0, 1, x + j), DropAll(c, Prior(r)))
<1> DEFINE w == Work(Stored(neg, c, d, x), r, st)
           res == DropAll(c, Prior(r))
           flags == st \cup {"Rounded"} \cup InexactIf(res)
<1>1. w.dn = Stored(neg, c, d, x) /\ w.residue = r /\ w.status = st
  BY WorkFields
<1>2. w.dn.coeff = c /\ w.dn.digits = d /\ w.dn.exponent = x
  BY <1>1, StoredFields
<1>3. w.dn.digits - set.digits = j /\ set.digits <= 0
  BY <1>2
<1> HIDE DEF w
<1>4. SetCoeff(w, set) = Cut(w, set, res)
  <2>1. SetCoeff(w, set) = Cut(w, set, DropAll(c, IF r > 1 THEN 1 ELSE r))
    BY <1>1, <1>2, <1>3, SMT DEF SetCoeff
  <2> QED BY <2>1 DEF Prior
<1> HIDE DEF res
<1>5. Cut(w, set, res) = Work(Resized(w.dn, 0, 1, x + j), res, flags)
  BY <1>1, <1>2, <1>3 DEF Cut
<1>6. Resized(w.dn, 0, 1, x + j) = Stored(neg, 0, 1, x + j)
  BY <1>1, ResizedIs
<1> QED BY <1>1, <1>4, <1>5, <1>6 DEF w, res, Cuts

----------------------------------------------------------------------------
(* decFinalize and the correct result.                                     *)

\* The digits of a coefficient with zeros appended.
LEMMA DigitsOfPadded ==
  ASSUME NEW c \in Nat, c # 0, NEW j \in Nat
  PROVE  /\ c * Ten[j] \in Nat /\ c * Ten[j] # 0
         /\ GetDigits(c * Ten[j]) = GetDigits(c) + j
<1> DEFINE d == GetDigits(c)
           t == Ten[j]
           i == d - 1
           k == i + j
           n == c * t
<1>1. d \in Nat /\ d >= 1 /\ c < Ten[d] /\ (d > 1 => Ten[i] <= c)
  BY DigitsAre
<1> HIDE DEF d
<1>2. t \in Nat /\ t > 0 /\ i \in Nat /\ d = i + 1
  BY <1>1, TenNat
<1> HIDE DEF i
<1>3. Ten[d + j] = Ten[d] * t /\ Ten[k] = Ten[i] * t /\ Ten[d] \in Nat /\ Ten[i] \in Nat
      /\ k \in Nat
  <2>1. Ten[d + j] = Ten[d] * t /\ Ten[d] \in Nat
    BY <1>1, TenSum, TenNat
  <2>2. Ten[k] = Ten[i] * t /\ Ten[i] \in Nat /\ k \in Nat
    <3>1. i \in Nat /\ j \in Nat /\ k \in Nat
      BY <1>2
    <3>2. Ten[i + j] = Ten[i] * Ten[j]
      BY <3>1, TenSum
    <3> QED BY <3>1, <3>2, TenNat
  <2> QED BY <2>1, <2>2
<1>4. Ten[i] <= c
  <2>1. CASE d > 1
    BY <1>1, <2>1
  <2>2. CASE d = 1
    <3>1. i = 0
      BY <1>2, <2>2
    <3> QED BY <3>1, TenSmall
  <2> QED BY <1>1, <2>1, <2>2
<1> HIDE DEF k
<1>5. n \in Nat /\ n # 0
  <2> HIDE DEF t
  <2>1. 1 * t <= c * t
    BY <1>2, Monotone
  <2> QED BY <1>2, <2>1
<1>6. Ten[i] * t <= n
  BY <1>2, <1>3, <1>4, Monotone
<1>7. n < Ten[d] * t
  <2> HIDE DEF t
  <2>1. (c + 1) * t <= Ten[d] * t
    BY <1>1, <1>2, <1>3, Monotone
  <2>2. (c + 1) * t = c * t + t
    BY <1>2
  <2>3. Ten[d] * t \in Nat
    BY <1>2, <1>3
  <2> QED BY <1>2, <1>5, <2>1, <2>2, <2>3
<1> HIDE DEF n
<1> DEFINE m == d + j
<1>8. m \in Nat /\ m >= 1 /\ m - 1 = k /\ n < Ten[m] /\ Ten[m - 1] <= n
  <2>1. m - 1 = k
    BY <1>1, <1>2 DEF k
  <2>2. m \in Nat /\ m >= 1
    BY <1>1
  <2> QED BY <1>3, <1>6, <1>7, <2>1, <2>2
<1> HIDE DEF m
<1>9. GetDigits(n) = m
  BY <1>5, <1>8, DigitsUnique
<1> QED BY <1>5, <1>9 DEF n, m, d, t

\* The digits of 10..0, and of the number one higher.
LEMMA DigitsOfTen ==
  ASSUME NEW j \in Nat
  PROVE  GetDigits(Ten[j]) = j + 1
<1>1. Ten[j] \in Nat /\ Ten[j] > 0 /\ Ten[j + 1] = 10 * Ten[j]
  BY TenNat, TenNext
<1> DEFINE m == j + 1
           t == Ten[j]
<1>2. m \in Nat /\ m >= 1 /\ m - 1 = j
  OBVIOUS
<1>3. t \in Nat /\ t < Ten[m] /\ Ten[m - 1] <= t
  BY <1>1, <1>2
<1> HIDE DEF m, t
<1>4. GetDigits(t) = m
  BY <1>2, <1>3, DigitsUnique
<1> QED BY <1>4 DEF m, t

\* The successor is longer only when it is a power of ten.
LEMMA DigitsOfNext ==
  ASSUME NEW c \in Nat
  PROVE  GetDigits(c + 1) = IF c + 1 = Ten[GetDigits(c)] THEN GetDigits(c) + 1
                                                         ELSE GetDigits(c)
<1> DEFINE d == GetDigits(c)
<1>1. d \in Nat /\ d >= 1 /\ c < Ten[d] /\ (d > 1 => Ten[d - 1] <= c)
  BY DigitsAre
<1> HIDE DEF d
<1>2. Ten[d] \in Nat /\ (d > 1 => Ten[d - 1] \in Nat)
  BY <1>1, TenNat
<1>3. CASE c + 1 = Ten[d]
  BY <1>1, <1>3, DigitsOfTen DEF d
<1>4. CASE c + 1 # Ten[d]
  <2> DEFINE n == c + 1
  <2>1. n \in Nat /\ n < Ten[d] /\ (d > 1 => Ten[d - 1] <= n)
    BY <1>1, <1>2, <1>4
  <2> HIDE DEF n
  <2>2. GetDigits(n) = d
    BY <1>1, <2>1, DigitsUnique
  <2> QED BY <1>4, <2>2 DEF n, d
<1> QED BY <1>3, <1>4

\* Fewer digits, smaller number.
LEMMA DigitsOrder ==
  ASSUME NEW c \in Nat, NEW k \in Nat, k >= 1
  PROVE  GetDigits(c) > k <=> c >= Ten[k]
<1> DEFINE d == GetDigits(c)
<1>1. d \in Nat /\ d >= 1 /\ c < Ten[d] /\ (d > 1 => Ten[d - 1] <= c)
  BY DigitsAre
<1> HIDE DEF d
<1>2. Ten[d] \in Nat /\ Ten[k] \in Nat
  BY <1>1, TenNat
<1>3. CASE d > k
  <2> DEFINE i == d - 1
  <2>1. i \in Nat /\ k <= i
    BY <1>1, <1>3
  <2>2. Ten[k] <= Ten[i] /\ Ten[i] \in Nat
    BY <2>1, TenMonotone, TenNat
  <2>3. Ten[i] <= c
    BY <1>1, <1>3
  <2> HIDE DEF i
  <2> QED BY <1>2, <1>3, <2>2, <2>3 DEF d
<1>4. CASE ~(d > k)
  <2>1. d <= k
    BY <1>1, <1>4
  <2>2. Ten[d] <= Ten[k]
    BY <1>1, <2>1, TenMonotone
  <2> QED BY <1>1, <1>2, <1>4, <2>2 DEF d
<1> QED BY <1>3, <1>4

\* The part of a work record a caller sees.
Outcome(w) == [ dn |-> w.dn, status |-> w.status ]

\* It is the number and the status.
LEMMA OutcomeOf ==
  ASSUME NEW dn, NEW r, NEW st, NEW w, w = Work(dn, r, st)
  PROVE  Outcome(w) = [ dn |-> dn, status |-> st ]
  BY DEF Outcome, Work

\* What the contexts have in common.
LEMMA RoomyFacts ==
  ASSUME NEW set, Roomy(set)
  PROVE  /\ set.digits \in Nat /\ set.digits >= 1 /\ set.emax \in Nat
         /\ set.emin \in Int /\ set.emin <= 0 /\ set.round \in Roundings
         /\ set.clamp \in {0, 1}
         /\ Etop(set) \in Int /\ Etop(set) = set.emax - set.digits + 1
         /\ Etiny(set) \in Int /\ Etiny(set) = set.emin - set.digits + 1
         /\ (set.clamp = 1 => Etop(set) >= 0)
  BY DEF Roomy, HasRoom, Etop, Etiny

\* The flags of an overflow, and the correct result of one.
Overflows(neg, st, set) ==
  [ dn |-> Overflowed(neg, set),
    status |-> st \cup {"Overflow", "Inexact", "Rounded"} ]

\* A coefficient that has no digits to carry.
LEMMA PlacedPlain ==
  ASSUME NEW neg, NEW c \in Nat, c # 0, NEW x \in Int, NEW st, NEW set,
         set.emax \in Nat, set.digits \in Nat,
         GetDigits(c) <= set.digits
  PROVE  Placed(neg, c, x, st, set)
           = IF x + GetDigits(c) - 1 > set.emax THEN Overflows(neg, st, set)
             ELSE Flagged(Folded(neg, c, x, set), st)
<1>1. GetDigits(c) \in Nat /\ ~(GetDigits(c) > set.digits)
  BY DigitsAre
<1>2. CASE x + GetDigits(c) - 1 > set.emax
  <2>1. Placed(neg, c, x, st, set) = Overflows(neg, st, set)
    BY <1>1, <1>2, SMT DEF Placed, Overflows
  <2> QED BY <1>2, <2>1
<1>3. CASE ~(x + GetDigits(c) - 1 > set.emax)
  <2>1. x + GetDigits(c) - 1 <= set.emax
    BY <1>1, <1>3
  <2>2. ~(c # 0 /\ x + GetDigits(c) - 1 > set.emax)
    BY <1>1, <1>3
  <2>3. Placed(neg, c, x, st, set)
          = Flagged(Folded(neg, c, x, set), st)
    BY <1>1, <2>1, <2>2, Zenon DEF Placed
  <2> QED BY <1>3, <2>3
<1> QED BY <1>2, <1>3

\* 99..9 rounded up.
LEMMA PlacedCarried ==
  ASSUME NEW neg, NEW x \in Int, NEW st, NEW set, Roomy(set)
  PROVE  Placed(neg, Ten[set.digits], x, st, set)
           = Placed(neg, Ten[set.digits - 1], x + 1, st, set)
<1> DEFINE p == set.digits
           i == p - 1
<1>1. p \in Nat /\ p >= 1 /\ i \in Nat /\ i + 1 = p
  BY RoomyFacts
<1>2. GetDigits(Ten[p]) = p + 1 /\ GetDigits(Ten[i]) = p
  <2>1. GetDigits(Ten[p]) = p + 1
    BY <1>1, DigitsOfTen
  <2>2. GetDigits(Ten[i]) = i + 1
    BY <1>1, DigitsOfTen
  <2> QED BY <1>1, <2>1, <2>2
<1>3. GetDigits(Ten[p]) > p /\ ~(GetDigits(Ten[i]) > p)
  BY <1>1, <1>2
<1> HIDE DEF i
<1> QED BY <1>3 DEF Placed, i

\* The correct result when nothing is folded down, and when something is.
LEMMA FoldedNone ==
  ASSUME NEW neg, NEW c \in Nat, NEW x \in Int, NEW set,
         set.clamp = 1 => Larger(0, x - Etop(set)) = 0
  PROVE  Folded(neg, c, x, set) = [ dn |-> Finite(neg, c, x), status |-> {} ]
<1> DEFINE fold == IF set.clamp = 1 THEN Larger(0, x - Etop(set)) ELSE 0
<1>1. fold = 0
  OBVIOUS
<1>2. Folded(neg, c, x, set) = [ dn |-> Finite(neg, c * Ten[fold], x - fold),
                                 status |-> IF fold > 0 THEN {"Clamped"} ELSE {} ]
  BY Zenon DEF Folded
<1> HIDE DEF fold
<1>3. c * Ten[fold] = c /\ x - fold = x /\ ~(fold > 0)
  BY <1>1, TenSmall
<1> QED BY <1>2, <1>3

\* And one above it is padded down to it.
LEMMA FoldedSome ==
  ASSUME NEW neg, NEW c, NEW x \in Int, NEW set, set.clamp = 1,
         Etop(set) \in Int, x > Etop(set)
  PROVE  Folded(neg, c, x, set)
           = [ dn |-> Finite(neg, c * Ten[x - Etop(set)], x - (x - Etop(set))),
               status |-> {"Clamped"} ]
<1> DEFINE fold == x - Etop(set)
<1>1. Larger(0, x - Etop(set)) = fold /\ fold > 0
  BY DEF Larger
<1> HIDE DEF fold
<1>2. Folded(neg, c, x, set)
        = [ dn |-> Finite(neg, c * Ten[fold], x - fold), status |-> {"Clamped"} ]
  BY <1>1, Zenon DEF Folded
<1> QED BY <1>2 DEF fold

\* An overflow: the largest number or an infinity.
LEMMA SetOverflowIs ==
  ASSUME NEW neg, NEW c \in Nat, c # 0, NEW d, NEW x, NEW r, NEW st, NEW set
  PROVE  SetOverflow(Work(Stored(neg, c, d, x), r, st), set)
           = Work(Overflowed(neg, set), r, st \cup {"Overflow", "Inexact", "Rounded"})
<1> DEFINE dn == Stored(neg, c, d, x)
           w == Work(dn, r, st)
           needmax == \/ set.round = "DOWN"
                      \/ set.round = "CEILING" /\ neg
                      \/ set.round = "FLOOR" /\ ~neg
           up == [ w EXCEPT !.dn = Overflowed(neg, set) ]
           flags == {"Overflow", "Inexact", "Rounded"}
<1>1. w = Work(dn, r, st) /\ w.dn = dn
  BY WorkFields
<1>2. dn.neg = neg /\ ~IsZero(dn)
  BY StoredFields DEF IsZero
<1>3. Overflowed(neg, set) = IF needmax THEN MaxValue(neg, set) ELSE Infinity(neg)
  BY Zenon DEF Overflowed, MaxValue
<1> HIDE DEF w, dn
<1>4. SetOverflow(w, set)
        = Raise([ w EXCEPT !.dn = IF needmax THEN MaxValue(neg, set)
                                             ELSE Infinity(neg) ], flags)
  BY <1>1, <1>2, SMT DEF SetOverflow
<1>5. SetOverflow(w, set) = Raise(up, flags)
  BY <1>3, <1>4, Zenon
<1>6. up = Work(Overflowed(neg, set), r, st)
  BY <1>1 DEF Work
<1> HIDE DEF up
<1>7. Raise(up, flags) = Work(Overflowed(neg, set), r, st \cup flags)
  BY <1>6, WorkFields
<1> QED BY <1>5, <1>7 DEF w, dn

\* A number whose coefficient fits: what decFinalize does when nothing is left
\* to round.
LEMMA FoldDownPlaced ==
  ASSUME NEW neg, NEW c \in Nat, c # 0, NEW d \in Nat, d = GetDigits(c),
         NEW x \in Int, NEW r, NEW st, NEW set, Roomy(set), d <= set.digits
  PROVE  Outcome(FoldDown(Work(Stored(neg, c, d, x), r, st), set))
           = Placed(neg, c, x, st, set)
<1> DEFINE dn == Stored(neg, c, d, x)
           w == Work(dn, r, st)
           shift == x - Etop(set)
           Fold == Folded(neg, c, x, set)
<1>1. w = Work(dn, r, st) /\ w.dn = dn /\ w.status = st
  BY WorkFields
<1>2. dn.kind = "finite" /\ dn.neg = neg /\ dn.coeff = c /\ dn.digits = d
      /\ dn.exponent = x
  BY StoredFields
<1>3. ~IsZero(dn) /\ dn = Stored(neg, c, d, x)
  BY <1>2 DEF IsZero
<1>4. /\ set.digits \in Nat /\ set.digits >= 1 /\ set.emax \in Nat
      /\ set.clamp \in {0, 1} /\ (set.clamp = 1 => Etop(set) >= 0)
      /\ Etop(set) = set.emax - set.digits + 1 /\ Etop(set) \in Int
  BY RoomyFacts
<1>5. d \in Nat /\ d >= 1
  BY DigitsAre
<1>6. shift = w.dn.exponent - Etop(set) /\ shift \in Int
  BY <1>1, <1>2, <1>4
<1>7. Placed(neg, c, x, st, set)
        = IF x + d - 1 > set.emax THEN Overflows(neg, st, set)
          ELSE Flagged(Fold, st)
  <2> HIDE DEF w, dn, shift
  <2>1. GetDigits(c) <= set.digits /\ set.emax \in Nat /\ set.digits \in Nat
    BY <1>4
  <2>2. Placed(neg, c, x, st, set)
          = IF x + GetDigits(c) - 1 > set.emax THEN Overflows(neg, st, set)
            ELSE Flagged(Folded(neg, c, x, set), st)
    BY <2>1, PlacedPlain
  <2> QED BY <2>2
<1> HIDE DEF w, dn, shift
<1>8. CASE shift <= 0
  <2>1. FoldDown(w, set) = w
    BY <1>6, <1>8, SMT DEF FoldDown
  <2>2. ~(x + d - 1 > set.emax)
    BY <1>4, <1>5, <1>8 DEF shift
  <2>3. Fold = [ dn |-> Finite(neg, c, x), status |-> {} ]
    <3>1. Larger(0, x - Etop(set)) = 0
      BY <1>4, <1>8 DEF Larger, shift
    <3> QED BY <3>1, FoldedNone
  <2>4. Finite(neg, c, x) = dn
    BY FiniteIsStored DEF dn
  <2>5. Outcome(w) = [ dn |-> dn, status |-> st ]
    BY <1>1, OutcomeOf
  <2> QED BY <1>7, <2>1, <2>2, <2>3, <2>4, <2>5 DEF w, dn, Flagged
<1>9. CASE shift > 0 /\ x > set.emax - d + 1
  <2>1. FoldDown(w, set) = SetOverflow(w, set)
    BY <1>1, <1>2, <1>4, <1>5, <1>6, <1>9, SMT DEF FoldDown
  <2>2. x + d - 1 > set.emax
    BY <1>4, <1>5, <1>9
  <2>3. Outcome(SetOverflow(w, set)) = Overflows(neg, st, set)
    <3>1. SetOverflow(w, set)
            = Work(Overflowed(neg, set), r, st \cup {"Overflow", "Inexact", "Rounded"})
      BY SetOverflowIs DEF w, dn
    <3> QED BY <3>1, OutcomeOf DEF Overflows
  <2> QED BY <1>7, <2>1, <2>2, <2>3 DEF w, dn
<1>10. CASE shift > 0 /\ x <= set.emax - d + 1
  <2>1. ~(x + d - 1 > set.emax)
    BY <1>4, <1>5, <1>10
  <2>2. CASE set.clamp = 0
    <3>1. FoldDown(w, set) = w
      BY <1>1, <1>2, <1>4, <1>5, <1>6, <1>10, <2>2, SMT DEF FoldDown
    <3>2. Fold = [ dn |-> Finite(neg, c, x), status |-> {} ]
      <4>1. ~(set.clamp = 1)
        BY <2>2
      <4> QED BY <4>1, FoldedNone
    <3>3. Finite(neg, c, x) = dn
      BY FiniteIsStored DEF dn
    <3>4. Outcome(w) = [ dn |-> dn, status |-> st ]
      BY <1>1, OutcomeOf
    <3> QED BY <1>7, <2>1, <3>1, <3>2, <3>3, <3>4 DEF w, dn, Flagged
  <2>3. CASE set.clamp = 1
    <3> DEFINE moved == Padded(dn, shift)
               up == [ w EXCEPT !.dn = moved ]
    <3>1. moved = Stored(neg, c * Ten[shift], d + shift, x - shift)
      BY <1>3, PaddedIs
    <3>2. shift \in Nat /\ GetDigits(c * Ten[shift]) = d + shift
      <4>1. shift \in Nat
        BY <1>6, <1>10
      <4> QED BY <4>1, DigitsOfPadded
    <3>3. moved = Finite(neg, c * Ten[shift], x - shift)
      BY <3>1, <3>2, FiniteIsStored
    <3>4. FoldDown(w, set) = Raise(up, {"Clamped"})
      <4>1. /\ ~(shift <= 0) /\ ~(w.dn.exponent > set.emax - w.dn.digits + 1)
            /\ w.dn.exponent <= set.emax - w.dn.digits + 1
            /\ ~IsZero(w.dn) /\ set.clamp # 0
        BY <1>1, <1>2, <1>3, <1>4, <1>5, <1>6, <1>10, <2>3
      <4>2. FoldDown(w, set) = Raise([ w EXCEPT !.dn = Padded(w.dn, shift) ], {"Clamped"})
        BY <1>6, <1>10, <4>1, Zenon DEF FoldDown
      <4> QED BY <1>1, <4>2
    <3> HIDE DEF moved
    <3>5. up = Work(moved, r, st)
      BY <1>1 DEF Work
    <3> HIDE DEF up
    <3>6. Raise(up, {"Clamped"}) = Work(moved, r, st \cup {"Clamped"})
      BY <3>5, WorkFields
    <3>7. Outcome(Raise(up, {"Clamped"})) = [ dn |-> moved, status |-> st \cup {"Clamped"} ]
      BY <3>6, OutcomeOf
    <3>8. Fold = [ dn |-> Finite(neg, c * Ten[shift], x - shift), status |-> {"Clamped"} ]
      <4>1. x > Etop(set)
        BY <1>4, <1>10 DEF shift
      <4> QED BY <1>4, <2>3, <4>1, FoldedSome DEF shift
    <3> QED BY <1>7, <2>1, <3>3, <3>4, <3>7, <3>8 DEF w, dn, Flagged
  <2> QED BY <1>4, <2>2, <2>3
<1>11. x - Etop(set) \in Int
  BY <1>4
<1>12. shift <= 0 \/ (shift > 0 /\ (x > set.emax - d + 1 \/ x <= set.emax - d + 1))
  BY <1>4, <1>6, <1>5
<1> QED BY <1>8, <1>9, <1>10, <1>12

\* A rounding moves the last digit by one at most, and up only unless the
\* fraction is negative.
LEMMA RoundedRange ==
  ASSUME NEW neg, NEW c \in Int, NEW rest \in Int, NEW power, NEW round
  PROVE  /\ rest >= 0 => Rounded(neg, c, rest, power, round) \in {c, c + 1}
         /\ rest < 0 => Rounded(neg, c, rest, power, round) \in {c - 1, c}
         /\ rest = 0 => Rounded(neg, c, rest, power, round) = c
<1> DEFINE y == Rounded(neg, c, rest, power, round)
<1>1. CASE rest < 0
  <2> DEFINE up == Away(neg, c - 1, power + rest, power, round)
  <2>1. y = c - 1 + (IF up THEN 1 ELSE 0)
    BY <1>1 DEF Rounded
  <2> HIDE DEF up, y
  <2>2. y \in {c - 1, c}
    BY <2>1
  <2> QED BY <1>1, <2>2 DEF y
<1>2. CASE ~(rest < 0)
  <2> DEFINE up == Away(neg, c, rest, power, round)
  <2>1. y = c + (IF up THEN 1 ELSE 0)
    BY <1>2 DEF Rounded
  <2>2. rest = 0 => ~up
    BY DEF Away
  <2> HIDE DEF up, y
  <2>3. y \in {c, c + 1} /\ (rest = 0 => y = c)
    BY <2>1, <2>2
  <2> QED BY <1>2, <2>3 DEF y
<1> QED BY <1>1, <1>2

\* Whatever the mode, the last digit moves by one at most.
LEMMA BumpRange ==
  ASSUME NEW dn, NEW round \in Roundings, NEW r
  PROVE  Bump(dn, round, r) \in {-1, 0, 1}
<1>1. CASE round = "UP" \/ round = "DOWN"
  BY <1>1 DEF Bump
<1>2. CASE round = "HALF_UP" \/ round = "HALF_DOWN" \/ round = "HALF_EVEN"
  BY <1>2 DEF Bump
<1>3. CASE round = "CEILING" \/ round = "FLOOR"
  BY <1>3 DEF Bump
<1>4. CASE round = "05UP"
  BY <1>4 DEF Bump
<1> QED BY <1>1, <1>2, <1>3, <1>4 DEF Roundings

\* decApplyRound in terms of the correct rounding y of the coefficient c: where
\* the length stays, and the two places where it would not.
AppliesRound(w, set, neg, c, d, x, rest, y) ==
  /\ y \in {c - 1, c, c + 1} /\ (rest >= 0 => y >= c) /\ (rest = 0 => y = c)
  /\ y = Ten[d] => ApplyRound(w, set) = BumpNines(w, set)
  /\ y = c - 1 /\ c = Ten[d - 1] => ApplyRound(w, set) = BumpPower(w, set)
  /\ y # Ten[d] /\ ~(y = c - 1 /\ c = Ten[d - 1]) =>
       ApplyRound(w, set) = Work(Stored(neg, y, d, x), w.residue, w.status)

\* From a residue that stands for the fraction, decApplyRound does so.
LEMMA ApplyRoundIs ==
  ASSUME NEW neg \in BOOLEAN, NEW c \in Nat, NEW d \in Nat, d >= 1, c < Ten[d],
         NEW x, NEW st, NEW set, set.round \in Roundings,
         NEW r \in Int, NEW rest \in Int, NEW power \in Nat, rest < power,
         StandsFor(r, rest, power)
  PROVE  AppliesRound(Work(Stored(neg, c, d, x), r, st), set, neg, c, d, x, rest,
                      Rounded(neg, c, rest, power, set.round))
<1> DEFINE dn == Stored(neg, c, d, x)
           w == Work(dn, r, st)
           y == Rounded(neg, c, rest, power, set.round)
           bump == Bump(dn, set.round, r)
           app == ApplyRound(w, set)
           holds == AppliesRound(w, set, neg, c, d, x, rest, y)
<1>1. /\ w = Work(dn, r, st) /\ w.dn = dn /\ w.residue = r /\ w.status = st
      /\ dn.coeff = c /\ dn.neg = neg /\ dn.digits = d
      /\ dn.coeff \in Nat /\ dn.neg \in BOOLEAN
  BY WorkFields, StoredFields
<1>2. /\ y \in {c - 1, c, c + 1} /\ (rest >= 0 => y >= c) /\ (rest = 0 => y = c)
  <2>1. /\ rest >= 0 => y \in {c, c + 1}
        /\ rest < 0 => y \in {c - 1, c}
        /\ rest = 0 => y = c
    BY RoundedRange
  <2> HIDE DEF y
  <2> QED BY <2>1
<1>3. r = 0 <=> rest = 0
  BY DEF StandsFor
<1>4. Ten[d] \in Nat
  BY TenNat
<1>5. dn.coeff + (IF r = 0 THEN 0 ELSE bump) = y
  <2>1. dn.coeff + (IF r = 0 THEN 0 ELSE Bump(dn, set.round, r))
            = Rounded(dn.neg, dn.coeff, rest, power, set.round)
    <3> HIDE DEF dn, w
    <3> QED BY <1>1, BumpRounds
  <2> QED BY <1>1, <2>1
<1>6. bump \in {-1, 0, 1}
  BY BumpRange
<1> HIDE DEF w, y, dn, bump
<1>7. ASSUME r = 0 PROVE holds
  <2>1. app = w
    BY <1>1, <1>7 DEF ApplyRound
  <2>2. y = c
    BY <1>2, <1>3, <1>7
  <2> QED BY <1>1, <1>2, <1>4, <2>1, <2>2 DEF AppliesRound, dn
<1>8. ASSUME r # 0 PROVE holds
  <2>1. app = Bumped(w, set, bump)
    BY <1>1, <1>8 DEF ApplyRound, bump
  <2>2. c + bump = y
    BY <1>1, <1>5, <1>8
  <2>3. bump = y - c /\ y \in Int
    BY <1>2, <1>6, <2>2
  <2>4. CASE y = Ten[d]
    <3>1. bump = 1 /\ w.dn.coeff = Ten[w.dn.digits] - 1
      BY <1>1, <1>2, <1>4, <2>3, <2>4
    <3>2. app = BumpNines(w, set)
      BY <2>1, <3>1, SMT DEF Bumped
    <3>3. ~(y = c - 1)
      BY <1>2, <1>4, <2>4
    <3> QED BY <1>2, <2>4, <3>2, <3>3 DEF AppliesRound
  <2>5. CASE y = c - 1 /\ c = Ten[d - 1]
    <3>1. bump = -1 /\ w.dn.coeff = Ten[w.dn.digits - 1]
      BY <1>1, <2>3, <2>5
    <3>2. app = BumpPower(w, set)
      BY <2>1, <3>1, SMT DEF Bumped
    <3>3. y # Ten[d]
      BY <1>4, <2>5
    <3> QED BY <1>2, <2>5, <3>2, <3>3 DEF AppliesRound
  <2>6. CASE y # Ten[d] /\ ~(y = c - 1 /\ c = Ten[d - 1])
    <3>1. ~(bump = 1 /\ w.dn.coeff = Ten[w.dn.digits] - 1)
      BY <1>1, <1>4, <2>3, <2>6
    <3>2. ~(bump = -1 /\ w.dn.coeff = Ten[w.dn.digits - 1])
      BY <1>1, <2>3, <2>6
    <3>3. app = Work(Stored(neg, y, d, x), r, st)
      <4>1. CASE bump = 0
        <5>1. app = w
          BY <2>1, <4>1, SMT DEF Bumped
        <5>2. y = c
          BY <2>3, <4>1
        <5> QED BY <1>1, <5>1, <5>2 DEF dn
      <4>2. CASE bump # 0
        <5>1. app = [ w EXCEPT !.dn.coeff = @ + bump ]
          BY <2>1, <3>1, <3>2, <4>2, Zenon DEF Bumped
        <5>2. w.dn.coeff + bump = y
          BY <1>1, <2>2
        <5>3. app = [ w EXCEPT !.dn.coeff = y ]
          BY <5>1, <5>2
        <5>4. [ w EXCEPT !.dn.coeff = y ] = Work(Stored(neg, y, d, x), r, st)
          BY <1>1 DEF Work, Stored, dn
        <5> QED BY <5>3, <5>4
      <4> QED BY <4>1, <4>2
    <3> QED BY <1>1, <1>2, <2>6, <3>3 DEF AppliesRound
  <2> QED BY <2>4, <2>5, <2>6
<1>9. holds
  BY <1>7, <1>8
<1> QED BY <1>9 DEF w, y, dn

\* What rounding up 99..9 leaves in the code: 10..0 with as many digits, or
\* an overflow.
NinesBumped(neg, c, d, x, r, st, set) ==
  /\ x + d > set.emax => BumpNines(Work(Stored(neg, c, d, x), r, st), set)
       = Work(Overflowed(neg, set), r, st \cup {"Overflow", "Inexact", "Rounded"})
  /\ x + d <= set.emax => BumpNines(Work(Stored(neg, c, d, x), r, st), set)
       = Work(Stored(neg, Ten[d - 1], d, x + 1), r, st)

\* 99..9 rounded up, in the code.
LEMMA BumpNinesIs ==
  ASSUME NEW neg \in BOOLEAN, NEW c, NEW d \in Nat, d >= 1, NEW x \in Int, NEW r, NEW st,
         NEW set, set.emax \in Nat
  PROVE  NinesBumped(neg, c, d, x, r, st, set)
<1> DEFINE w == Work(Stored(neg, c, d, x), r, st)
           dn == Stored(neg, c, d, x)
           i == d - 1
           y == x + 1
           t == Ten[i]
           next == Stored(neg, t, d, y)
           up == [ w EXCEPT !.dn = Resized(@, Ten[@.digits - 1], @.digits, @.exponent + 1) ]
<1>1. w = Work(dn, r, st) /\ w.dn = dn
  BY WorkFields
<1>2. dn = Stored(neg, c, d, x) /\ dn.digits = d /\ dn.exponent = x
  BY StoredFields
<1>3. i \in Nat /\ t \in Nat /\ t # 0 /\ y \in Int
  <2>1. i \in Nat
    OBVIOUS
  <2> QED BY <2>1, TenNat
<1> HIDE DEF dn, w
<1>4. up = Work(next, r, st)
  <2>1. Resized(dn, t, d, y) = next
    BY <1>2, ResizedIs
  <2>2. Resized(w.dn, Ten[w.dn.digits - 1], w.dn.digits, w.dn.exponent + 1) = next
    BY <1>1, <1>2, <2>1
  <2> HIDE DEF next
  <2>3. up = [ w EXCEPT !.dn = next ]
    BY <2>2, Zenon
  <2>4. [ w EXCEPT !.dn = next ] = Work(next, r, st)
    BY <1>1 DEF Work
  <2> QED BY <2>3, <2>4
<1>5. up.dn.exponent = y /\ up.dn.digits = d
  <2>1. up.dn = next
    <3> HIDE DEF next, up
    <3> QED BY <1>4, WorkFields
  <2> QED BY <2>1, StoredFields
<1> HIDE DEF up
<1>6. BumpNines(w, set) = IF y + d > set.emax + 1 THEN SetOverflow(up, set) ELSE up
  <2>1. BumpNines(w, set)
          = IF up.dn.exponent + up.dn.digits > set.emax + 1 THEN SetOverflow(up, set) ELSE up
    BY Zenon DEF BumpNines, up
  <2> QED BY <1>5, <2>1
<1>7. SetOverflow(up, set)
        = Work(Overflowed(neg, set), r, st \cup {"Overflow", "Inexact", "Rounded"})
  <2> HIDE DEF t, y
  <2> QED BY <1>3, <1>4, SetOverflowIs
<1> QED BY <1>4, <1>6, <1>7 DEF w, dn, NinesBumped

\* An overflow is not folded down: an infinity has the exponent 0, which a
\* clamping context has room for, and the largest number is in its place.
LEMMA FoldDownOverflowed ==
  ASSUME NEW neg, NEW r, NEW st, NEW set, Roomy(set),
         NEW w, w = Work(Overflowed(neg, set), r, st)
  PROVE  FoldDown(w, set) = w
<1> DEFINE shift == w.dn.exponent - Etop(set)
<1>1. w.dn = Overflowed(neg, set)
  BY WorkFields
<1>2. /\ set.emax \in Nat /\ set.clamp \in {0, 1}
      /\ (set.clamp = 1 => Etop(set) >= 0) /\ Etop(set) \in Int
  BY RoomyFacts
<1>3. Overflowed(neg, set) \in {MaxValue(neg, set), Infinity(neg)}
  BY DEF Overflowed, MaxValue
<1>4. CASE w.dn = MaxValue(neg, set)
  <2>1. w.dn.exponent = Etop(set)
    BY <1>4 DEF MaxValue, Finite, Number
  <2>2. shift <= 0 /\ ~(shift > 0)
    BY <1>2, <2>1
  <2> QED BY <2>2, SMT DEF FoldDown
<1>5. CASE w.dn = Infinity(neg)
  <2>1. w.dn.exponent = 0 /\ w.dn.digits = GetDigits(0)
    BY <1>5 DEF Infinity, Number
  <2>2. GetDigits(0) = 1
    <3>1. 0 < Ten[1] /\ 1 \in Nat
      BY TenSmall
    <3> QED BY <3>1, DigitsUnique
  <2>3. CASE shift <= 0
    <3>1. ~(shift > 0)
      BY <1>2, <2>1, <2>3
    <3> QED BY <2>3, <3>1, SMT DEF FoldDown
  <2>4. CASE shift > 0
    <3>1. set.clamp = 0
      BY <1>2, <2>1, <2>4
    <3>2. ~(w.dn.exponent > set.emax - w.dn.digits + 1)
          /\ w.dn.exponent <= set.emax - w.dn.digits + 1 /\ ~(shift <= 0)
      BY <1>2, <2>1, <2>2, <2>4
    <3> QED BY <2>4, <3>1, <3>2, SMT DEF FoldDown
  <2> QED BY <1>2, <2>1, <2>3, <2>4
<1> QED BY <1>1, <1>3, <1>4, <1>5

\* decFinalize on a number that is not subnormal: the correctly rounded
\* coefficient in its place.
LEMMA FinalizeNormal ==
  ASSUME NEW neg \in BOOLEAN, NEW c \in Nat, c # 0, NEW x \in Int, NEW st,
         NEW set, Roomy(set), GetDigits(c) <= set.digits,
         x + GetDigits(c) - 1 >= set.emin,
         NEW r \in Int, NEW rest \in Int, NEW power \in Nat, rest < power,
         StandsFor(r, rest, power),
         rest # 0 => GetDigits(c) = set.digits,
         rest < 0 => c # Ten[GetDigits(c) - 1]
  PROVE  Outcome(Finalize(Work(Finite(neg, c, x), r, st), set))
           = Placed(neg, Rounded(neg, c, rest, power, set.round), x, st, set)
<1> DEFINE d == GetDigits(c)
           i == d - 1
           w == Work(Stored(neg, c, d, x), r, st)
           y == Rounded(neg, c, rest, power, set.round)
           app == ApplyRound(w, set)
<1>1. /\ d \in Nat /\ d >= 1 /\ c < Ten[d] /\ i \in Nat
      /\ Ten[i] <= c /\ Ten[i] \in Nat /\ Ten[i] > 0 /\ Ten[d] \in Nat
  <2>1. d \in Nat /\ d >= 1 /\ c < Ten[d] /\ (d > 1 => Ten[i] <= c)
    BY DigitsAre
  <2> HIDE DEF d
  <2>2. i \in Nat
    BY <2>1
  <2>3. d = 1 => Ten[i] = 1
    <3>1. d = 1 => i = 0
      OBVIOUS
    <3> QED BY <3>1, TenSmall
  <2> HIDE DEF i
  <2>4. Ten[i] \in Nat /\ Ten[i] > 0 /\ Ten[d] \in Nat
    BY <2>1, <2>2, TenNat
  <2>5. Ten[i] <= c
    BY <2>1, <2>3
  <2> QED BY <2>1, <2>2, <2>4, <2>5
<1>2. /\ set.digits \in Nat /\ set.digits >= 1 /\ set.emax \in Nat
      /\ set.emin \in Int /\ set.round \in Roundings
  BY RoomyFacts
<1>3. w.dn.coeff = c /\ w.dn.digits = d /\ w.dn.exponent = x /\ w.residue = r
  BY WorkFields, StoredFields
<1>4. Work(Finite(neg, c, x), r, st) = w
  BY FiniteIsStored
<1>5. d <= set.digits /\ x + d - 1 >= set.emin /\ (rest # 0 => d = set.digits)
      /\ (rest < 0 => c # Ten[i])
  OBVIOUS
<1>6. /\ y \in {c - 1, c, c + 1} /\ (rest >= 0 => y >= c) /\ (rest = 0 => y = c)
      /\ y = Ten[d] => app = BumpNines(w, set)
      /\ y # Ten[d] /\ ~(y = c - 1 /\ c = Ten[i]) =>
              app = Work(Stored(neg, y, d, x), r, st)
  <2>1. AppliesRound(w, set, neg, c, d, x, rest, y)
    <3> HIDE DEF d
    <3> QED BY <1>1, <1>2, ApplyRoundIs
  <2>2. w.residue = r /\ w.status = st
    BY WorkFields
  <2> HIDE DEF w, d, y
  <2> QED BY <2>1, <2>2 DEF AppliesRound
<1>7. r < 0 => rest < 0
  BY DEF StandsFor
<1> DEFINE same == d = GetDigits(c)
<1>8. same
  OBVIOUS
<1> HIDE DEF d, w, y, app, same
<1>9. Finalize(w, set) = FoldDown(app, set)
  <2>1. ~(w.dn.exponent < set.emin - w.dn.digits + 1)
    BY <1>1, <1>2, <1>3, <1>5
  <2>2. ~(IsNmin(w.dn, set) /\ w.residue < 0)
    BY <1>3, <1>5, <1>7 DEF IsNmin
  <2>3. ~IsSubnormal(w, set)
    BY <2>1, <2>2 DEF IsSubnormal
  <2> QED BY <2>3 DEF Finalize, app
<1>10. CASE y = Ten[d]
  <2>1. d = set.digits
    BY <1>1, <1>5, <1>6, <1>10
  <2> DEFINE z == x + 1
             t == Ten[i]
  <2>2. z \in Int /\ t \in Nat /\ t # 0 /\ GetDigits(t) = d
    <3>1. GetDigits(Ten[i]) = i + 1
      BY <1>1, DigitsOfTen
    <3> QED BY <1>1, <3>1
  <2>3. Placed(neg, y, x, st, set) = Placed(neg, t, z, st, set)
    BY <1>10, <2>1, PlacedCarried
  <2>4. /\ x + d > set.emax => app
             = Work(Overflowed(neg, set), r, st \cup {"Overflow", "Inexact", "Rounded"})
        /\ x + d <= set.emax => app = Work(Stored(neg, t, d, z), r, st)
    <3>1. NinesBumped(neg, c, d, x, r, st, set)
      BY <1>1, <1>2, BumpNinesIs
    <3> QED BY <1>6, <1>10, <3>1 DEF w, NinesBumped
  <2> HIDE DEF z, t
  <2>5. CASE x + d > set.emax
    <3> DEFINE over == st \cup {"Overflow", "Inexact", "Rounded"}
    <3>1. app = Work(Overflowed(neg, set), r, over)
      BY <2>4, <2>5
    <3>2. FoldDown(app, set) = app
      <4> HIDE DEF over
      <4> QED BY <3>1, FoldDownOverflowed
    <3>3. Outcome(app) = Overflows(neg, st, set)
      BY <3>1, OutcomeOf DEF Overflows
    <3>4. z + GetDigits(t) - 1 > set.emax
      BY <1>1, <1>2, <2>2, <2>5 DEF z
    <3>5. Placed(neg, t, z, st, set) = Overflows(neg, st, set)
      BY <1>2, <2>1, <2>2, <3>4, PlacedPlain
    <3> QED BY <1>4, <1>9, <2>3, <3>2, <3>3, <3>5 DEF y
  <2>6. CASE x + d <= set.emax
    <3>1. app = Work(Stored(neg, t, d, z), r, st)
      BY <2>4, <2>6
    <3>2. Outcome(FoldDown(Work(Stored(neg, t, d, z), r, st), set))
            = Placed(neg, t, z, st, set)
      BY <1>1, <2>1, <2>2, FoldDownPlaced
    <3> QED BY <1>4, <1>9, <2>3, <3>1, <3>2 DEF y
  <2>7. x + d \in Int
    BY <1>1
  <2> QED BY <1>2, <2>5, <2>6, <2>7
<1>11. CASE y # Ten[d]
  <2>1. y \in Nat /\ y # 0 /\ y < Ten[d] /\ Ten[i] <= y /\ ~(y = c - 1 /\ c = Ten[i])
    BY <1>1, <1>5, <1>6, <1>11
  <2>2. GetDigits(y) = d
    BY <1>1, <2>1, DigitsUnique DEF i
  <2>3. app = Work(Stored(neg, y, d, x), r, st)
    BY <1>6, <1>11, <2>1
  <2>4. Outcome(FoldDown(Work(Stored(neg, y, d, x), r, st), set))
          = Placed(neg, y, x, st, set)
    BY <1>1, <1>5, <2>1, <2>2, FoldDownPlaced
  <2> QED BY <1>4, <1>9, <2>3, <2>4 DEF y
<1> QED BY <1>10, <1>11

\* A shortening leaves the quotient, and a residue that stands for the rest.
Shortened(w, set, neg, quot, x, st, rest, power) ==
  \E res \in Int :
    /\ StandsFor(res, rest, power)
    /\ SetCoeff(w, set) = Work(Finite(neg, quot, x), res,
                               st \cup {"Rounded"} \cup InexactIf(res))

\* Zero has one digit.
LEMMA ZeroDigits == GetDigits(0) = 1
<1>1. 0 < Ten[1] /\ 1 \in Nat
  BY TenSmall
<1> QED BY <1>1, DigitsUnique

\* The second shortening, of a number below the exponent range: whatever the
\* first one left, and however few digits stay, none included.
LEMMA CutToTiny ==
  ASSUME NEW neg, NEW c \in Nat, c # 0, NEW x \in Int, NEW r \in Int, NEW st,
         NEW ws, NEW j \in Nat, j > 0, ws.digits = GetDigits(c) - j,
         NEW power \in Nat, power > 0, NEW rest \in Int, Marks(Prior(r), rest, power),
         NEW m \in Nat, m = Smaller(j, GetDigits(c) + 1)
  PROVE  Shortened(Work(Finite(neg, c, x), r, st), ws, neg, c \div Ten[m], x + j, st,
                   (c % Ten[m]) * power + rest, Ten[m] * power)
<1> DEFINE d == GetDigits(c)
           w == Work(Stored(neg, c, d, x), r, st)
           q == c \div Ten[m]
           left == (c % Ten[m]) * power + rest
           whole == Ten[m] * power
<1>1. /\ d \in Nat /\ d >= 1 /\ c < Ten[d] /\ Ten[d] \in Nat
  <2>1. d \in Nat /\ d >= 1 /\ c < Ten[d]
    BY DigitsAre
  <2> HIDE DEF d
  <2> QED BY <2>1, TenNat
<1>2. Work(Finite(neg, c, x), r, st) = w
  BY FiniteIsStored
<1>3. Prior(r) \in Int /\ Prior(r) \in {-1, 0, 1}
  BY DEF Marks
<1>4. m = IF j <= d THEN j ELSE d + 1
  <2>1. m = Smaller(j, d + 1)
    OBVIOUS
  <2> HIDE DEF d
  <2> QED BY <1>1, <2>1 DEF Smaller
<1>5. w.status = st
  BY WorkFields
<1>6. CASE j <= d
  <2> DEFINE res == DropDigits(c, j, Prior(r))
  <2>1. m = j
    BY <1>4, <1>6
  <2>2. StandsFor(res, left, whole)
    BY <1>3, <2>1, DropDigitsSound
  <2>3. res \in Int
    <3> HIDE DEF res, left, whole
    <3> QED BY <2>2 DEF StandsFor
  <2>4. Cuts(w, ws, Stored(neg, c \div Ten[j], KeptDigits(d, j), x + j), res)
    <3>1. ws.digits = d - j
      OBVIOUS
    <3> HIDE DEF d
    <3> QED BY <1>1, <1>6, <3>1, SetCoeffSome
  <2>5. GetDigits(q) = IF j = d THEN 1 ELSE d - j
    <3>1. CASE j = d
      <4>1. q = 0
        <5>1. c = Ten[d] * 0 + c
          BY <1>1
        <5> HIDE DEF d
        <5> QED BY <1>1, <2>1, <3>1, <5>1, CutIs
      <4> QED BY <3>1, <4>1, ZeroDigits
    <3>2. CASE j # d
      <4>1. m < GetDigits(c)
        BY <1>1, <1>6, <2>1, <3>2
      <4>2. GetDigits(c \div Ten[m]) = GetDigits(c) - m
        BY <4>1, DigitsKept
      <4> QED BY <2>1, <3>2, <4>2
    <3> QED BY <3>1, <3>2
  <2>6. Stored(neg, c \div Ten[j], KeptDigits(d, j), x + j) = Finite(neg, q, x + j)
    <3>1. Finite(neg, q, x + j) = Stored(neg, q, GetDigits(q), x + j)
      BY FiniteIsStored
    <3> QED BY <2>1, <2>5, <3>1 DEF KeptDigits
  <2> HIDE DEF w, q, left, whole, res, d
  <2>7. SetCoeff(w, ws) = Work(Finite(neg, q, x + j), res,
                               st \cup {"Rounded"} \cup InexactIf(res))
    BY <1>5, <2>4, <2>6 DEF Cuts
  <2>8. Shortened(w, ws, neg, q, x + j, st, left, whole)
    BY <2>2, <2>3, <2>7 DEF Shortened
  <2> QED BY <1>2, <2>8 DEF q, left, whole
<1>7. CASE j > d
  <2> DEFINE res == DropAll(c, Prior(r))
             b == d + 1
  <2>1. m = b /\ b \in Nat
    BY <1>1, <1>4, <1>7
  <2>2. Ten[b] = 10 * Ten[d]
    BY <1>1, TenNext
  <2>3. q = 0 /\ c % Ten[m] = c
    <3> HIDE DEF d
    <3>1. c < Ten[b] /\ c = Ten[b] * 0 + c
      BY <1>1, <2>2
    <3> HIDE DEF b
    <3> QED BY <2>1, <3>1, CutIs
  <2>4. res = 1
    BY <1>3 DEF DropAll
  <2>5. StandsFor(res, left, whole)
    <3> DEFINE t == Ten[d]
               a == c * power
               z == t * power
    <3>1. left = a + rest /\ whole = 10 * z
      <4>1. left = a + rest
        BY <2>3
      <4>2. whole = (10 * t) * power
        BY <2>1, <2>2
      <4> HIDE DEF whole, left, t
      <4> QED BY <1>1, <4>1, <4>2 DEF t
    <3> HIDE DEF t, left, whole
    <3>2. a >= power /\ a \in Nat
      <4>1. 1 * power <= c * power
        BY Monotone
      <4> QED BY <4>1
    <3>3. a + power <= z /\ z \in Nat
      <4>1. (c + 1) * power <= t * power
        BY <1>1, Monotone DEF t
      <4>2. (c + 1) * power = c * power + power
        OBVIOUS
      <4>3. z \in Nat
        BY <1>1 DEF t
      <4> QED BY <4>1, <4>2, <4>3
    <3>4. -power < rest /\ rest < power
      BY DEF Marks
    <3> HIDE DEF a, z
    <3>5. left > 0 /\ 2 * left < whole /\ left \in Int /\ whole \in Int
      BY <3>1, <3>2, <3>3, <3>4
    <3> QED BY <2>4, <3>5 DEF StandsFor
  <2>6. Cuts(w, ws, Stored(neg, 0, 1, x + j), res)
    <3>1. ws.digits = d - j
      OBVIOUS
    <3> HIDE DEF d
    <3> QED BY <1>1, <1>7, <3>1, SetCoeffAll
  <2>7. Stored(neg, 0, 1, x + j) = Finite(neg, q, x + j)
    <3>1. Finite(neg, 0, x + j) = Stored(neg, 0, GetDigits(0), x + j)
      BY FiniteIsStored
    <3> QED BY <2>3, <3>1, ZeroDigits
  <2>8. res \in Int
    BY <2>4
  <2> HIDE DEF w, q, left, whole, res, d
  <2>9. SetCoeff(w, ws) = Work(Finite(neg, q, x + j), res,
                               st \cup {"Rounded"} \cup InexactIf(res))
    BY <1>5, <2>6, <2>7 DEF Cuts
  <2>10. Shortened(w, ws, neg, q, x + j, st, left, whole)
    BY <2>5, <2>8, <2>9 DEF Shortened
  <2> QED BY <1>2, <2>10 DEF q, left, whole
<1> QED BY <1>1, <1>6, <1>7

\* A result below the exponent range.
TinyResult(neg, c, e, flags) ==
  [ dn |-> Finite(neg, c, e),
    status |-> flags \cup UnderflowIf(flags) \cup (IF c = 0 THEN {"Clamped"} ELSE {}) ]

\* What decSetSubnormal raises once the digits are cut and rounded.
LEMMA DenormalIs ==
  ASSUME NEW neg \in BOOLEAN, NEW c \in Nat, NEW tiny \in Int, NEW res, NEW flags
  PROVE  Outcome(Denormal(Work(Finite(neg, c, tiny), res, flags), tiny))
           = TinyResult(neg, c, tiny, flags)
<1> DEFINE dn == Finite(neg, c, tiny)
           w == Work(dn, res, flags)
           more == UnderflowIf(flags) \cup (IF c = 0 THEN {"Clamped"} ELSE {})
           up == [ w EXCEPT !.dn = PadBack(@, tiny) ]
<1>1. w = Work(dn, res, flags) /\ w.dn = dn /\ w.status = flags
  BY WorkFields
<1>2. dn.exponent = tiny /\ (IsZero(dn) <=> c = 0)
  <2>1. dn = Stored(neg, c, GetDigits(c), tiny)
    BY FiniteIsStored
  <2>2. dn.kind = "finite" /\ dn.coeff = c /\ dn.digits = GetDigits(c) /\ dn.exponent = tiny
    <3> HIDE DEF dn
    <3> QED BY <2>1, StoredFields
  <2> HIDE DEF dn
  <2> QED BY <2>2, ZeroDigits DEF IsZero, IsSpecial
<1> HIDE DEF w, dn
<1>3. PadBack(dn, tiny) = dn
  BY <1>2 DEF PadBack
<1>4. up = Work(dn, res, flags)
  <2>1. up = [ w EXCEPT !.dn = dn ]
    BY <1>1, <1>3
  <2> QED BY <1>1, <2>1 DEF Work
<1>5. Denormal(w, tiny) = Raise(up, more)
  BY <1>1, <1>2, Zenon DEF Denormal
<1> HIDE DEF up
<1>6. Raise(up, more) = Work(dn, res, flags \cup more)
  <2> HIDE DEF more
  <2> QED BY <1>4, WorkFields
<1>7. Outcome(Raise(up, more)) = [ dn |-> dn, status |-> flags \cup more ]
  BY <1>6, OutcomeOf
<1> QED BY <1>5, <1>7 DEF w, dn, TinyResult

\* 99..9 rounded up below the exponent range: the zero that went into the
\* exponent is appended again.
LEMMA DenormalNines ==
  ASSUME NEW neg \in BOOLEAN, NEW k \in Nat, NEW tiny \in Int, NEW res, NEW flags
  PROVE  Outcome(Denormal(Work(Stored(neg, Ten[k], k + 1, tiny + 1), res, flags), tiny))
           = TinyResult(neg, Ten[k + 1], tiny, flags)
<1> DEFINE dn == Stored(neg, Ten[k], k + 1, tiny + 1)
           back == Finite(neg, Ten[k + 1], tiny)
           w == Work(dn, res, flags)
           more == UnderflowIf(flags)
           up == [ w EXCEPT !.dn = PadBack(@, tiny) ]
<1>1. w = Work(dn, res, flags) /\ w.dn = dn /\ w.status = flags
  BY WorkFields
<1>2. Ten[k] \in Nat /\ Ten[k] # 0 /\ Ten[k + 1] = Ten[k] * Ten[1]
      /\ Ten[k + 1] \in Nat /\ Ten[k + 1] # 0
  BY TenNat, TenSmall, TenNext
<1>3. dn.exponent = tiny + 1 /\ ~IsZero(dn) /\ dn = Stored(neg, Ten[k], k + 1, tiny + 1)
  <2>1. dn.coeff = Ten[k] /\ dn.exponent = tiny + 1
    BY StoredFields
  <2> QED BY <1>2, <2>1 DEF IsZero
<1> HIDE DEF w
<1>4. PadBack(dn, tiny) = back
  <2>1. PadBack(dn, tiny) = Padded(dn, 1)
    BY <1>3 DEF PadBack
  <2>2. Padded(dn, 1) = Stored(neg, Ten[k] * Ten[1], (k + 1) + 1, (tiny + 1) - 1)
    <3> HIDE DEF dn
    <3> QED BY <1>3, PaddedIs
  <2> DEFINE n == k + 1
  <2>3. n \in Nat /\ GetDigits(Ten[n]) = n + 1
    BY DigitsOfTen
  <2>4. back = Stored(neg, Ten[n], GetDigits(Ten[n]), tiny)
    BY FiniteIsStored
  <2>5. (tiny + 1) - 1 = tiny
    OBVIOUS
  <2> QED BY <1>2, <2>1, <2>2, <2>3, <2>4, <2>5
<1> HIDE DEF dn, back
<1>5. up = Work(back, res, flags)
  <2>1. up = [ w EXCEPT !.dn = back ]
    BY <1>1, <1>4
  <2> QED BY <1>1, <2>1 DEF Work
<1>6. Denormal(w, tiny) = Raise(up, more \cup {})
  BY <1>1, <1>3, Zenon DEF Denormal
<1> HIDE DEF up
<1>7. Raise(up, more \cup {}) = Work(back, res, flags \cup (more \cup {}))
  <2> HIDE DEF more
  <2> QED BY <1>5, WorkFields
<1>8. Outcome(Raise(up, more \cup {})) = [ dn |-> back, status |-> flags \cup (more \cup {}) ]
  BY <1>7, OutcomeOf
<1>9. (IF Ten[k + 1] = 0 THEN {"Clamped"} ELSE {}) = {}
  BY <1>2
<1> QED BY <1>6, <1>8, <1>9 DEF w, dn, back, TinyResult

\* What rounding down 10..0 leaves at the lowest exponent of a context.
PowerBumped(neg, c, d, x, r, st, set) ==
  BumpPower(Work(Stored(neg, c, d, x), r, st), set)
    = Work(Finite(neg, Ten[d - 1] - 1, x), r,
           st \cup {"Underflow", "Subnormal", "Inexact", "Rounded"})

\* 10..0 rounded down below the exponent range: the last 9 is dropped.
LEMMA BumpPowerTiny ==
  ASSUME NEW neg \in BOOLEAN, NEW c, NEW d \in Nat, d >= 1, NEW x \in Int, NEW r, NEW st,
         NEW set, Etiny(set) = x
  PROVE  PowerBumped(neg, c, d, x, r, st, set)
<1> DEFINE dn == Stored(neg, c, d, x)
           w == Work(dn, r, st)
           i == d - 1
           n == Ten[i] - 1
           nine == Finite(neg, n, x)
           down == Resized(dn, Ten[d] - 1, d, x - 1)
           flags == {"Underflow", "Subnormal", "Inexact", "Rounded"}
           up == [ w EXCEPT !.dn = nine ]
<1>1. w = Work(dn, r, st) /\ w.dn = dn
  BY WorkFields
<1>2. dn = Stored(neg, c, d, x) /\ dn.digits = d /\ dn.exponent = x
  BY StoredFields
<1>3. i \in Nat /\ Ten[i] \in Nat /\ Ten[i] > 0 /\ n \in Nat
  <2>1. i \in Nat
    OBVIOUS
  <2> HIDE DEF i
  <2> QED BY <2>1, TenNat
<1>4. nine = Stored(neg, n, GetDigits(n), x)
  BY FiniteIsStored
<1> HIDE DEF dn, w, nine
<1>5. (IF dn.digits = 1 THEN Resized(dn, 0, 1, dn.exponent)
       ELSE Resized(dn, Ten[dn.digits - 1] - 1, dn.digits - 1, dn.exponent)) = nine
  <2>1. CASE d = 1
    <3>1. n = 0
      <4>1. i = 0
        BY <2>1
      <4> QED BY <4>1, TenSmall
    <3>2. Resized(dn, 0, 1, x) = Stored(neg, 0, 1, x)
      BY <1>2, ResizedIs
    <3> QED BY <1>2, <1>4, <2>1, <3>1, <3>2, ZeroDigits
  <2>2. CASE d # 1
    <3>1. i >= 1
      BY <2>2
    <3>2. GetDigits(n) = i
      <4> DEFINE k == i - 1
      <4>1. k \in Nat /\ k < i
        BY <1>3, <3>1
      <4> HIDE DEF i
      <4>2. 10 * Ten[k] <= Ten[i] /\ Ten[k] \in Nat /\ Ten[k] > 0
        BY <1>3, <4>1, TenStrict, TenNat
      <4>3. n < Ten[i] /\ Ten[k] <= n
        BY <1>3, <4>2
      <4> HIDE DEF n
      <4> QED BY <1>3, <3>1, <4>3, DigitsUnique
    <3>3. Resized(dn, n, i, x) = Stored(neg, n, i, x)
      <4> HIDE DEF n, i
      <4> QED BY <1>2, ResizedIs
    <3> QED BY <1>2, <1>4, <2>2, <3>2, <3>3
  <2> QED BY <2>1, <2>2
<1>6. down.exponent + 1 = Etiny(set)
  <2>1. down = Stored(neg, Ten[d] - 1, d, x - 1)
    BY <1>2, ResizedIs
  <2> HIDE DEF down
  <2>2. down.exponent = x - 1
    BY <2>1, StoredFields
  <2> QED BY <2>2
<1>7. BumpPower(w, set) = Raise(up, flags)
  <2>1. down = Resized(w.dn, Ten[w.dn.digits] - 1, w.dn.digits, w.dn.exponent - 1)
    BY <1>1, <1>2
  <2>2. (IF w.dn.digits = 1 THEN Resized(w.dn, 0, 1, w.dn.exponent)
       ELSE Resized(w.dn, Ten[w.dn.digits - 1] - 1, w.dn.digits - 1, w.dn.exponent)) = nine
    BY <1>1, <1>5, Zenon
  <2> HIDE DEF down
  <2> QED BY <1>6, <2>1, <2>2, Zenon DEF BumpPower
<1>8. up = Work(nine, r, st)
  BY <1>1 DEF Work
<1> HIDE DEF up
<1>9. Raise(up, flags) = Work(nine, r, st \cup flags)
  <2> HIDE DEF flags
  <2> QED BY <1>8, WorkFields
<1> QED BY <1>7, <1>9 DEF w, dn, nine, PowerBumped

\* decApplyRound on a number at the lowest exponent of the context: the
\* correctly rounded coefficient with the flags of a tiny result, also when
\* the rounding changes the length.
LEMMA TinyRounded ==
  ASSUME NEW neg \in BOOLEAN, NEW q \in Nat, NEW tiny \in Int, NEW flags,
         NEW ws, ws.round \in Roundings, ws.emax \in Nat,
         NEW r \in Int, NEW rest \in Int, NEW power \in Nat, rest < power,
         StandsFor(r, rest, power),
         q = 0 => rest >= 0,
         q # 0 => tiny + GetDigits(q) <= ws.emax,
         rest < 0 => Etiny(ws) = tiny,
         {"Subnormal", "Rounded"} \cup InexactIf(rest) \subseteq flags
  PROVE  Outcome(Denormal(ApplyRound(Work(Finite(neg, q, tiny), r, flags), ws), tiny))
           = TinyResult(neg, Rounded(neg, q, rest, power, ws.round), tiny, flags)
<1>d. PICK d \in Nat : d = GetDigits(q) /\ d >= 1
  BY DigitsAre
<1>i. PICK i \in Nat : i = d - 1
  BY <1>d
<1> DEFINE w == Work(Stored(neg, q, d, tiny), r, flags)
           y == Rounded(neg, q, rest, power, ws.round)
           app == ApplyRound(w, ws)
<1>1. /\ d \in Nat /\ d >= 1 /\ q < Ten[d] /\ i \in Nat /\ Ten[d] \in Nat
      /\ Ten[i] \in Nat /\ Ten[i] > 0 /\ (q # 0 => Ten[i] <= q) /\ (q = 0 => d = 1)
  <2>1. d \in Nat /\ d >= 1 /\ q < Ten[d] /\ (d > 1 => Ten[i] <= q)
    BY <1>d, <1>i, DigitsAre
  <2>2. q = 0 => d = 1
    BY <1>d, ZeroDigits
  <2>3. i \in Nat /\ (d = 1 => i = 0)
    BY <1>i
  <2>4. d = 1 => Ten[i] = 1
    BY <2>3, TenSmall
  <2>5. Ten[i] \in Nat /\ Ten[i] > 0 /\ Ten[d] \in Nat
    BY <2>1, <2>3, TenNat
  <2> QED BY <2>1, <2>2, <2>3, <2>4, <2>5
<1>2. Work(Finite(neg, q, tiny), r, flags) = w
  BY <1>d, FiniteIsStored
<1>3. w.residue = r /\ w.status = flags
  BY WorkFields
<1>4. AppliesRound(w, ws, neg, q, d, tiny, rest, y)
  <2> QED BY <1>1, ApplyRoundIs
<1>5. q # 0 => tiny + d <= ws.emax
  BY <1>d
<1> HIDE DEF w, y
<1>6. /\ y \in {q - 1, q, q + 1} /\ (rest >= 0 => y >= q) /\ (rest = 0 => y = q)
      /\ y = Ten[d] => app = BumpNines(w, ws)
      /\ y = q - 1 /\ q = Ten[i] => app = BumpPower(w, ws)
      /\ y # Ten[d] /\ ~(y = q - 1 /\ q = Ten[i]) =>
              app = Work(Stored(neg, y, d, tiny), r, flags)
  BY <1>3, <1>4, <1>i DEF AppliesRound
<1> HIDE DEF app
<1>7. CASE y = Ten[d]
  <2>1. q # 0
    <3>1. CASE q = 0
      <4>1. Ten[d] = 10
        BY <1>1, <3>1, TenSmall
      <4> QED BY <1>6, <1>7, <3>1, <4>1
    <3> QED BY <3>1
  <2>2. app = Work(Stored(neg, Ten[i], d, tiny + 1), r, flags)
    <3>1. tiny + d <= ws.emax /\ d \in Nat /\ d >= 1
      BY <1>1, <1>5, <2>1
    <3>2. NinesBumped(neg, q, d, tiny, r, flags, ws)
      BY <3>1, BumpNinesIs
    <3> QED BY <1>6, <1>7, <1>i, <3>1, <3>2 DEF w, NinesBumped
  <2>3. d = i + 1
    BY <1>1, <1>i
  <2>4. Outcome(Denormal(Work(Stored(neg, Ten[i], i + 1, tiny + 1), r, flags), tiny))
          = TinyResult(neg, Ten[i + 1], tiny, flags)
    BY DenormalNines
  <2> QED BY <1>2, <1>7, <2>2, <2>3, <2>4 DEF y, app
<1>8. CASE y = q - 1 /\ q = Ten[i]
  <2> DEFINE more == flags \cup {"Underflow", "Subnormal", "Inexact", "Rounded"}
             n == Ten[i] - 1
  <2>1. rest < 0
    BY <1>6, <1>8
  <2>2. app = Work(Finite(neg, n, tiny), r, more)
    <3>1. Etiny(ws) = tiny /\ d \in Nat /\ d >= 1
      BY <1>1, <2>1
    <3>2. PowerBumped(neg, q, d, tiny, r, flags, ws)
      BY <3>1, BumpPowerTiny
    <3> QED BY <1>6, <1>8, <1>i, <3>2 DEF w, PowerBumped
  <2>3. n \in Nat /\ n = y
    BY <1>1, <1>8
  <2>4. Outcome(Denormal(Work(Finite(neg, n, tiny), r, more), tiny))
          = TinyResult(neg, n, tiny, more)
    <3> HIDE DEF n, more
    <3> QED BY <2>3, DenormalIs
  <2>5. "Inexact" \in flags /\ "Subnormal" \in flags /\ "Rounded" \in flags
    BY <2>1 DEF InexactIf
  <2>6. TinyResult(neg, n, tiny, more) = TinyResult(neg, n, tiny, flags)
    <3>1. more \cup UnderflowIf(more) = flags \cup UnderflowIf(flags)
      BY <2>5 DEF UnderflowIf
    <3> HIDE DEF more, n
    <3> QED BY <3>1 DEF TinyResult
  <2> HIDE DEF n, more
  <2> QED BY <1>2, <2>2, <2>3, <2>4, <2>6 DEF y, app
<1>9. CASE y # Ten[d] /\ ~(y = q - 1 /\ q = Ten[i])
  <2>1. app = Work(Stored(neg, y, d, tiny), r, flags)
    BY <1>6, <1>9
  <2>2. y \in Nat /\ y < Ten[d] /\ (d > 1 => Ten[i] <= y)
    <3>1. CASE q = 0
      BY <1>1, <1>6, <1>9, <3>1
    <3>2. CASE q # 0
      BY <1>1, <1>6, <1>9, <3>2
    <3> QED BY <3>1, <3>2
  <2>3. GetDigits(y) = d
    BY <1>1, <1>i, <2>2, DigitsUnique
  <2>4. Stored(neg, y, d, tiny) = Finite(neg, y, tiny)
    BY <2>3, FiniteIsStored
  <2>5. Outcome(Denormal(Work(Finite(neg, y, tiny), r, flags), tiny))
          = TinyResult(neg, y, tiny, flags)
    BY <2>2, DenormalIs
  <2> QED BY <1>2, <2>1, <2>4, <2>5 DEF y, app
<1> QED BY <1>7, <1>8, <1>9

\* The flags of a number cut below the exponent range.
TinyFlags(st, rest) == st \cup {"Subnormal", "Rounded"} \cup InexactIf(rest)

\* The outcome below the exponent range: m digits cut, and left / (10^m * power)
\* rounded off.
FinalizedTiny(neg, c, x, r, st, set, m, left, power) ==
  Outcome(Finalize(Work(Finite(neg, c, x), r, st), set))
    = TinyResult(neg, Rounded(neg, c \div Ten[m], left, Ten[m] * power, set.round),
                 Etiny(set), TinyFlags(st, left))

\* decFinalize on a number below the exponent range: one rounding of all that
\* is dropped, in the first shortening and in this one.
LEMMA FinalizeSubnormal ==
  ASSUME NEW neg \in BOOLEAN, NEW c \in Nat, c # 0, NEW x \in Int, NEW st,
         NEW set, Roomy(set), GetDigits(c) <= set.digits, x < Etiny(set),
         NEW r \in Int, NEW power \in Nat, power > 0, NEW rest \in Int,
         Marks(Prior(r), rest, power),
         rest < 0 => GetDigits(c) = set.digits,
         NEW m \in Nat, m = Smaller(Etiny(set) - x, GetDigits(c) + 1),
         NEW left \in Int, left = (c % Ten[m]) * power + rest
  PROVE  FinalizedTiny(neg, c, x, r, st, set, m, left, power)
<1> DEFINE d == GetDigits(c)
           tiny == Etiny(set)
           j == tiny - x
           w == Work(Finite(neg, c, x), r, st)
           st1 == st \cup {"Subnormal"}
           w1 == Work(Finite(neg, c, x), r, st1)
           ws == [ set EXCEPT !.digits = d - j, !.emin = @ - j ]
           q == c \div Ten[m]
           low == c % Ten[m]
           whole == Ten[m] * power
           y == Rounded(neg, q, left, whole, set.round)
           flags == st1 \cup {"Rounded"} \cup InexactIf(left)
<1>1. /\ set.digits \in Nat /\ set.digits >= 1 /\ set.emax \in Nat
      /\ set.emin \in Int /\ set.emin <= 0 /\ set.round \in Roundings
      /\ tiny \in Int /\ tiny = set.emin - set.digits + 1
  BY RoomyFacts
<1>2. d \in Nat /\ d >= 1 /\ d <= set.digits
  BY DigitsAre
<1>3. j \in Nat /\ j > 0 /\ x + j = tiny
  BY <1>1
<1>4. ws.digits = d - j /\ ws.emin = set.emin - j /\ ws.emax = set.emax
      /\ ws.round = set.round
  <2>1. set = [ field \in ContextFields |-> set[field] ]
    BY DEF Roomy
  <2> HIDE DEF d, j
  <2> QED BY <2>1 DEF ContextFields
<1>5. w.dn = Finite(neg, c, x) /\ w.status = st /\ w.residue = r /\ w = Work(Finite(neg, c, x), r, st)
  BY WorkFields
<1>6. w.dn.exponent = x /\ w.dn.digits = d /\ ~IsZero(w.dn)
  <2>1. w.dn = Stored(neg, c, d, x)
    BY <1>5, FiniteIsStored
  <2> HIDE DEF w, d
  <2>2. w.dn.exponent = x /\ w.dn.digits = d /\ w.dn.coeff = c
    BY <2>1, StoredFields
  <2> QED BY <2>2 DEF IsZero
<1>7. Raise(w, {"Subnormal"}) = w1
  <2> HIDE DEF w
  <2> QED BY <1>5, WorkFields
<1>8. Finalize(w, set) = Denormal(RoundInto(w1, ws), tiny)
  <2> HIDE DEF w, w1, d
  <2>1. w.dn.exponent < set.emin - w.dn.digits + 1
    BY <1>1, <1>2, <1>3, <1>6
  <2>2. Finalize(w, set) = SetSubnormal(w, set)
    BY <2>1 DEF Finalize, IsSubnormal
  <2>3. /\ tiny - w.dn.exponent = j /\ w.dn.digits = d
        /\ ~(IsZero(w.dn) /\ j > 0) /\ ~(IsZero(w.dn) /\ j <= 0)
        /\ ~(~IsZero(w.dn) /\ j <= 0)
    BY <1>3, <1>6
  <2> HIDE DEF j
  <2>4. SetSubnormal(w, set)
          = Denormal(RoundInto(Raise(w, {"Subnormal"}), ws), tiny)
    BY <2>3, Zenon DEF SetSubnormal
  <2> QED BY <1>7, <2>2, <2>4
<1>9. Shortened(w1, ws, neg, q, x + j, st1, left, whole)
  <2>1. Shortened(w1, ws, neg, q, x + j, st1, (c % Ten[m]) * power + rest, Ten[m] * power)
    <3>1. ws.digits = GetDigits(c) - j /\ m = Smaller(j, GetDigits(c) + 1)
      BY <1>4
    <3> HIDE DEF ws, j, st1
    <3> QED BY <1>3, <3>1, CutToTiny
  <2> HIDE DEF w1, ws, q, j, st1
  <2> QED BY <2>1
<1>10. PICK res \in Int :
        /\ StandsFor(res, left, whole)
        /\ SetCoeff(w1, ws) = Work(Finite(neg, q, tiny), res,
                                   st1 \cup {"Rounded"} \cup InexactIf(res))
  <2> HIDE DEF w1, ws, q, st1, whole, j, tiny
  <2> QED BY <1>3, <1>9 DEF Shortened
<1>11. InexactIf(res) = InexactIf(left)
  <2> HIDE DEF whole
  <2> QED BY <1>10 DEF InexactIf, StandsFor
<1>12. SetCoeff(w1, ws) = Work(Finite(neg, q, tiny), res, flags)
  BY <1>10, <1>11
<1>13. /\ q \in Nat /\ low \in Nat /\ low < Ten[m] /\ c = Ten[m] * q + low
       /\ Ten[m] \in Nat /\ Ten[m] > 0
  BY CutAt, TenNat
<1>14. whole \in Nat /\ left < whole /\ (left < 0 => rest < 0) /\ (low > 0 => left > 0)
  <2> DEFINE t == Ten[m]
  <2>1. t \in Nat /\ t > 0 /\ low \in Nat /\ low + 1 <= t
    BY <1>13
  <2>2. -power < rest /\ rest < power
    BY DEF Marks
  <2>3. left = low * power + rest /\ whole = t * power
    OBVIOUS
  <2> HIDE DEF low, t, whole
  <2>4. (low + 1) * power <= t * power /\ (low + 1) * power = low * power + power
        /\ low * power \in Nat /\ t * power \in Nat
    BY <2>1, Monotone
  <2>5. low > 0 => low * power >= power
    <3>1. low > 0 => 1 * power <= low * power
      BY <2>1, Monotone
    <3> QED BY <3>1
  <2> QED BY <2>2, <2>3, <2>4, <2>5
<1>15. q = 0 => left >= 0
  <2>1. q = 0 => low = c
    <3> HIDE DEF q, low
    <3> QED BY <1>13
  <2> HIDE DEF q, low
  <2> QED BY <1>13, <1>14, <2>1
<1>16. q # 0 => tiny + GetDigits(q) <= ws.emax
  <2>1. SUFFICES ASSUME q # 0 PROVE tiny + GetDigits(q) <= ws.emax
    OBVIOUS
  <2>2. m < d
    <3>1. SUFFICES ASSUME d <= m PROVE FALSE
      BY <1>2
    <3>2. c < Ten[d] /\ Ten[d] <= Ten[m] /\ Ten[d] \in Nat
      BY <1>2, <3>1, DigitsAre, TenMonotone, TenNat
    <3>3. Ten[m] * q >= Ten[m]
      <4> DEFINE t == Ten[m]
      <4>1. t \in Nat /\ q >= 1 /\ q \in Nat
        BY <1>13, <2>1
      <4> HIDE DEF t, q
      <4>2. 1 * t <= q * t
        BY <4>1, Monotone
      <4> QED BY <4>1, <4>2 DEF t
    <3>4. Ten[m] * q \in Nat
      <4> HIDE DEF q
      <4> QED BY <1>13
    <3> HIDE DEF q, low, d
    <3> QED BY <1>13, <3>2, <3>3, <3>4
  <2>3. m = j
    <3>1. m = IF j < d + 1 THEN j ELSE d + 1
      BY DEF Smaller
    <3> HIDE DEF d, j
    <3> QED BY <1>2, <1>3, <2>2, <3>1
  <2>4. GetDigits(q) = d - m
    <3>1. m < GetDigits(c)
      BY <2>2
    <3> QED BY <3>1, DigitsKept
  <2> HIDE DEF q, d, tiny, j, ws
  <2> QED BY <1>1, <1>2, <1>3, <1>4, <2>3, <2>4
<1>17. left < 0 => Etiny(ws) = tiny
  <2>1. SUFFICES ASSUME left < 0 PROVE Etiny(ws) = tiny
    OBVIOUS
  <2>2. d = set.digits
    BY <1>14, <2>1
  <2>3. Etiny(ws) = ws.emin - (ws.digits - 1)
    BY DEF Etiny
  <2> HIDE DEF d, j, ws, tiny
  <2> QED BY <1>1, <1>2, <1>3, <1>4, <2>2, <2>3
<1>18. {"Subnormal", "Rounded"} \cup InexactIf(left) \subseteq flags
  OBVIOUS
<1>19. ws.round \in Roundings /\ ws.emax \in Nat /\ tiny \in Int
  BY <1>1, <1>4
<1>20. Outcome(Denormal(ApplyRound(Work(Finite(neg, q, tiny), res, flags), ws), tiny))
         = TinyResult(neg, Rounded(neg, q, left, whole, ws.round), tiny, flags)
  <2>1. StandsFor(res, left, whole) /\ q \in Nat
    BY <1>10, <1>13
  <2> HIDE DEF q, whole, ws, tiny, flags
  <2> QED BY <1>14, <1>15, <1>16, <1>17, <1>18, <1>19, <2>1, TinyRounded
<1>21. flags = TinyFlags(st, left)
  BY DEF TinyFlags
<1> HIDE DEF w1, ws, q, whole, flags
<1>22. RoundInto(w1, ws) = ApplyRound(Work(Finite(neg, q, tiny), res, flags), ws)
  BY <1>12 DEF RoundInto
<1> QED BY <1>4, <1>8, <1>20, <1>21, <1>22 DEF q, whole, FinalizedTiny

\* The residue of one cut marks the rest it stands for in the next one.
LEMMA PriorMarks ==
  ASSUME NEW r \in Int, NEW rest \in Int, NEW power \in Nat,
         StandsFor(r, rest, power), rest < power
  PROVE  Marks(Prior(r), rest, power)
BY DEF Marks, Prior, StandsFor

\* n * 10^e cut to a precision: the digits kept, a residue that
\* stands for the k digits cut, and the flags of the loss.
FirstCut(w, neg, n, e, k) ==
  \E r \in Int :
    /\ StandsFor(r, n % Ten[k], Ten[k])
    /\ w = Work(Finite(neg, n \div Ten[k], e + k), r,
                (IF k > 0 THEN {"Rounded"} ELSE {}) \cup InexactIf(n % Ten[k]))

\* decCopyFit.
LEMMA CopyFitIs ==
  ASSUME NEW neg, NEW n \in Nat, NEW e \in Int, NEW set, Roomy(set),
         NEW k \in Nat, k = Larger(0, GetDigits(n) - set.digits)
  PROVE  FirstCut(CopyFit(Finite(neg, n, e), set, 0, {}), neg, n, e, k)
<1> DEFINE d == GetDigits(n)
           dn == Finite(neg, n, e)
           low == n % Ten[k]
           q == n \div Ten[k]
<1>1. /\ d \in Nat /\ d >= 1 /\ n < Ten[d]
  BY DigitsAre
<1>2. set.digits \in Nat /\ set.digits >= 1
  BY RoomyFacts
<1>3. k = IF d > set.digits THEN d - set.digits ELSE 0
  <2>1. k = Larger(0, d - set.digits)
    OBVIOUS
  <2> HIDE DEF d
  <2> QED BY <1>1, <1>2, <2>1 DEF Larger
<1>4. dn = Stored(neg, n, d, e)
  BY FiniteIsStored
<1>5. CopyFit(dn, set, 0, {}) = SetCoeff(Work(dn, 0, {}), set)
  BY DEF CopyFit
<1>6. CASE k = 0
  <2>1. q = n /\ low = 0 /\ Ten[k] = 1
    <3>1. n = Ten[0] * n + 0 /\ Ten[0] = 1 /\ 0 < Ten[0]
      BY TenSmall
    <3> QED BY <1>6, <3>1, CutIs
  <2>2. dn.digits = d
    <3> HIDE DEF dn, d
    <3> QED BY <1>4, StoredFields
  <2>3. SetCoeff(Work(dn, 0, {}), set) = Work(dn, 0, {})
    <3>1. dn.digits \in Nat /\ dn.digits <= set.digits
      BY <1>1, <1>2, <1>3, <1>6, <2>2
    <3> HIDE DEF dn
    <3> QED BY <1>2, <3>1, SetCoeffNone
  <2>4. StandsFor(0, low, Ten[k])
    BY <2>1 DEF StandsFor
  <2>5. (IF k > 0 THEN {"Rounded"} ELSE {}) \cup InexactIf(low) = {}
    BY <1>6, <2>1 DEF InexactIf
  <2>6. e + k = e
    BY <1>6
  <2> DEFINE st == (IF k > 0 THEN {"Rounded"} ELSE {}) \cup InexactIf(low)
  <2>7. CopyFit(dn, set, 0, {}) = Work(Finite(neg, q, e + k), 0, st)
    <3> HIDE DEF q, low, st
    <3> QED BY <1>5, <2>1, <2>3, <2>5, <2>6 DEF dn, st
  <2>8. 0 \in Int
    OBVIOUS
  <2> HIDE DEF st
  <2> QED BY <2>4, <2>7, <2>8 DEF FirstCut, dn, q, low, st
<1>7. CASE k # 0
  <2> DEFINE res == DropDigits(n, k, Prior(0))
  <2>1. k > 0 /\ k < d /\ k <= d /\ set.digits = d - k
    <3> HIDE DEF d
    <3> QED BY <1>1, <1>2, <1>3, <1>7
  <2>2. StandsFor(res, low * 1 + 0, Ten[k] * 1)
    <3>1. Marks(Prior(0), 0, 1) /\ Prior(0) \in Int
      BY DEF Marks, Prior
    <3>2. ASSUME NEW size \in Nat, size > 0, NEW below \in Int, NEW s \in Int,
                 Marks(s, below, size)
          PROVE  StandsFor(DropDigits(n, k, s), (n % Ten[k]) * size + below, Ten[k] * size)
      BY <2>1, <3>2, DropDigitsSound
    <3>3. 1 \in Nat /\ 1 > 0 /\ 0 \in Int
      OBVIOUS
    <3> QED BY <3>1, <3>2, <3>3
  <2>3. StandsFor(res, low, Ten[k])
    <3>1. low \in Nat /\ Ten[k] \in Nat
      BY CutAt, TenNat
    <3>2. low * 1 + 0 = low /\ Ten[k] * 1 = Ten[k]
      <4> HIDE DEF low
      <4> QED BY <3>1
    <3> HIDE DEF low, res
    <3> QED BY <2>2, <3>2
  <2>4. Cuts(Work(Stored(neg, n, d, e), 0, {}), set,
             Stored(neg, q, KeptDigits(d, k), e + k), res)
    <3>1. ASSUME NEW r \in Int
          PROVE  Cuts(Work(Stored(neg, n, d, e), r, {}), set,
                      Stored(neg, n \div Ten[k], KeptDigits(d, k), e + k),
                      DropDigits(n, k, Prior(r)))
      <4> HIDE DEF d
      <4> QED BY <1>1, <2>1, SetCoeffSome
    <3>2. 0 \in Int
      OBVIOUS
    <3> HIDE DEF d
    <3> QED BY <3>1, <3>2
  <2>5. GetDigits(q) = KeptDigits(d, k)
    <3>1. k < GetDigits(n)
      BY <2>1
    <3>2. GetDigits(q) = GetDigits(n) - k
      BY <3>1, DigitsKept
    <3> QED BY <2>1, <3>2 DEF KeptDigits
  <2>6. Stored(neg, q, KeptDigits(d, k), e + k) = Finite(neg, q, e + k)
    <3>1. Finite(neg, q, e + k) = Stored(neg, q, GetDigits(q), e + k)
      BY FiniteIsStored
    <3> QED BY <2>5, <3>1
  <2>7. InexactIf(res) = InexactIf(low) /\ res \in Int
    <3> HIDE DEF res, low
    <3> QED BY <2>3 DEF InexactIf, StandsFor
  <2>8. Work(Stored(neg, n, d, e), 0, {}).status = {}
    BY WorkFields
  <2> HIDE DEF res, q, low, d, dn
  <2>9. SetCoeff(Work(dn, 0, {}), set)
          = Work(Finite(neg, q, e + k), res, {} \cup {"Rounded"} \cup InexactIf(low))
    BY <1>4, <2>4, <2>6, <2>7, <2>8 DEF Cuts
  <2>10. {} \cup {"Rounded"} \cup InexactIf(low)
           = (IF k > 0 THEN {"Rounded"} ELSE {}) \cup InexactIf(low)
    BY <2>1
  <2>11. CopyFit(dn, set, 0, {})
          = Work(Finite(neg, q, e + k), res,
                 (IF k > 0 THEN {"Rounded"} ELSE {}) \cup InexactIf(low))
    BY <1>5, <2>9, <2>10
  <2> QED BY <2>3, <2>7, <2>11 DEF FirstCut, dn, q, low
<1> QED BY <1>6, <1>7

\* decFinalize on a number below the normal range, but not below the lowest
\* exponent: nothing is cut.
LEMMA FinalizeTiny ==
  ASSUME NEW neg \in BOOLEAN, NEW c \in Nat, c # 0, NEW x \in Int, NEW st,
         NEW set, Roomy(set), x >= Etiny(set),
         x + GetDigits(c) - 1 < set.emin
  PROVE  Outcome(Finalize(Work(Finite(neg, c, x), 0, st), set))
           = TinyResult(neg, c, x, st \cup {"Subnormal"})
<1> DEFINE d == GetDigits(c)
           dn == Finite(neg, c, x)
           w == Work(dn, 0, st)
           j == Etiny(set) - x
           flags == {"Subnormal"} \cup UnderflowIf(st)
<1>1. d \in Nat /\ d >= 1
  BY DigitsAre
<1>2. set.emin \in Int /\ Etiny(set) \in Int
  BY RoomyFacts
<1>3. w.dn = dn /\ w.status = st /\ Raise(w, flags) = Work(dn, 0, st \cup flags)
  <2> HIDE DEF flags, dn
  <2> QED BY WorkFields
<1>4. dn.digits = d /\ dn.exponent = x /\ dn.coeff = c
  <2>1. dn = Stored(neg, c, d, x)
    BY FiniteIsStored
  <2> HIDE DEF dn, d
  <2> QED BY <2>1, StoredFields
<1>5. x + d - 1 < set.emin /\ j \in Int /\ j <= 0
  BY <1>2
<1> HIDE DEF w, dn, d
<1>6. ~IsZero(w.dn)
  BY <1>3, <1>4 DEF IsZero
<1>7. w.dn.exponent < set.emin - w.dn.digits + 1
  BY <1>1, <1>2, <1>3, <1>4, <1>5
<1>8. Finalize(w, set) = SetSubnormal(w, set)
  BY <1>7 DEF Finalize, IsSubnormal
<1>9. SetSubnormal(w, set) = Raise(w, flags)
  <2>1. /\ Etiny(set) - w.dn.exponent = j
        /\ ~(IsZero(w.dn) /\ j > 0) /\ ~(IsZero(w.dn) /\ j <= 0)
        /\ ~IsZero(w.dn) /\ j <= 0
    BY <1>3, <1>4, <1>5, <1>6
  <2> HIDE DEF j
  <2> QED BY <1>3, <2>1, Zenon DEF SetSubnormal, flags
<1>10. Outcome(Raise(w, flags)) = [ dn |-> dn, status |-> st \cup flags ]
  BY <1>3, OutcomeOf
<1>11. st \cup flags = (st \cup {"Subnormal"}) \cup UnderflowIf(st \cup {"Subnormal"})
                          \cup (IF c = 0 THEN {"Clamped"} ELSE {})
  BY DEF UnderflowIf
<1> HIDE DEF flags
<1> QED BY <1>8, <1>9, <1>10, <1>11 DEF w, dn, TinyResult

\* The correct result below the exponent range: nothing to carry, no overflow,
\* nothing to fold down.
LEMMA PlacedTiny ==
  ASSUME NEW neg, NEW c \in Nat, NEW x \in Int, NEW st, NEW set, Roomy(set),
         GetDigits(c) <= set.digits, x + GetDigits(c) - 1 <= set.emin
  PROVE  Placed(neg, c, x, st \cup UnderflowIf(st), set) = TinyResult(neg, c, x, st)
<1> DEFINE d == GetDigits(c)
           loss == st \cup UnderflowIf(st)
<1>1. d \in Nat /\ d >= 1 /\ d <= set.digits /\ x + d - 1 <= set.emin
  BY DigitsAre
<1>2. /\ set.digits \in Nat /\ set.digits >= 1 /\ set.emax \in Nat
      /\ set.emin \in Int /\ set.emin <= 0
      /\ Etop(set) \in Int /\ Etop(set) = set.emax - set.digits + 1
      /\ (set.clamp = 1 => Etop(set) >= 0)
  BY RoomyFacts
<1>3. CASE c = 0
  <2>1. Placed(neg, c, x, loss, set)
          = [ dn |-> Finite(neg, 0, x), status |-> loss \cup {"Clamped"} ]
    <3>1. ~(GetDigits(c) > set.digits)
      BY <1>1, <1>2
    <3> HIDE DEF loss
    <3> QED BY <1>3, <3>1 DEF Placed
  <2>2. (IF c = 0 THEN {"Clamped"} ELSE {}) = {"Clamped"}
    BY <1>3
  <2> QED BY <1>3, <2>1, <2>2 DEF TinyResult
<1>4. CASE c # 0
  <2>1. ~(x + GetDigits(c) - 1 > set.emax)
    BY <1>1, <1>2
  <2>2. Placed(neg, c, x, loss, set) = Flagged(Folded(neg, c, x, set), loss)
    <3> HIDE DEF loss
    <3> QED BY <1>1, <1>2, <1>4, <2>1, PlacedPlain
  <2>3. set.clamp = 1 => Larger(0, x - Etop(set)) = 0
    <3> HIDE DEF d
    <3> QED BY <1>1, <1>2 DEF Larger
  <2>4. Folded(neg, c, x, set) = [ dn |-> Finite(neg, c, x), status |-> {} ]
    BY <2>3, FoldedNone
  <2>5. Flagged(Folded(neg, c, x, set), loss)
          = [ dn |-> Finite(neg, c, x), status |-> {} \cup loss ]
    <3> HIDE DEF loss
    <3> QED BY <2>4 DEF Flagged
  <2>6. (IF c = 0 THEN {"Clamped"} ELSE {}) = {} /\ {} \cup loss = loss \cup {}
    BY <1>4
  <2> QED BY <2>2, <2>5, <2>6 DEF TinyResult
<1> QED BY <1>3, <1>4

\* The correct result of a number that is not zero, for the power of ten its
\* dropped digits are counted in.
LEMMA NonZeroIs ==
  ASSUME NEW neg, NEW n \in Nat, NEW e \in Int, NEW set,
         NEW drop \in Int, Excess(n, e, set) = drop,
         NEW k \in Nat, Smaller(drop, GetDigits(n) + 1) = k,
         NEW flags, Loss(n, e, drop, set) = flags
  PROVE  NonZeroResult(neg, n, e, set)
           = Placed(neg, Rounded(neg, n \div Ten[k], n % Ten[k], Ten[k], set.round),
                    e + drop, flags, set)
<1> DEFINE up == IF RoundsAway(neg, n, drop, set.round) THEN 1 ELSE 0
<1>1. Power(n, drop) = Ten[k]
  BY DEF Power
<1>2. n % Ten[k] \in Nat /\ n \div Ten[k] \in Nat
  BY CutAt
<1>3. RoundsAway(neg, n, drop, set.round)
        = Away(neg, n \div Ten[k], n % Ten[k], Ten[k], set.round)
  BY <1>1 DEF RoundsAway
<1>4. n \div Power(n, drop) + up = Rounded(neg, n \div Ten[k], n % Ten[k], Ten[k], set.round)
  <2> DEFINE q == n \div Ten[k]
             low == n % Ten[k]
             t == Ten[k]
  <2>1. ~(low < 0)
    BY <1>2
  <2>2. Rounded(neg, q, low, t, set.round)
          = q + (IF Away(neg, q, low, t, set.round) THEN 1 ELSE 0)
    <3> HIDE DEF q, low, t
    <3> QED BY <2>1 DEF Rounded
  <2> QED BY <1>1, <1>3, <2>2
<1>5. NonZeroResult(neg, n, e, set)
        = Placed(neg, n \div Power(n, drop) + up, e + drop, Loss(n, e, drop, set), set)
  BY Zenon DEF NonZeroResult
<1> QED BY <1>4, <1>5

\* decFinalize of a copy, not subnormal: the copy cut what has to be cut.
LEMMA CutNormal ==
  ASSUME NEW neg \in BOOLEAN, NEW n \in Nat, n # 0, NEW e \in Int, NEW set, Roomy(set),
         e + GetDigits(n) - 1 >= set.emin,
         NEW w, FirstCut(w, neg, n, e, Larger(0, GetDigits(n) - set.digits))
  PROVE  Outcome(Finalize(w, set)) = NonZeroResult(neg, n, e, set)
<1>1. /\ set.digits \in Nat /\ set.digits >= 1 /\ set.emin \in Int
      /\ Etiny(set) \in Int /\ Etiny(set) = set.emin - set.digits + 1
      /\ set.round \in Roundings
  BY RoomyFacts
<1>d. PICK d \in Nat : d = GetDigits(n) /\ d >= 1
  BY DigitsAre
<1>k. PICK k \in Nat : k = IF d > set.digits THEN d - set.digits ELSE 0
  BY <1>1
<1>2. k = Larger(0, GetDigits(n) - set.digits) /\ k < d
  BY <1>1, <1>d, <1>k DEF Larger
<1>3. FirstCut(w, neg, n, e, k)
  BY <1>2
<1>c. PICK c \in Nat : c = n \div Ten[k]
  BY CutAt
<1>l. PICK low \in Nat : low = n % Ten[k]
  BY CutAt
<1>t. PICK t \in Nat : t = Ten[k] /\ low < t
  BY <1>l, CutAt, TenNat
<1>x. PICK x \in Int : x = e + k
  OBVIOUS
<1> DEFINE st == (IF k > 0 THEN {"Rounded"} ELSE {}) \cup InexactIf(low)
<1>4. PICK r \in Int : StandsFor(r, low, t)
        /\ w = Work(Finite(neg, c, x), r, st)
  BY <1>3, <1>c, <1>l, <1>t, <1>x DEF FirstCut
<1>5. GetDigits(c) = d - k /\ c # 0
  <2>1. k < GetDigits(n)
    BY <1>2, <1>d
  <2>2. GetDigits(n \div Ten[k]) = GetDigits(n) - k /\ n \div Ten[k] # 0
    BY <2>1, DigitsKept
  <2> QED BY <2>2, <1>c, <1>d
<1>6. k = 0 => low = 0
  <2>1. n % Ten[0] = 0
    <3>1. n = Ten[0] * n + 0 /\ Ten[0] = 1 /\ 0 < Ten[0]
      BY TenSmall
    <3> QED BY <3>1, CutIs
  <2> QED BY <2>1, <1>l
<1>7. /\ GetDigits(c) <= set.digits
      /\ x + GetDigits(c) - 1 >= set.emin
      /\ (low # 0 => GetDigits(c) = set.digits)
      /\ ~(low < 0)
  BY <1>1, <1>d, <1>k, <1>x, <1>5, <1>6
<1>8. Outcome(Finalize(Work(Finite(neg, c, x), r, st), set))
        = Placed(neg, Rounded(neg, c, low, t, set.round), x, st, set)
  <2> HIDE DEF st
  <2> QED BY <1>t, <1>4, <1>5, <1>7, FinalizeNormal
<1>9. Excess(n, e, set) = k
  BY <1>1, <1>d, <1>k DEF Excess, Larger
<1>10. Smaller(k, GetDigits(n) + 1) = k
  BY <1>2, <1>d DEF Smaller
<1>11. Loss(n, e, k, set) = st
  <2>1. (e + GetDigits(n) - 1 < set.emin) <=> FALSE
    BY <1>1, <1>d
  <2>2. Power(n, k) = Ten[k]
    BY <1>10 DEF Power
  <2> QED BY <2>1, <2>2, <1>l DEF Loss, InexactIf
<1>12. NonZeroResult(neg, n, e, set)
         = Placed(neg, Rounded(neg, n \div Ten[k], n % Ten[k], Ten[k], set.round),
                  e + k, st, set)
  <2> HIDE DEF st
  <2> QED BY <1>9, <1>10, <1>11, NonZeroIs
<1> HIDE DEF st
<1> QED BY <1>4, <1>8, <1>12, <1>c, <1>l, <1>t, <1>x

\* decFinalize of a copy, subnormal but above the lowest exponent: exact.
LEMMA CutTiny ==
  ASSUME NEW neg \in BOOLEAN, NEW n \in Nat, n # 0, NEW e \in Int, NEW set, Roomy(set),
         e + GetDigits(n) - 1 < set.emin, e >= Etiny(set),
         NEW w, FirstCut(w, neg, n, e, Larger(0, GetDigits(n) - set.digits))
  PROVE  Outcome(Finalize(w, set)) = NonZeroResult(neg, n, e, set)
<1>1. /\ set.digits \in Nat /\ set.digits >= 1 /\ set.emin \in Int
      /\ Etiny(set) \in Int /\ Etiny(set) = set.emin - set.digits + 1
  BY RoomyFacts
<1>d. PICK d \in Nat : d = GetDigits(n) /\ d >= 1
  BY DigitsAre
<1>2. d <= set.digits
  BY <1>1, <1>d
<1> DEFINE dn == Finite(neg, n, e)
<1>3. w = Work(dn, 0, {})
  <2>1. Larger(0, GetDigits(n) - set.digits) = 0
    BY <1>1, <1>2, <1>d DEF Larger
  <2>2. FirstCut(w, neg, n, e, 0)
    BY <2>1
  <2>3. n % Ten[0] = 0 /\ n \div Ten[0] = n
    <3>1. n = Ten[0] * n + 0 /\ Ten[0] = 1 /\ 0 < Ten[0]
      BY TenSmall
    <3> QED BY <3>1, CutIs
  <2>4. PICK r \in Int : StandsFor(r, 0, Ten[0]) /\ w = Work(Finite(neg, n, e + 0), r, {} \cup InexactIf(0))
    BY <2>2, <2>3 DEF FirstCut
  <2>5. r = 0
    BY <2>4 DEF StandsFor
  <2>6. {} \cup InexactIf(0) = {} /\ e + 0 = e
    BY DEF InexactIf
  <2> QED BY <2>4, <2>5, <2>6
<1>4. Outcome(Finalize(Work(dn, 0, {}), set)) = TinyResult(neg, n, e, {} \cup {"Subnormal"})
  <2>1. ASSUME NEW st
        PROVE  Outcome(Finalize(Work(Finite(neg, n, e), 0, st), set))
                 = TinyResult(neg, n, e, st \cup {"Subnormal"})
    BY FinalizeTiny
  <2> QED BY <2>1
<1> DEFINE st == {} \cup {"Subnormal"}
<1>5. Excess(n, e, set) = 0
  BY <1>1, <1>2, <1>d DEF Excess, Larger
<1>6. Smaller(0, GetDigits(n) + 1) = 0
  BY <1>d DEF Smaller
<1>7. n % Ten[0] = 0 /\ n \div Ten[0] = n
  <2>1. n = Ten[0] * n + 0 /\ Ten[0] = 1 /\ 0 < Ten[0]
    BY TenSmall
  <2> QED BY <2>1, CutIs
<1>8. Loss(n, e, 0, set) = st \cup UnderflowIf(st)
  <2>1. Power(n, 0) = Ten[0]
    BY <1>6 DEF Power
  <2> QED BY <2>1, <1>7 DEF Loss, UnderflowIf
<1>9. NonZeroResult(neg, n, e, set)
        = Placed(neg, Rounded(neg, n, 0, Ten[0], set.round), e, st \cup UnderflowIf(st), set)
  <2>1. ASSUME NEW drop \in Int, NEW k \in Nat, drop = 0, k = 0
        PROVE  NonZeroResult(neg, n, e, set)
           = Placed(neg, Rounded(neg, n \div Ten[k], n % Ten[k], Ten[k], set.round),
                    e + drop, st \cup UnderflowIf(st), set)
    <3>1. Excess(n, e, set) = drop /\ Smaller(drop, GetDigits(n) + 1) = k
      BY <1>5, <1>6, <2>1
    <3>2. Loss(n, e, drop, set) = st \cup UnderflowIf(st)
      BY <1>8, <2>1
    <3> DEFINE loss == st \cup UnderflowIf(st)
    <3> HIDE DEF loss
    <3>3. Loss(n, e, drop, set) = loss
      BY <3>2 DEF loss
    <3>4. NonZeroResult(neg, n, e, set)
            = Placed(neg, Rounded(neg, n \div Ten[k], n % Ten[k], Ten[k], set.round),
                     e + drop, loss, set)
      BY <3>1, <3>3, NonZeroIs
    <3> HIDE DEF st
    <3> QED BY <3>4 DEF loss
  <2>2. 0 \in Int /\ 0 \in Nat /\ e + 0 = e
    OBVIOUS
  <2> HIDE DEF st
  <2> QED BY <1>7, <2>1, <2>2
<1>10. Rounded(neg, n, 0, Ten[0], set.round) = n
  BY DEF Rounded, Away
<1>11. Placed(neg, n, e, st \cup UnderflowIf(st), set) = TinyResult(neg, n, e, st)
  <2>1. GetDigits(n) <= set.digits /\ e + GetDigits(n) - 1 <= set.emin
    BY <1>1, <1>2, <1>d
  <2> HIDE DEF st
  <2> QED BY <2>1, PlacedTiny
<1> HIDE DEF st
<1> QED BY <1>3, <1>4, <1>9, <1>10, <1>11 DEF st

\* decFinalize of a copy below the lowest exponent: what the copy cut and what
\* is cut here is rounded once.
LEMMA CutDenormal ==
  ASSUME NEW neg \in BOOLEAN, NEW n \in Nat, n # 0, NEW e \in Int, NEW set, Roomy(set),
         e + Larger(0, GetDigits(n) - set.digits) < Etiny(set),
         NEW w, FirstCut(w, neg, n, e, Larger(0, GetDigits(n) - set.digits))
  PROVE  Outcome(Finalize(w, set)) = NonZeroResult(neg, n, e, set)
<1>1. /\ set.digits \in Nat /\ set.digits >= 1 /\ set.emin \in Int
      /\ Etiny(set) \in Int /\ Etiny(set) = set.emin - set.digits + 1
      /\ set.round \in Roundings
  BY RoomyFacts
<1>d. PICK d \in Nat : d = GetDigits(n) /\ d >= 1
  BY DigitsAre
<1>k. PICK k \in Nat : k = IF d > set.digits THEN d - set.digits ELSE 0
  BY <1>1
<1>2. k = Larger(0, GetDigits(n) - set.digits) /\ k < d
  BY <1>1, <1>d, <1>k DEF Larger
<1>3. FirstCut(w, neg, n, e, k)
  BY <1>2
<1>c. PICK c \in Nat : c = n \div Ten[k]
  BY CutAt
<1>l. PICK low \in Nat : low = n % Ten[k]
  BY CutAt
<1>t. PICK t \in Nat : t = Ten[k] /\ low < t /\ t > 0
  BY <1>l, CutAt, TenNat
<1>x. PICK x \in Int : x = e + k
  OBVIOUS
<1> DEFINE st == (IF k > 0 THEN {"Rounded"} ELSE {}) \cup InexactIf(low)
<1>4. PICK r \in Int : StandsFor(r, low, t)
        /\ w = Work(Finite(neg, c, x), r, st)
  BY <1>3, <1>c, <1>l, <1>t, <1>x DEF FirstCut
<1>5. GetDigits(c) = d - k /\ c # 0
  <2>1. k < GetDigits(n)
    BY <1>2, <1>d
  <2>2. GetDigits(n \div Ten[k]) = GetDigits(n) - k /\ n \div Ten[k] # 0
    BY <2>1, DigitsKept
  <2> QED BY <2>2, <1>c, <1>d
<1>6. Marks(Prior(r), low, t)
  BY <1>4, <1>t, PriorMarks
<1>7. x < Etiny(set) /\ GetDigits(c) <= set.digits /\ ~(low < 0)
  BY <1>1, <1>d, <1>k, <1>2, <1>x, <1>5
<1>m. PICK m \in Nat : m = Smaller(Etiny(set) - x, GetDigits(c) + 1)
                       /\ m >= 1 /\ m <= GetDigits(c) + 1
  BY <1>1, <1>2, <1>5, <1>7 DEF Smaller
<1>b. PICK b \in Nat : b = (c % Ten[m]) * t + low
  <2>1. c % Ten[m] \in Nat
    BY CutAt
  <2> DEFINE a == c % Ten[m]
  <2> HIDE DEF a
  <2>2. a \in Nat
    BY <2>1 DEF a
  <2>3. a * t + low \in Nat
    BY <2>2
  <2> QED BY <2>3 DEF a
<1>8. Outcome(Finalize(Work(Finite(neg, c, x), r, st), set))
        = TinyResult(neg, Rounded(neg, c \div Ten[m], b, Ten[m] * t, set.round),
                     Etiny(set), TinyFlags(st, b))
  <2>1. m = Smaller(Etiny(set) - x, GetDigits(c) + 1) /\ b = (c % Ten[m]) * t + low
        /\ t > 0 /\ c # 0 /\ GetDigits(c) <= set.digits /\ x < Etiny(set)
        /\ Marks(Prior(r), low, t) /\ (low < 0 => GetDigits(c) = set.digits)
    BY <1>t, <1>5, <1>6, <1>7, <1>m, <1>b
  <2> HIDE DEF st
  <2>2. FinalizedTiny(neg, c, x, r, st, set, m, b, t)
    BY <1>4, <2>1, FinalizeSubnormal
  <2> QED BY <2>2 DEF FinalizedTiny
<1> DEFINE y == Rounded(neg, c \div Ten[m], b, Ten[m] * t, set.round)
           flags == TinyFlags(st, b)
<1>h. PICK h \in Nat : h = k + m
  OBVIOUS
<1>j. PICK drop \in Int : drop = Etiny(set) - e
  BY <1>1
\* The two cuts are one.
<1>9. n \div Ten[h] = c \div Ten[m] /\ n % Ten[h] = b /\ Ten[h] = Ten[m] * t
  <2>1. n \div Ten[k + m] = (n \div Ten[k]) \div Ten[m]
        /\ n % Ten[k + m] = ((n \div Ten[k]) % Ten[m]) * Ten[k] + (n % Ten[k])
    BY CutTwice
  <2>2. Ten[k + m] = Ten[k] * Ten[m] /\ Ten[m] \in Nat
    BY TenSum, TenNat
  <2>3. Ten[k] * Ten[m] = Ten[m] * t
    BY <2>2, <1>t
  <2> QED BY <2>1, <2>2, <2>3, <1>b, <1>c, <1>h, <1>l, <1>t
<1>10. Excess(n, e, set) = drop /\ drop > k
  BY <1>1, <1>d, <1>k, <1>j, <1>x, <1>7 DEF Excess, Larger
<1>11. Smaller(drop, GetDigits(n) + 1) = h
  BY <1>1, <1>2, <1>d, <1>h, <1>j, <1>m, <1>x, <1>5 DEF Smaller
<1>12. low # 0 => b # 0
  <2> DEFINE a == c % Ten[m]
  <2>1. a \in Nat
    BY CutAt
  <2> HIDE DEF a
  <2>2. a * t \in Nat
    BY <2>1
  <2> QED BY <2>2, <1>b DEF a
<1>13. Loss(n, e, drop, set) = flags \cup UnderflowIf(flags)
  <2>1. e + GetDigits(n) - 1 < set.emin
    BY <1>1, <1>d, <1>k, <1>x, <1>5, <1>7
  <2>2. drop > 0
    BY <1>10
  <2>3. n % Power(n, drop) = b
    BY <1>9, <1>11 DEF Power
  <2> QED BY <2>1, <2>2, <2>3, <1>12 DEF Loss, InexactIf, UnderflowIf, TinyFlags
<1>14. NonZeroResult(neg, n, e, set)
         = Placed(neg, Rounded(neg, n \div Ten[h], n % Ten[h], Ten[h], set.round),
                  e + drop, flags \cup UnderflowIf(flags), set)
  <2> DEFINE loss == flags \cup UnderflowIf(flags)
  <2> HIDE DEF loss
  <2>1. Loss(n, e, drop, set) = loss
    BY <1>13 DEF loss
  <2>2. NonZeroResult(neg, n, e, set)
          = Placed(neg, Rounded(neg, n \div Ten[h], n % Ten[h], Ten[h], set.round),
                   e + drop, loss, set)
    BY <1>10, <1>11, <2>1, NonZeroIs
  <2> HIDE DEF flags
  <2> QED BY <2>2 DEF loss
<1>15. e + drop = Etiny(set)
  BY <1>1, <1>j
<1>16. y \in Nat /\ GetDigits(y) <= set.digits
       /\ Etiny(set) + GetDigits(y) - 1 <= set.emin
  <2> DEFINE q == c \div Ten[m]
             p == set.digits
             i == p - 1
  <2>1. q \in Nat /\ c = Ten[m] * q + (c % Ten[m]) /\ c % Ten[m] \in Nat
    BY CutAt
  <2>2. c < Ten[p] /\ i \in Nat /\ Ten[p] = Ten[i] * 10 /\ Ten[i] \in Nat
    <3>1. c < Ten[GetDigits(c)] /\ GetDigits(c) \in Nat
      BY DigitsAre
    <3>2. Ten[GetDigits(c)] <= Ten[p] /\ Ten[p] \in Nat /\ Ten[GetDigits(c)] \in Nat
      BY <1>1, <1>7, <3>1, TenMonotone, TenNat
    <3>3. i \in Nat /\ i + 1 = p
      BY <1>1
    <3>4. Ten[i + 1] = 10 * Ten[i] /\ Ten[i] \in Nat
      BY <3>3, TenNext, TenNat
    <3> QED BY <3>1, <3>2, <3>3, <3>4
  <2>3. Ten[m] >= 10 /\ Ten[m] \in Nat
    <3>1. Ten[1] <= Ten[m] /\ Ten[1] = 10 /\ Ten[m] \in Nat
      BY <1>m, TenMonotone, TenSmall, TenNat
    <3> QED BY <3>1
  <2>4. 10 * q <= c
    <3> DEFINE s == Ten[m]
               a == c % Ten[m]
    <3>1. s \in Nat /\ s >= 10 /\ c = s * q + a /\ a \in Nat /\ q \in Nat
      BY <2>1, <2>3
    <3> HIDE DEF s, a, q
    <3>2. 10 * q <= s * q
      BY <3>1, Monotone
    <3>3. s * q \in Nat
      BY <3>1
    <3> QED BY <3>1, <3>2, <3>3
  <2>5. q < Ten[i]
    <3> HIDE DEF q, i, p
    <3> QED BY <2>1, <2>2, <2>4
  <2>6. y \in {q, q + 1}
    <3> HIDE DEF q
    <3>1. q \in Int /\ b \in Int /\ b >= 0
      BY <2>1
    <3> QED BY <3>1, RoundedRange DEF q
  <2>7. y \in Nat /\ y <= Ten[i]
    <3> HIDE DEF q, i, y
    <3> QED BY <2>1, <2>2, <2>5, <2>6
  <2>8. y < Ten[p] /\ p \in Nat /\ p >= 1
    <3>1. Ten[i] > 0
      BY <2>2, TenNat
    <3> HIDE DEF i, y
    <3> QED BY <1>1, <2>2, <2>7, <3>1
  <2>9. GetDigits(y) <= p /\ GetDigits(y) \in Nat
    <3> HIDE DEF y, p
    <3>1. ~(GetDigits(y) > p)
      <4>1. Ten[p] \in Nat /\ ~(y >= Ten[p])
        BY <2>7, <2>8, TenNat
      <4> QED BY <2>7, <2>8, <4>1, DigitsOrder
    <3>2. GetDigits(y) \in Nat
      BY <2>7, DigitsAre
    <3> QED BY <2>8, <3>1, <3>2
  <2> HIDE DEF y
  <2> QED BY <1>1, <2>7, <2>9
<1>17. Placed(neg, y, Etiny(set), flags \cup UnderflowIf(flags), set)
         = TinyResult(neg, y, Etiny(set), flags)
  <2> HIDE DEF y, flags
  <2> QED BY <1>1, <1>16, PlacedTiny
<1> HIDE DEF st
<1>18. Outcome(Finalize(w, set))
         = TinyResult(neg, y, Etiny(set), flags)
  BY <1>4, <1>8
<1>19. NonZeroResult(neg, n, e, set)
         = Placed(neg, y, Etiny(set), flags \cup UnderflowIf(flags), set)
  <2> HIDE DEF flags
  <2> QED BY <1>9, <1>14, <1>15
<1> HIDE DEF y, flags
<1> QED BY <1>17, <1>18, <1>19

\* The exponent of a stored number replaced.
LEMMA Reexponed ==
  ASSUME NEW neg, NEW c, NEW d, NEW x, NEW r, NEW st, NEW y
  PROVE  [ Work(Stored(neg, c, d, x), r, st) EXCEPT !.dn.exponent = y ]
           = Work(Stored(neg, c, d, y), r, st)
BY DEF Work, Stored

ZeroWork(result, st) == Work(result.dn, 0, st \cup result.status)

\* decFinalize of a zero: only its exponent is brought into range.
LEMMA FinalizeZero ==
  ASSUME NEW neg, NEW e \in Int, NEW st, NEW set, Roomy(set)
  PROVE  Finalize(Work(Finite(neg, 0, e), 0, st), set)
           = ZeroWork(ZeroResult(neg, e, set), st)
<1>1. /\ set.digits \in Nat /\ set.digits >= 1 /\ set.emax \in Nat
      /\ set.emin \in Int /\ set.emin <= 0 /\ set.clamp \in {0, 1}
      /\ Etop(set) \in Int /\ Etop(set) = set.emax - set.digits + 1
      /\ Etiny(set) \in Int /\ Etiny(set) = set.emin - set.digits + 1
      /\ (set.clamp = 1 => Etop(set) >= 0)
  BY RoomyFacts
<1> DEFINE w == Work(Finite(neg, 0, e), 0, st)
           top == IF set.clamp = 1 THEN Etop(set) ELSE set.emax
           exp == Smaller(top, Larger(Etiny(set), e))
           dn == w.dn
<1>2. w = Work(Stored(neg, 0, 1, e), 0, st)
  BY FiniteIsStored, ZeroDigits
<1>3. dn = Stored(neg, 0, 1, e) /\ w.residue = 0 /\ w.status = st
  <2> HIDE DEF w
  <2> QED BY <1>2, WorkFields
<1>4. dn.coeff = 0 /\ dn.digits = 1 /\ dn.exponent = e /\ dn.kind = "finite"
  <2> HIDE DEF w
  <2> HIDE DEF dn
  <2> QED BY <1>3, StoredFields
<1> HIDE DEF w
<1>5. IsZero(w.dn)
  <2> HIDE DEF dn
  <2> QED BY <1>4 DEF IsZero, IsSpecial, dn
<1>6. ApplyRound(w, set) = w
  BY <1>3 DEF ApplyRound
\* A zero with another exponent, with the flag that says so.
<1>7. ASSUME NEW y \in Int, y # e, y = exp, NEW up, up = Work(Stored(neg, 0, 1, y), 0, st)
      PROVE  Raise(up, {"Clamped"}) = ZeroWork(ZeroResult(neg, e, set), st)
  <2>1. Raise(up, {"Clamped"}) = Work(Stored(neg, 0, 1, y), 0, st \cup {"Clamped"})
    BY <1>7, WorkFields
  <2>3. Stored(neg, 0, 1, y) = Finite(neg, 0, y)
    BY FiniteIsStored, ZeroDigits
  <2>4. ZeroResult(neg, e, set) = [ dn |-> Finite(neg, 0, y), status |-> {"Clamped"} ]
    <3>1. (IF y # e THEN {"Clamped"} ELSE {}) = {"Clamped"}
      BY <1>7
    <3>2. ZeroResult(neg, e, set)
            = [ dn |-> Finite(neg, 0, exp), status |-> IF exp # e THEN {"Clamped"} ELSE {} ]
      BY Zenon DEF ZeroResult
    <3> HIDE DEF exp
    <3> QED BY <3>1, <3>2, <1>7
  <2>5. ZeroWork(ZeroResult(neg, e, set), st)
          = Work(Finite(neg, 0, y), 0, st \cup {"Clamped"})
    BY <2>4 DEF ZeroWork
  <2> QED BY <2>1, <2>3, <2>5
\* A zero left as it is.
<1>8. ASSUME e = exp
      PROVE  w = ZeroWork(ZeroResult(neg, e, set), st)
  <2>1. ZeroResult(neg, e, set) = [ dn |-> Finite(neg, 0, e), status |-> {} ]
    <3>1. (IF exp # e THEN {"Clamped"} ELSE {}) = {}
      BY <1>8
    <3>2. ZeroResult(neg, e, set)
            = [ dn |-> Finite(neg, 0, exp), status |-> IF exp # e THEN {"Clamped"} ELSE {} ]
      BY Zenon DEF ZeroResult
    <3> HIDE DEF exp
    <3> QED BY <3>1, <3>2, <1>8
  <2>2. ZeroWork(ZeroResult(neg, e, set), st)
          = Work(Finite(neg, 0, e), 0, st \cup {})
    BY <2>1 DEF ZeroWork
  <2>3. st \cup {} = st
    OBVIOUS
  <2> QED BY <2>2, <2>3 DEF w
<1>9. \A y : [ w EXCEPT !.dn.exponent = y ] = Work(Stored(neg, 0, 1, y), 0, st)
  BY <1>2, Reexponed
<1>10. exp = IF Etiny(set) > e THEN (IF top < Etiny(set) THEN top ELSE Etiny(set))
             ELSE (IF top < e THEN top ELSE e)
  BY DEF Larger, Smaller
<1>11. top \in Int /\ top >= Etiny(set) /\ top <= set.emax
  BY <1>1
<1> HIDE DEF exp, dn
<1>12. CASE e < set.emin
  <2>1. Finalize(w, set) = SetSubnormal(w, set)
    <3>1. w.dn.exponent < set.emin - w.dn.digits + 1
      BY <1>1, <1>4, <1>12 DEF dn
    <3> QED BY <3>1 DEF Finalize, IsSubnormal
  <2> DEFINE j == Etiny(set) - e
  <2>2. Etiny(set) - w.dn.exponent = j
    BY <1>4 DEF dn
  <2>3. CASE j > 0
    <3>1. SetSubnormal(w, set) = Raise([ w EXCEPT !.dn.exponent = Etiny(set) ], {"Clamped"})
      <4>1. ~(j <= 0)
        BY <1>1, <2>3
      <4> HIDE DEF j
      <4> QED BY <1>5, <2>2, <2>3, <4>1, Zenon DEF SetSubnormal
    <3>2. exp = Etiny(set) /\ Etiny(set) # e
      BY <1>1, <1>10, <1>11, <2>3
    <3> QED BY <1>1, <1>7, <1>9, <2>1, <3>1, <3>2 DEF w
  <2>4. CASE ~(j > 0)
    <3>1. j <= 0
      BY <1>1, <2>4
    <3>2. SetSubnormal(w, set) = w
      <4> HIDE DEF j
      <4> QED BY <1>5, <2>2, <2>4, <3>1, Zenon DEF SetSubnormal
    <3>3. exp = e
      <4>1. top >= set.emin
        BY <1>1
      <4> QED BY <1>1, <1>10, <1>11, <1>12, <3>1, <4>1
    <3> QED BY <1>8, <2>1, <3>2, <3>3 DEF w
  <2> QED BY <2>3, <2>4
<1>13. CASE ~(e < set.emin)
  <2>1. Finalize(w, set) = FoldDown(w, set)
    <3>1. ~(w.dn.exponent < set.emin - w.dn.digits + 1) /\ ~(w.residue < 0)
      BY <1>1, <1>3, <1>4, <1>13 DEF dn
    <3> QED BY <1>6, <3>1 DEF Finalize, IsSubnormal
  <2> DEFINE shift == e - Etop(set)
             z == set.emax - w.dn.digits + 1
  <2>2. w.dn.exponent - Etop(set) = shift /\ z = set.emax
    BY <1>1, <1>4 DEF dn
  <2>3. CASE shift <= 0
    <3>1. ~(shift > 0)
      BY <1>1, <2>3
    <3>2. FoldDown(w, set) = w
      <4> HIDE DEF shift, z
      <4> QED BY <2>2, <2>3, <3>1, Zenon DEF FoldDown
    <3>3. exp = e
      BY <1>1, <1>10, <1>11, <1>13, <2>3
    <3> QED BY <1>8, <2>1, <3>2, <3>3 DEF w
  <2>4. CASE shift > 0 /\ e > set.emax
    <3>1. ~(shift <= 0) /\ shift > 0 /\ w.dn.exponent > z /\ ~(w.dn.exponent <= z)
      BY <1>1, <1>4, <2>2, <2>4 DEF dn
    <3>2. FoldDown(w, set) = SetOverflow(w, set)
      <4> HIDE DEF shift
      <4> QED BY <2>2, <3>1, Zenon DEF FoldDown, z
    <3>3. w.dn.exponent > top /\ ~(w.dn.exponent <= top) /\ top # e
      BY <1>1, <1>4, <1>11, <2>4 DEF dn
    <3>4. SetOverflow(w, set) = Raise([ w EXCEPT !.dn.exponent = top ], {"Clamped"})
      BY <1>5, <3>3, Zenon DEF SetOverflow
    <3>5. exp = top
      BY <1>1, <1>10, <1>11, <2>4
    <3> HIDE DEF top
    <3> QED BY <1>7, <1>9, <1>11, <2>1, <3>2, <3>3, <3>4, <3>5 DEF w
  <2>5. CASE shift > 0 /\ e <= set.emax
    <3>1. ~(shift <= 0) /\ shift > 0 /\ ~(w.dn.exponent > z) /\ w.dn.exponent <= z
      BY <1>1, <1>4, <2>2, <2>5 DEF dn
    <3>2. CASE set.clamp = 0
      <4>1. FoldDown(w, set) = w
        <5> HIDE DEF shift
        <5> QED BY <2>2, <3>1, <3>2, Zenon DEF FoldDown, z
      <4>2. exp = e
        BY <1>1, <1>10, <1>11, <1>13, <2>5, <3>2
      <4> QED BY <1>8, <2>1, <4>1, <4>2 DEF w
    <3>3. CASE set.clamp = 1
      <4> DEFINE next == Stored(neg, 0, 1, Etop(set))
                 moved == [ w.dn EXCEPT !.exponent = @ - shift ]
      <4>1. moved = next
        <5>1. e - shift = Etop(set)
          BY <1>1
        <5> HIDE DEF shift
        <5> QED BY <1>3, <5>1 DEF Stored, dn
      <4>2. [ w EXCEPT !.dn = moved ] = Work(next, 0, st)
        <5>1. [ w EXCEPT !.dn = next ] = Work(next, 0, st)
          BY <1>2 DEF Work
        <5> HIDE DEF moved, next
        <5> QED BY <4>1, <5>1
      <4>3. FoldDown(w, set) = Raise([ w EXCEPT !.dn = moved ], {"Clamped"})
        <5>1. set.clamp # 0
          BY <3>3
        <5> HIDE DEF shift
        <5> QED BY <1>5, <2>2, <3>1, <5>1, Zenon DEF FoldDown, z, moved
      <4>4. exp = Etop(set) /\ Etop(set) # e
        BY <1>1, <1>10, <1>11, <2>5, <3>3
      <4> HIDE DEF moved
      <4> QED BY <1>1, <1>7, <2>1, <4>2, <4>3, <4>4 DEF w, next
    <3> QED BY <1>1, <3>2, <3>3
  <2> QED BY <1>1, <2>3, <2>4, <2>5
<1> QED BY <1>1, <1>12, <1>13

\* Nothing is cut of a zero.
LEMMA ZeroCut ==
  ASSUME NEW neg, NEW e \in Int, NEW set, Roomy(set),
         NEW w, FirstCut(w, neg, 0, e, Larger(0, GetDigits(0) - set.digits))
  PROVE  w = Work(Finite(neg, 0, e), 0, {})
<1>1. Larger(0, GetDigits(0) - set.digits) = 0
  <2>1. GetDigits(0) = 1 /\ set.digits \in Nat /\ set.digits >= 1
    BY ZeroDigits, RoomyFacts
  <2> QED BY <2>1 DEF Larger
<1>2. FirstCut(w, neg, 0, e, 0)
  BY <1>1
<1>3. 0 % Ten[0] = 0 /\ 0 \div Ten[0] = 0
  BY TenSmall
<1>4. PICK r \in Int : StandsFor(r, 0, Ten[0])
        /\ w = Work(Finite(neg, 0, e + 0), r, {} \cup InexactIf(0))
  BY <1>2, <1>3 DEF FirstCut
<1>5. r = 0
  BY <1>4 DEF StandsFor
<1>6. {} \cup InexactIf(0) = {} /\ e + 0 = e
  BY DEF InexactIf
<1> QED BY <1>4, <1>5, <1>6

\* What a caller sees of a zero.
LEMMA ZeroOutcome ==
  ASSUME NEW neg, NEW e, NEW set
  PROVE  Outcome(ZeroWork(ZeroResult(neg, e, set), {})) = ZeroResult(neg, e, set)
<1> DEFINE y == Smaller(IF set.clamp = 1 THEN Etop(set) ELSE set.emax,
                        Larger(Etiny(set), e))
           f == IF y # e THEN {"Clamped"} ELSE {}
<1>1. ZeroResult(neg, e, set) = [ dn |-> Finite(neg, 0, y), status |-> f ]
  BY Zenon DEF ZeroResult
<1> HIDE DEF y, f
<1>2. ZeroWork(ZeroResult(neg, e, set), {}) = Work(Finite(neg, 0, y), 0, {} \cup f)
  BY <1>1 DEF ZeroWork
<1>3. Outcome(ZeroWork(ZeroResult(neg, e, set), {}))
        = [ dn |-> Finite(neg, 0, y), status |-> {} \cup f ]
  BY <1>2, OutcomeOf
<1> QED BY <1>1, <1>3

\* A zero after decCopyFit and decFinalize.
LEMMA FittedZero ==
  ASSUME NEW neg \in BOOLEAN, NEW e \in Int, NEW set, Roomy(set),
         NEW w, FirstCut(w, neg, 0, e, Larger(0, GetDigits(0) - set.digits))
  PROVE  Finalize(w, set) = ZeroWork(ZeroResult(neg, e, set), {})
<1>1. w = Work(Finite(neg, 0, e), 0, {})
  BY ZeroCut
<1>2. ASSUME NEW st
      PROVE  Finalize(Work(Finite(neg, 0, e), 0, st), set)
               = ZeroWork(ZeroResult(neg, e, set), st)
  BY FinalizeZero
<1> QED BY <1>1, <1>2

\* decFinalize on any number cut to the precision: the exact value rounded once.
LEMMA CutIsRounded ==
  ASSUME NEW neg \in BOOLEAN, NEW n \in Nat, NEW e \in Int, NEW set, Roomy(set),
         NEW w, FirstCut(w, neg, n, e, Larger(0, GetDigits(n) - set.digits))
  PROVE  Outcome(Finalize(w, set)) = RoundedOnce(neg, n, e, set)
<1>1. /\ set.digits \in Nat /\ set.digits >= 1 /\ set.emin \in Int
      /\ Etiny(set) \in Int /\ Etiny(set) = set.emin - set.digits + 1
  BY RoomyFacts
<1>2. GetDigits(n) \in Nat
  BY DigitsAre
<1>3. CASE n = 0
  <2>1. FirstCut(w, neg, 0, e, Larger(0, GetDigits(0) - set.digits))
    BY <1>3
  <2>2. Finalize(w, set) = ZeroWork(ZeroResult(neg, e, set), {})
    BY <2>1, FittedZero
  <2>3. Outcome(ZeroWork(ZeroResult(neg, e, set), {})) = ZeroResult(neg, e, set)
    BY ZeroOutcome
  <2> QED BY <1>3, <2>2, <2>3 DEF RoundedOnce
<1>4. CASE n # 0
  <2>1. CASE e + GetDigits(n) - 1 >= set.emin
    BY <1>4, <2>1, CutNormal DEF RoundedOnce
  <2>2. CASE e + GetDigits(n) - 1 < set.emin /\ e >= Etiny(set)
    BY <1>4, <2>2, CutTiny DEF RoundedOnce
  <2>3. CASE e + GetDigits(n) - 1 < set.emin /\ e < Etiny(set)
    <3>1. e + Larger(0, GetDigits(n) - set.digits) < Etiny(set)
      BY <1>1, <1>2, <2>3 DEF Larger
    <3> QED BY <1>4, <3>1, CutDenormal DEF RoundedOnce
  <2> QED BY <1>1, <1>2, <2>1, <2>2, <2>3
<1> QED BY <1>3, <1>4

\* The same after decCopyFit, the end of nearly every operation: whatever the
\* coefficient, the exponent, the precision, the exponent range, the rounding
\* mode and the clamp, the result is the exact value rounded once, and the
\* flags say what was lost.
THEOREM FinalizeIsRounded ==
  ASSUME NEW neg \in BOOLEAN, NEW n \in Nat, NEW e \in Int, NEW set, Roomy(set)
  PROVE  Outcome(Finalize(CopyFit(Finite(neg, n, e), set, 0, {}), set))
           = RoundedOnce(neg, n, e, set)
<1> DEFINE w == CopyFit(Finite(neg, n, e), set, 0, {})
<1>1. PICK k \in Nat : k = Larger(0, GetDigits(n) - set.digits)
  <2>1. GetDigits(n) \in Nat /\ set.digits \in Nat
    BY DigitsAre, RoomyFacts
  <2> QED BY <2>1 DEF Larger
<1>2. FirstCut(w, neg, n, e, k)
  BY <1>1, CopyFitIs
<1> HIDE DEF w
<1>3. Outcome(Finalize(w, set)) = RoundedOnce(neg, n, e, set)
  BY <1>1, <1>2, CutIsRounded
<1> QED BY <1>3 DEF w

----------------------------------------------------------------------------
(* The operations.                                                         *)

\* The conditions a rounding can raise: none makes the result a NaN.
RangeFlags == { "Rounded", "Inexact", "Subnormal", "Underflow", "Clamped", "Overflow" }

\* Where the outcome of a work record raises no other, the status stays.
LEMMA StatusIs ==
  ASSUME NEW w, w.status \subseteq RangeFlags
  PROVE  Status(w) = Outcome(w)
<1>1. w.status \cap DEC_NaNs = {} /\ DEC_sNaN \notin w.status
  BY DEF RangeFlags, DEC_NaNs, DEC_sNaN
<1>2. w.status \ {DEC_sNaN} = w.status
  BY <1>1
<1> QED BY <1>1, <1>2 DEF Status, Outcome

\* Nor does a number put in its place.
LEMMA PlacedStatus ==
  ASSUME NEW neg, NEW c \in Nat, NEW e \in Int, NEW loss, loss \subseteq RangeFlags,
         NEW set, Roomy(set)
  PROVE  Placed(neg, c, e, loss, set).status \subseteq RangeFlags
<1> DEFINE carried == GetDigits(c) > set.digits
           coeff == IF carried THEN Ten[set.digits - 1] ELSE c
           exp == IF carried THEN e + 1 ELSE e
           high == exp + GetDigits(coeff) - 1 > set.emax
           low == exp + GetDigits(coeff) - 1 <= set.emax
           fitted == Folded(neg, coeff, exp, set)
<1>1. coeff \in Nat /\ exp \in Int /\ GetDigits(coeff) \in Nat
      /\ set.emax \in Nat
  <2>1. set.digits - 1 \in Nat /\ set.emax \in Nat
    BY RoomyFacts
  <2>2. Ten[set.digits - 1] \in Nat
    BY <2>1, TenNat
  <2>3. coeff \in Nat
    BY <2>2
  <2>4. exp \in Int
    OBVIOUS
  <2> HIDE DEF coeff, exp
  <2> QED BY <2>1, <2>3, <2>4, DigitsAre
<1>2. high <=> ~low
  <2> HIDE DEF coeff, exp
  <2> QED BY <1>1
<1>3. CASE coeff = 0
  <2>1. Placed(neg, c, e, loss, set)
          = [ dn |-> Finite(neg, 0, exp), status |-> loss \cup {"Clamped"} ]
    <3>1. ~(coeff # 0 /\ high) /\ ~(coeff # 0 /\ low)
      BY <1>3
    <3> QED BY <1>3, <3>1, Zenon DEF Placed
  <2> HIDE DEF exp
  <2> QED BY <2>1 DEF RangeFlags
<1>4. CASE coeff # 0 /\ high
  <2>1. Placed(neg, c, e, loss, set)
          = [ dn |-> Overflowed(neg, set),
              status |-> loss \cup {"Overflow", "Inexact", "Rounded"} ]
    <3>1. ~(coeff = 0) /\ ~(coeff # 0 /\ low)
      <4> HIDE DEF coeff, high, low
      <4> QED BY <1>2, <1>4
    <3> QED BY <1>4, <3>1, Zenon DEF Placed
  <2> QED BY <2>1 DEF RangeFlags
<1>5. CASE coeff # 0 /\ low
  <2>1. Placed(neg, c, e, loss, set) = Flagged(fitted, loss)
    <3>1. ~(coeff = 0) /\ ~(coeff # 0 /\ high)
      <4> HIDE DEF coeff, high, low
      <4> QED BY <1>2, <1>5
    <3> QED BY <1>5, <3>1, Zenon DEF Placed
  <2>2. fitted.status \subseteq {"Clamped"}
    <3> HIDE DEF coeff, exp
    <3> QED BY DEF Folded
  <2>3. Flagged(fitted, loss).status = fitted.status \cup loss
    <3> HIDE DEF fitted
    <3> QED BY DEF Flagged
  <2>4. {"Clamped"} \subseteq RangeFlags
    BY DEF RangeFlags
  <2> HIDE DEF fitted
  <2> QED BY <2>1, <2>2, <2>3, <2>4
<1> HIDE DEF coeff, high, low
<1> QED BY <1>2, <1>3, <1>4, <1>5

\* Nor does the exact value rounded once.
LEMMA RoundedStatus ==
  ASSUME NEW neg, NEW n \in Nat, NEW e \in Int, NEW set, Roomy(set)
  PROVE  RoundedOnce(neg, n, e, set).status \subseteq RangeFlags
<1>1. CASE n = 0
  <2>1. ZeroResult(neg, e, set).status \subseteq {"Clamped"}
    BY DEF ZeroResult
  <2> QED BY <1>1, <2>1 DEF RoundedOnce, RangeFlags
<1>2. CASE n # 0
  <2> DEFINE drop == Excess(n, e, set)
             power == Power(n, drop)
             up == IF RoundsAway(neg, n, drop, set.round) THEN 1 ELSE 0
             y == n \div power + up
             loss == Loss(n, e, drop, set)
  <2>1. drop \in Nat /\ GetDigits(n) \in Nat
    <3>1. /\ set.digits \in Nat /\ Etiny(set) \in Int
      BY RoomyFacts
    <3>2. GetDigits(n) \in Nat
      BY DigitsAre
    <3> QED BY <3>1, <3>2 DEF Excess, Larger
  <2>2. y \in Nat /\ e + drop \in Int
    <3>1. Smaller(drop, GetDigits(n) + 1) \in Nat
      <4> HIDE DEF drop
      <4> QED BY <2>1 DEF Smaller
    <3>2. n \div power \in Nat
      BY <3>1, CutAt DEF Power
    <3> HIDE DEF drop, power
    <3> QED BY <2>1, <3>2
  <2>3. loss \subseteq RangeFlags
    <3> HIDE DEF drop
    <3> QED BY DEF Loss, RangeFlags
  <2>4. NonZeroResult(neg, n, e, set) = Placed(neg, y, e + drop, loss, set)
    BY Zenon DEF NonZeroResult
  <2> HIDE DEF y, loss, drop
  <2>5. Placed(neg, y, e + drop, loss, set).status \subseteq RangeFlags
    BY <2>2, <2>3, PlacedStatus
  <2> QED BY <1>2, <2>4, <2>5 DEF RoundedOnce
<1> QED BY <1>1, <1>2

\* What a public function returns when its operation rounds once.
LEMMA StatusOfRounded ==
  ASSUME NEW neg, NEW n \in Nat, NEW e \in Int, NEW set, Roomy(set),
         NEW w, Outcome(w) = RoundedOnce(neg, n, e, set)
  PROVE  Status(w) = RoundedOnce(neg, n, e, set)
<1>1. w.status = RoundedOnce(neg, n, e, set).status
  BY DEF Outcome
<1>2. w.status \subseteq RangeFlags
  BY <1>1, RoundedStatus
<1> QED BY <1>2, StatusIs

\* The fields of a finite decNumber.
LEMMA FiniteFields ==
  ASSUME NEW dn, IsFinite(dn)
  PROVE  /\ dn.kind = "finite" /\ dn.digits = GetDigits(dn.coeff)
         /\ dn.digits \in Nat /\ dn.digits >= 1
         /\ ~IsNaN(dn) /\ ~IsSpecial(dn)
         /\ (IsZero(dn) <=> dn.coeff = 0)
<1>1. dn = Stored(dn.neg, dn.coeff, GetDigits(dn.coeff), dn.exponent)
  BY FiniteIsStored DEF IsFinite
<1> DEFINE d == GetDigits(dn.coeff)
<1>2. d \in Nat /\ d >= 1 /\ (dn.coeff = 0 => d = 1)
  BY DigitsAre, ZeroDigits DEF IsFinite
<1> HIDE DEF d
<1>3. dn = Stored(dn.neg, dn.coeff, d, dn.exponent)
  BY <1>1 DEF d
<1>4. dn.kind = "finite" /\ dn.digits = d
  BY <1>3, StoredFields
<1>5. dn.kind = "finite" /\ dn.digits = GetDigits(dn.coeff)
  BY <1>4 DEF d
<1> QED BY <1>2, <1>4, <1>5 DEF IsNaN, IsSpecial, IsZero

\* The exact product: its sign, its coefficient and its exponent.
Multiplies(lhs, rhs, neg, n, e) ==
  /\ neg = (lhs.neg # rhs.neg)
  /\ n = lhs.coeff * rhs.coeff
  /\ e = lhs.exponent + rhs.exponent

\* decMultiplyOp for finite numbers: the exact product, rounded once.
LEMMA MultiplyRounds ==
  ASSUME NEW lhs, IsFinite(lhs), NEW rhs, IsFinite(rhs), NEW set, Roomy(set),
         NEW neg \in BOOLEAN, NEW n \in Nat, NEW e \in Int,
         Multiplies(lhs, rhs, neg, n, e)
  PROVE  Outcome(MultiplyOp(lhs, rhs, set)) = RoundedOnce(neg, n, e, set)
<1> DEFINE w == Finalize(CopyFit(Finite(neg, n, e), set, 0, {}), set)
<1>1. MultiplyOp(lhs, rhs, set) = w
  <2>1. ~IsNaN(lhs) /\ ~IsNaN(rhs) /\ ~IsSpecial(lhs) /\ ~IsSpecial(rhs)
    BY FiniteFields
  <2>2. MultiplyOp(lhs, rhs, set)
          = Finalize(CopyFit(Finite(lhs.neg # rhs.neg, lhs.coeff * rhs.coeff,
                                    lhs.exponent + rhs.exponent), set, 0, {}), set)
    BY <2>1, Zenon DEF MultiplyOp
  <2> QED BY <2>2, Zenon DEF Multiplies
<1>2. Outcome(w) = RoundedOnce(neg, n, e, set)
  BY FinalizeIsRounded
<1> QED BY <1>1, <1>2

\* decNumberMultiply: a product of finite numbers is the exact one, rounded once.
THEOREM ProductIsRounded ==
  ASSUME NEW lhs, IsFinite(lhs), NEW rhs, IsFinite(rhs), NEW set, Roomy(set)
  PROVE  NumberMultiply(lhs, rhs, set) = ProductReference(lhs, rhs, set)
<1>neg. PICK neg \in BOOLEAN : neg = (lhs.neg # rhs.neg)
  BY DEF IsFinite
<1>n. PICK n \in Nat : n = lhs.coeff * rhs.coeff
  <2>1. lhs.coeff \in Nat /\ rhs.coeff \in Nat
    BY DEF IsFinite
  <2> QED BY <2>1
<1>e. PICK e \in Int : e = lhs.exponent + rhs.exponent
  <2>1. lhs.exponent \in Int /\ rhs.exponent \in Int
    BY DEF IsFinite
  <2> QED BY <2>1
<1>1. PICK w : w = MultiplyOp(lhs, rhs, set)
  OBVIOUS
<1>2. Outcome(w) = RoundedOnce(neg, n, e, set)
  <2>1. Multiplies(lhs, rhs, neg, n, e)
    BY <1>neg, <1>n, <1>e, Zenon DEF Multiplies
  <2> QED BY <1>1, <2>1, MultiplyRounds
<1>3. Status(w) = RoundedOnce(neg, n, e, set)
  BY <1>2, StatusOfRounded
<1>4. ProductReference(lhs, rhs, set) = RoundedOnce(neg, n, e, set)
  BY <1>neg, <1>n, <1>e DEF ProductReference
<1> QED BY <1>1, <1>3, <1>4 DEF NumberMultiply

----------------------------------------------------------------------------
(* Addition.                                                               *)

\* The exact sum of -/+ m and -/+ n at the exponent e, rounded once.
SumAt(aneg, m, bneg, n, e, set) ==
  IF aneg = bneg THEN RoundedOnce(aneg, m + n, e, set)
  ELSE IF m > n THEN RoundedOnce(aneg, m - n, e, set)
  ELSE IF n > m THEN RoundedOnce(bneg, n - m, e, set)
  ELSE RoundedOnce(set.round = "FLOOR", 0, e, set)

\* The same, the way the reference puts it.
SignedSum(lneg, rneg, sum, e, set) ==
  LET neg == CASE sum # 0 -> sum < 0
               [] sum = 0 /\ lneg = rneg -> lneg
               [] sum = 0 /\ lneg # rneg -> set.round = "FLOOR"
  IN  RoundedOnce(neg, IF sum < 0 THEN -sum ELSE sum, e, set)

\* The sum of two signed naturals, with the sign the reference gives it.
LEMMA SignOfSum ==
  ASSUME NEW lneg \in BOOLEAN, NEW l \in Nat, NEW rneg \in BOOLEAN, NEW r \in Nat,
         NEW sum \in Int, NEW x \in Int, NEW y \in Int, sum = x + y,
         x = IF lneg THEN -l ELSE l, y = IF rneg THEN -r ELSE r,
         NEW e, NEW set
  PROVE  SignedSum(lneg, rneg, sum, e, set) = SumAt(lneg, l, rneg, r, e, set)
<1> DEFINE neg == CASE sum # 0 -> sum < 0
                    [] sum = 0 /\ lneg = rneg -> lneg
                    [] sum = 0 /\ lneg # rneg -> set.round = "FLOOR"
           abs == IF sum < 0 THEN -sum ELSE sum
<1>0. SignedSum(lneg, rneg, sum, e, set) = RoundedOnce(neg, abs, e, set)
  BY Zenon DEF SignedSum
<1>a. SUFFICES RoundedOnce(neg, abs, e, set) = SumAt(lneg, l, rneg, r, e, set)
  BY <1>0
<1>1. CASE sum # 0
  <2>1. neg = (sum < 0)
    BY <1>1, Zenon
  <2> HIDE DEF neg
  <2>2. CASE lneg = TRUE /\ rneg = TRUE
    <3>1. (sum < 0) = TRUE /\ -sum = l + r
      BY <1>1, <2>2
    <3>2. neg = lneg /\ abs = l + r /\ lneg = rneg
      BY <2>1, <2>2, <3>1
    <3> HIDE DEF abs
    <3> QED BY <3>2, Zenon DEF SumAt
  <2>3. CASE lneg = FALSE /\ rneg = FALSE
    <3>1. (sum < 0) = FALSE /\ sum = l + r
      BY <1>1, <2>3
    <3>2. neg = lneg /\ abs = l + r /\ lneg = rneg
      BY <2>1, <2>3, <3>1
    <3> HIDE DEF abs
    <3> QED BY <3>2, Zenon DEF SumAt
  <2>4. CASE lneg = TRUE /\ rneg = FALSE
    <3>1. sum = r - l
      BY <2>4
    <3>2. CASE l > r
      <4>1. (sum < 0) = TRUE /\ -sum = l - r
        BY <3>1, <3>2
      <4>2. neg = lneg /\ abs = l - r /\ lneg # rneg
        BY <2>1, <2>4, <4>1
      <4> HIDE DEF abs
      <4> QED BY <3>2, <4>2, Zenon DEF SumAt
    <3>3. CASE ~(l > r)
      <4>1. (sum < 0) = FALSE /\ r > l
        BY <1>1, <3>1, <3>3
      <4>2. neg = rneg /\ abs = r - l /\ lneg # rneg
        BY <2>1, <2>4, <3>1, <4>1
      <4> HIDE DEF abs
      <4> QED BY <3>3, <4>1, <4>2, Zenon DEF SumAt
    <3> QED BY <3>2, <3>3
  <2>5. CASE lneg = FALSE /\ rneg = TRUE
    <3>1. sum = l - r
      BY <2>5
    <3>2. CASE l > r
      <4>1. (sum < 0) = FALSE
        BY <3>1, <3>2
      <4>2. neg = lneg /\ abs = l - r /\ lneg # rneg
        BY <2>1, <2>5, <3>1, <4>1
      <4> HIDE DEF abs
      <4> QED BY <3>2, <4>2, Zenon DEF SumAt
    <3>3. CASE ~(l > r)
      <4>1. (sum < 0) = TRUE /\ r > l /\ -sum = r - l
        BY <1>1, <3>1, <3>3
      <4>2. neg = rneg /\ abs = r - l /\ lneg # rneg
        BY <2>1, <2>5, <3>1, <4>1
      <4> HIDE DEF abs
      <4> QED BY <3>3, <4>1, <4>2, Zenon DEF SumAt
    <3> QED BY <3>2, <3>3
  <2> QED BY <2>2, <2>3, <2>4, <2>5
<1>2. CASE sum = 0 /\ lneg = rneg
  <2>1. l = 0 /\ r = 0 /\ abs = 0 /\ l + r = 0
    BY <1>2
  <2>2. neg = lneg
    BY <1>2, Zenon
  <2> HIDE DEF neg, abs
  <2> QED BY <1>2, <2>1, <2>2, Zenon DEF SumAt
<1>3. CASE sum = 0 /\ lneg # rneg
  <2>1. l = r /\ abs = 0 /\ ~(l > r) /\ ~(r > l)
    <3>1. l = r
      BY <1>3
    <3> QED BY <1>3, <3>1
  <2>2. neg = (set.round = "FLOOR")
    BY <1>3, Zenon
  <2> HIDE DEF neg, abs
  <2> QED BY <1>3, <2>1, <2>2, Zenon DEF SumAt
<1> QED BY <1>1, <1>2, <1>3

\* The order of the summands does not matter.
LEMMA SumCommutes ==
  ASSUME NEW aneg \in BOOLEAN, NEW m \in Nat, NEW bneg \in BOOLEAN, NEW n \in Nat,
         NEW e, NEW set
  PROVE  SumAt(bneg, n, aneg, m, e, set) = SumAt(aneg, m, bneg, n, e, set)
<1>1. CASE aneg = bneg
  <2>1. m + n = n + m
    OBVIOUS
  <2> QED BY <1>1, <2>1, Zenon DEF SumAt
<1>2. CASE aneg # bneg /\ m > n
  <2>1. ~(n > m)
    BY <1>2
  <2> QED BY <1>2, <2>1, Zenon DEF SumAt
<1>3. CASE aneg # bneg /\ n > m
  <2>1. ~(m > n)
    BY <1>3
  <2> QED BY <1>3, <2>1, Zenon DEF SumAt
<1>4. CASE aneg # bneg /\ ~(m > n) /\ ~(n > m)
  BY <1>4, Zenon DEF SumAt
<1> QED BY <1>1, <1>2, <1>3, <1>4

\* A number at a lower exponent.
LEMMA AtIs ==
  ASSUME NEW dn, IsFinite(dn), NEW e \in Int, NEW k \in Nat, dn.exponent - e = k,
         NEW m \in Nat, m = dn.coeff * Ten[k]
  PROVE  At(dn, e) \in Int /\ At(dn, e) = IF dn.neg THEN -m ELSE m
<1>1. PICK c \in Nat : c = dn.coeff
  BY DEF IsFinite
<1>2. PICK t \in Nat : t = Ten[k]
  BY TenNat
<1>3. At(dn, e) = (IF dn.neg THEN -1 ELSE 1) * c * t
  BY <1>1, <1>2 DEF At
<1>4. m = c * t
  BY <1>1, <1>2
<1>5. CASE dn.neg
  <2>1. (-1) * c * t = -(c * t)
    OBVIOUS
  <2> QED BY <1>3, <1>4, <1>5, <2>1
<1>6. CASE ~dn.neg
  <2>1. 1 * c * t = c * t
    OBVIOUS
  <2> QED BY <1>3, <1>4, <1>6, <2>1
<1> QED BY <1>5, <1>6

\* a and b lie j and k places above the lower of their exponents.
AtLower(a, b, e, j, k) ==
  /\ e = Smaller(a.exponent, b.exponent)
  /\ a.exponent - e = j
  /\ b.exponent - e = k

\* The reference's sum of finite numbers, at the lower exponent e.
LEMMA SumOf ==
  ASSUME NEW a, IsFinite(a), NEW b, IsFinite(b), NEW set,
         NEW e \in Int, NEW j \in Nat, NEW k \in Nat, AtLower(a, b, e, j, k),
         NEW m \in Nat, m = a.coeff * Ten[j], NEW n \in Nat, n = b.coeff * Ten[k]
  PROVE  SumReference(a, b, set) = SumAt(a.neg, m, b.neg, n, e, set)
<1>0. /\ e = Smaller(a.exponent, b.exponent)
      /\ a.exponent - e = j /\ b.exponent - e = k
  BY DEF AtLower
<1>1. PICK x \in Int : x = At(a, e) /\ x = IF a.neg THEN -m ELSE m
  BY <1>0, AtIs
<1>2. PICK y \in Int : y = At(b, e) /\ y = IF b.neg THEN -n ELSE n
  BY <1>0, AtIs
<1>3. PICK sum \in Int : sum = x + y
  OBVIOUS
<1>4. SumReference(a, b, set) = SignedSum(a.neg, b.neg, sum, e, set)
  BY <1>0, <1>1, <1>2, <1>3, Zenon DEF SumReference, SignedSum
<1>5. a.neg \in BOOLEAN /\ b.neg \in BOOLEAN
  BY DEF IsFinite
<1>6. SignedSum(a.neg, b.neg, sum, e, set) = SumAt(a.neg, m, b.neg, n, e, set)
  BY <1>1, <1>2, <1>3, <1>5, SignOfSum
<1> QED BY <1>4, <1>6

\* Whichever comes first: small is the one of the lower exponent.
LEMMA SumIs ==
  ASSUME NEW small, IsFinite(small), NEW big, IsFinite(big), NEW set,
         NEW k \in Nat, big.exponent - small.exponent = k,
         NEW n \in Nat, n = big.coeff * Ten[k]
  PROVE  /\ SumReference(small, big, set)
              = SumAt(small.neg, small.coeff, big.neg, n, small.exponent, set)
         /\ SumReference(big, small, set)
              = SumAt(small.neg, small.coeff, big.neg, n, small.exponent, set)
<1>1. PICK e \in Int : e = small.exponent
  BY DEF IsFinite
<1>2. big.exponent \in Int /\ small.coeff \in Nat
      /\ small.neg \in BOOLEAN /\ big.neg \in BOOLEAN
  BY DEF IsFinite
<1>3. e = Smaller(small.exponent, big.exponent) /\ e = Smaller(big.exponent, small.exponent)
  BY <1>1, <1>2 DEF Smaller
<1>z. PICK z \in Nat : z = 0
  OBVIOUS
<1>4. small.exponent - e = z /\ big.exponent - e = k
  BY <1>1, <1>2, <1>z
<1>5. PICK m \in Nat : m = small.coeff
  BY <1>2
<1>6. m = small.coeff * Ten[z]
  <2>1. Ten[0] = 1
    BY TenSmall
  <2> QED BY <1>5, <1>z, <2>1
<1>a. AtLower(small, big, e, z, k)
  BY <1>3, <1>4 DEF AtLower
<1>b. AtLower(big, small, e, k, z)
  BY <1>3, <1>4 DEF AtLower
<1>7. SumReference(small, big, set) = SumAt(small.neg, m, big.neg, n, e, set)
  BY <1>a, <1>6, SumOf
<1>8. SumReference(big, small, set) = SumAt(big.neg, n, small.neg, m, e, set)
  BY <1>b, <1>6, SumOf
<1>9. SumAt(big.neg, n, small.neg, m, e, set) = SumAt(small.neg, m, big.neg, n, e, set)
  BY <1>2, SumCommutes
<1> QED BY <1>1, <1>5, <1>7, <1>8, <1>9

\* What Finite makes is finite.
LEMMA FiniteIs ==
  ASSUME NEW neg \in BOOLEAN, NEW c \in Nat, NEW e \in Int, NEW dn, dn = Finite(neg, c, e)
  PROVE  IsFinite(dn) /\ dn.neg = neg /\ dn.coeff = c /\ dn.exponent = e
<1>1. dn = Stored(neg, c, GetDigits(c), e)
  BY FiniteIsStored
<1>2. dn.neg = neg /\ dn.coeff = c /\ dn.exponent = e
  BY <1>1, StoredFields
<1> QED BY <1>2 DEF IsFinite

\* A number put in its place is zero only if it was zero before, or else inexact.
LEMMA PlacedZero ==
  ASSUME NEW neg \in BOOLEAN, NEW c \in Nat, NEW e \in Int, NEW loss, NEW set, Roomy(set),
         IsZero(Placed(neg, c, e, loss, set).dn)
  PROVE  \/ c = 0 /\ loss \subseteq Placed(neg, c, e, loss, set).status
         \/ "Inexact" \in Placed(neg, c, e, loss, set).status
<1> DEFINE carried == GetDigits(c) > set.digits
           coeff == IF carried THEN Ten[set.digits - 1] ELSE c
           exp == IF carried THEN e + 1 ELSE e
           high == exp + GetDigits(coeff) - 1 > set.emax
           low == exp + GetDigits(coeff) - 1 <= set.emax
           fitted == Folded(neg, coeff, exp, set)
<1>1. /\ coeff \in Nat /\ exp \in Int /\ GetDigits(coeff) \in Nat
      /\ set.emax \in Nat /\ Etop(set) \in Int /\ (coeff = 0 => c = 0)
  <2>1. set.digits - 1 \in Nat /\ set.emax \in Nat /\ Etop(set) \in Int
    BY RoomyFacts
  <2>2. Ten[set.digits - 1] \in Nat /\ Ten[set.digits - 1] > 0
    BY <2>1, TenNat
  <2>3. coeff \in Nat /\ (coeff = 0 => c = 0)
    BY <2>2
  <2>4. exp \in Int
    OBVIOUS
  <2> HIDE DEF coeff, exp
  <2> QED BY <2>1, <2>3, <2>4, DigitsAre
<1>2. high <=> ~low
  <2> HIDE DEF coeff, exp
  <2> QED BY <1>1
<1>3. CASE coeff = 0
  <2>1. Placed(neg, c, e, loss, set)
          = [ dn |-> Finite(neg, 0, exp), status |-> loss \cup {"Clamped"} ]
    <3>1. ~(coeff # 0 /\ high) /\ ~(coeff # 0 /\ low)
      BY <1>3
    <3> QED BY <1>3, <3>1, Zenon DEF Placed
  <2> HIDE DEF exp, coeff
  <2> QED BY <1>1, <1>3, <2>1
<1>4. CASE coeff # 0 /\ high
  <2>1. Placed(neg, c, e, loss, set)
          = [ dn |-> Overflowed(neg, set),
              status |-> loss \cup {"Overflow", "Inexact", "Rounded"} ]
    <3>1. ~(coeff = 0) /\ ~(coeff # 0 /\ low)
      <4> HIDE DEF coeff, high, low
      <4> QED BY <1>2, <1>4
    <3> QED BY <1>4, <3>1, Zenon DEF Placed
  <2> QED BY <2>1
<1>5. CASE coeff # 0 /\ low
  <2>1. Placed(neg, c, e, loss, set) = Flagged(fitted, loss)
    <3>1. ~(coeff = 0) /\ ~(coeff # 0 /\ high)
      <4> HIDE DEF coeff, high, low
      <4> QED BY <1>2, <1>5
    <3> QED BY <1>5, <3>1, Zenon DEF Placed
  <2> DEFINE fold == IF set.clamp = 1 THEN Larger(0, exp - Etop(set)) ELSE 0
  <2>2. fold \in Nat
    <3> HIDE DEF exp
    <3> QED BY <1>1 DEF Larger
  <2>3. PICK m \in Nat : m = coeff * Ten[fold] /\ m # 0
    <3>1. Ten[fold] \in Nat /\ Ten[fold] > 0
      BY <2>2, TenNat
    <3> HIDE DEF coeff, fold
    <3> QED BY <1>1, <1>5, <3>1
  <2>4. Placed(neg, c, e, loss, set).dn = Finite(neg, m, exp - fold)
    <3>1. fitted = [ dn |-> Finite(neg, coeff * Ten[fold], exp - fold),
                     status |-> IF fold > 0 THEN {"Clamped"} ELSE {} ]
      <4> HIDE DEF coeff, exp
      <4> QED BY Zenon DEF Folded
    <3>2. fitted.dn = Finite(neg, m, exp - fold)
      <4> HIDE DEF coeff, exp, fold, fitted
      <4> QED BY <2>3, <3>1
    <3> HIDE DEF coeff, exp, fold, fitted
    <3> QED BY <2>1, <3>2 DEF Flagged
  <2>5. exp - fold \in Int
    <3> HIDE DEF exp, fold
    <3> QED BY <1>1, <2>2
  <2>6. ~IsZero(Placed(neg, c, e, loss, set).dn)
    <3> HIDE DEF exp, fold
    <3>1. PICK x \in Int : x = exp - fold
      BY <2>5
    <3>2. PICK dn : dn = Finite(neg, m, x)
      OBVIOUS
    <3>3. IsFinite(dn) /\ dn.coeff = m
      BY <3>2, FiniteIs
    <3>4. ~IsZero(dn)
      BY <2>3, <3>3, FiniteFields
    <3> QED BY <2>4, <3>1, <3>2, <3>4
  <2> QED BY <2>6
<1> HIDE DEF coeff, high, low
<1> QED BY <1>2, <1>3, <1>4, <1>5

\* So a number that is not zero is rounded to zero only with a loss.
LEMMA RoundedZero ==
  ASSUME NEW neg \in BOOLEAN, NEW n \in Nat, n # 0, NEW e \in Int, NEW set, Roomy(set),
         IsZero(RoundedOnce(neg, n, e, set).dn)
  PROVE  "Inexact" \in RoundedOnce(neg, n, e, set).status
<1> DEFINE drop == Excess(n, e, set)
           power == Power(n, drop)
           up == IF RoundsAway(neg, n, drop, set.round) THEN 1 ELSE 0
           y == n \div power + up
           loss == Loss(n, e, drop, set)
<1>1. drop \in Nat /\ GetDigits(n) \in Nat
  <2>1. /\ set.digits \in Nat /\ Etiny(set) \in Int
    BY RoomyFacts
  <2>2. GetDigits(n) \in Nat
    BY DigitsAre
  <2> QED BY <2>1, <2>2 DEF Excess, Larger
<1>2. PICK p \in Nat : p = power /\ n \div p \in Nat /\ n % p \in Nat
                       /\ n = p * (n \div p) + (n % p)
  <2>1. PICK k \in Nat : k = Smaller(drop, GetDigits(n) + 1)
    <3> HIDE DEF drop
    <3> QED BY <1>1 DEF Smaller
  <2>2. power = Ten[k]
    BY <2>1 DEF Power
  <2>3. Ten[k] \in Nat
    BY TenNat
  <2> HIDE DEF power
  <2> QED BY <2>2, <2>3, CutAt
<1>3. y \in Nat /\ e + drop \in Int
  <2> HIDE DEF drop, power
  <2> QED BY <1>1, <1>2
<1>4. RoundedOnce(neg, n, e, set) = Placed(neg, y, e + drop, loss, set)
  BY Zenon DEF NonZeroResult, RoundedOnce
<1>5. y = 0 => "Inexact" \in loss
  <2> SUFFICES ASSUME y = 0 PROVE "Inexact" \in loss
    OBVIOUS
  <2>1. n \div p = 0
    <3> HIDE DEF drop, power
    <3> QED BY <1>2
  <2>2. n % p # 0
    <3>1. p * 0 = 0
      OBVIOUS
    <3> QED BY <1>2, <2>1, <3>1
  <2>3. n % Power(n, drop) # 0
    BY <1>2, <2>2
  <2> HIDE DEF drop
  <2> QED BY <2>3 DEF Loss
<1> HIDE DEF y, loss, drop
<1>6. \/ y = 0 /\ loss \subseteq Placed(neg, y, e + drop, loss, set).status
      \/ "Inexact" \in Placed(neg, y, e + drop, loss, set).status
  BY <1>3, <1>4, PlacedZero
<1> QED BY <1>4, <1>5, <1>6

\* What SignZero makes of the rounded -/+ n * 10^e.
SignIsRight(w, neg, n, e, diffsign, set) ==
  /\ n # 0 \/ ~diffsign =>
       Outcome(SignZero(w, diffsign, set)) = RoundedOnce(neg, n, e, set)
  /\ n = 0 /\ diffsign =>
       Outcome(SignZero(w, diffsign, set)) = RoundedOnce(set.round = "FLOOR", 0, e, set)

\* The sign of an exact zero is decided last; no other result is touched.
LEMMA SignZeroIs ==
  ASSUME NEW neg \in BOOLEAN, NEW n \in Nat, NEW e \in Int, NEW set, Roomy(set),
         NEW diffsign \in BOOLEAN,
         NEW w, w = Finalize(CopyFit(Finite(neg, n, e), set, 0, {}), set)
  PROVE  SignIsRight(w, neg, n, e, diffsign, set)
<1> USE DEF SignIsRight
<1>1. Outcome(w) = RoundedOnce(neg, n, e, set)
  BY FinalizeIsRounded
<1>2. w.dn = RoundedOnce(neg, n, e, set).dn /\ w.status = RoundedOnce(neg, n, e, set).status
  BY <1>1 DEF Outcome
<1>3. CASE ~diffsign
  BY <1>1, <1>3 DEF SignZero
<1>4. CASE diffsign /\ n # 0
  <2>1. IsZero(w.dn) => "Inexact" \in w.status
    BY <1>2, <1>4, RoundedZero
  <2>2. SignZero(w, diffsign, set) = w
    BY <1>4, <2>1 DEF SignZero
  <2> QED BY <1>1, <1>4, <2>2
<1>5. CASE diffsign /\ n = 0
  <2>1. PICK k \in Nat : k = Larger(0, GetDigits(0) - set.digits)
    <3>1. GetDigits(0) \in Nat /\ set.digits \in Nat
      BY DigitsAre, RoomyFacts
    <3> QED BY <3>1 DEF Larger
  <2>2. FirstCut(CopyFit(Finite(neg, n, e), set, 0, {}), neg, n, e, k)
    BY <1>5, <2>1, CopyFitIs
  <2>3. FirstCut(CopyFit(Finite(neg, n, e), set, 0, {}), neg, 0, e,
                 Larger(0, GetDigits(0) - set.digits))
    BY <1>5, <2>1, <2>2
  <2>4. w = ZeroWork(ZeroResult(neg, e, set), {})
    BY <2>3, FittedZero
  <2> DEFINE y == Smaller(IF set.clamp = 1 THEN Etop(set) ELSE set.emax,
                          Larger(Etiny(set), e))
             f == IF y # e THEN {"Clamped"} ELSE {}
             floor == (set.round = "FLOOR")
             up == [ w EXCEPT !.dn.neg = floor ]
  <2>5. \A s : ZeroResult(s, e, set) = [ dn |-> Finite(s, 0, y), status |-> f ]
    BY Zenon DEF ZeroResult
  <2>6. "Inexact" \notin {} \cup f
    OBVIOUS
  <2> HIDE DEF y, f
  <2>7. w = Work(Finite(neg, 0, y), 0, {} \cup f)
    BY <2>4, <2>5 DEF ZeroWork
  <2>8. IsZero(w.dn) /\ w.status = {} \cup f
    <3>1. w.dn = Finite(neg, 0, y) /\ w.status = {} \cup f
      BY <2>7, WorkFields
    <3>2. w.dn = Stored(neg, 0, 1, y)
      BY <3>1, FiniteIsStored, ZeroDigits
    <3>3. w.dn.coeff = 0 /\ w.dn.digits = 1 /\ w.dn.kind = "finite"
      BY <3>2, StoredFields
    <3> QED BY <3>1, <3>3 DEF IsZero, IsSpecial
  <2>9. SignZero(w, diffsign, set) = up
    BY <1>5, <2>6, <2>8, Zenon DEF SignZero
  <2> HIDE DEF floor
  <2>10. up = Work(Finite(floor, 0, y), 0, {} \cup f)
    <3>1. Finite(neg, 0, y) = Stored(neg, 0, 1, y) /\ Finite(floor, 0, y) = Stored(floor, 0, 1, y)
      BY FiniteIsStored, ZeroDigits
    <3>2. w = Work(Stored(neg, 0, 1, y), 0, {} \cup f)
      BY <2>7, <3>1
    <3>3. up = Work(Stored(floor, 0, 1, y), 0, {} \cup f)
      BY <3>2 DEF Work, Stored
    <3> QED BY <3>1, <3>3
  <2> HIDE DEF up
  <2>11. Outcome(up) = [ dn |-> Finite(floor, 0, y), status |-> {} \cup f ]
    BY <2>10, OutcomeOf
  <2>12. Outcome(up) = ZeroResult(floor, e, set)
    BY <2>5, <2>11
  <2>13. Outcome(up) = RoundedOnce(floor, 0, e, set)
    BY <2>12 DEF RoundedOnce
  <2> QED BY <1>5, <2>9, <2>13 DEF floor
<1> QED BY <1>3, <1>4, <1>5

\* The coefficient of big at an exponent padding places lower.
Aligns(n, big, padding) == n = big.coeff * Ten[padding]

\* Whether the signs differ.
Differ(diffsign, neg, bneg) == diffsign = (neg # bneg)

\* The general path of decAddOp: aligned coefficients, added or subtracted, the
\* sign flipped by a borrow.
LEMMA AlignedSum ==
  ASSUME NEW small, IsFinite(small), NEW big, NEW padding,
         NEW n \in Nat, Aligns(n, big, padding),
         NEW neg \in BOOLEAN, NEW bneg \in BOOLEAN, NEW diffsign \in BOOLEAN,
         Differ(diffsign, neg, bneg), NEW set, Roomy(set)
  PROVE  Outcome(AddAligned(small, big, padding, neg, set, diffsign))
           = SumAt(neg, small.coeff, bneg, n, small.exponent, set)
<1> USE DEF Aligns, Differ
<1>1. PICK m \in Nat : m = small.coeff
  BY DEF IsFinite
<1>2. PICK e \in Int : e = small.exponent
  BY DEF IsFinite
<1>3. PICK sum \in Int : sum = IF diffsign THEN m - n ELSE m + n
  OBVIOUS
<1>4. PICK s \in BOOLEAN : s = (neg # (sum < 0))
  OBVIOUS
<1>5. PICK c \in Nat : c = IF sum < 0 THEN -sum ELSE sum
  OBVIOUS
<1>6. PICK w : w = Finalize(CopyFit(Finite(s, c, e), set, 0, {}), set)
  OBVIOUS
<1>7. AddAligned(small, big, padding, neg, set, diffsign) = SignZero(w, diffsign, set)
  <2>1. small.coeff + Signed(diffsign, big.coeff * Ten[padding]) = sum
    <3>1. diffsign => m + (-n) = m - n
      OBVIOUS
    <3> QED BY <1>1, <1>3, <3>1 DEF Signed
  <2> QED BY <1>2, <1>4, <1>5, <1>6, <2>1, Zenon DEF AddAligned, Magnitude
<1>0. SignIsRight(w, s, c, e, diffsign, set)
  BY <1>6, SignZeroIs
<1>8. /\ c # 0 \/ ~diffsign =>
           Outcome(SignZero(w, diffsign, set)) = RoundedOnce(s, c, e, set)
      /\ c = 0 /\ diffsign =>
           Outcome(SignZero(w, diffsign, set))
             = RoundedOnce(set.round = "FLOOR", 0, e, set)
  BY <1>0 DEF SignIsRight
<1>9. CASE ~diffsign
  <2>1. (sum < 0) = FALSE /\ c = m + n
    BY <1>3, <1>5, <1>9
  <2>2. s = neg /\ neg = bneg
    BY <1>4, <1>9, <2>1
  <2> QED BY <1>1, <1>2, <1>7, <1>8, <1>9, <2>1, <2>2, Zenon DEF SumAt
<1>10. CASE diffsign /\ m > n
  <2>1. (sum < 0) = FALSE /\ c = m - n /\ c # 0
    BY <1>3, <1>5, <1>10
  <2>2. s = neg /\ neg # bneg
    BY <1>4, <1>10, <2>1
  <2> QED BY <1>1, <1>2, <1>7, <1>8, <1>10, <2>1, <2>2, Zenon DEF SumAt
<1>11. CASE diffsign /\ n > m
  <2>1. (sum < 0) = TRUE /\ c = n - m /\ c # 0 /\ ~(m > n)
    BY <1>3, <1>5, <1>11
  <2>2. s = bneg /\ neg # bneg
    BY <1>4, <1>11, <2>1
  <2> QED BY <1>1, <1>2, <1>7, <1>8, <1>11, <2>1, <2>2, Zenon DEF SumAt
<1>12. CASE diffsign /\ m = n
  <2>1. c = 0 /\ ~(m > n) /\ ~(n > m)
    BY <1>3, <1>5, <1>12
  <2>2. neg # bneg
    BY <1>12
  <2> QED BY <1>1, <1>2, <1>7, <1>8, <1>12, <2>1, <2>2, Zenon DEF SumAt
<1> QED BY <1>9, <1>10, <1>11, <1>12

\* A number the context holds at its exponent is its own rounding.
LEMMA RoundsToItself ==
  ASSUME NEW neg, NEW c \in Nat, c # 0, NEW e \in Int, NEW set, Roomy(set),
         GetDigits(c) <= set.digits, e >= set.emin, e <= Etop(set)
  PROVE  RoundedOnce(neg, c, e, set) = [ dn |-> Finite(neg, c, e), status |-> {} ]
<1>1. /\ set.digits \in Nat /\ set.digits >= 1 /\ set.emin \in Int /\ set.emax \in Nat
      /\ Etop(set) \in Int /\ Etop(set) = set.emax - set.digits + 1
      /\ Etiny(set) \in Int /\ Etiny(set) = set.emin - set.digits + 1
  BY RoomyFacts
<1>2. PICK d \in Nat : d = GetDigits(c) /\ d >= 1
  BY DigitsAre
<1>3. d <= set.digits
  BY <1>2
<1>4. PICK k \in Nat : k = 0
  OBVIOUS
<1>5. Excess(c, e, set) = k
  BY <1>1, <1>2, <1>3, <1>4 DEF Excess, Larger
<1>6. Smaller(k, GetDigits(c) + 1) = k
  BY <1>2, <1>4 DEF Smaller
<1>7. c % Ten[k] = 0 /\ c \div Ten[k] = c
  <2>1. c = Ten[0] * c + 0 /\ Ten[0] = 1 /\ 0 < Ten[0]
    BY TenSmall
  <2>2. c \div Ten[0] = c /\ c % Ten[0] = 0
    BY <2>1, CutIs
  <2> QED BY <1>4, <2>2
<1>8. PICK flags : flags = {}
  OBVIOUS
<1>9. Loss(c, e, k, set) = flags
  <2>1. (e + GetDigits(c) - 1 < set.emin) <=> FALSE
    BY <1>1, <1>2
  <2>2. Power(c, k) = Ten[k]
    BY <1>6 DEF Power
  <2>3. ~(k > 0) /\ c % Power(c, k) = 0
    BY <1>4, <1>7, <2>2
  <2> QED BY <1>8, <2>1, <2>3 DEF Loss
<1>10. NonZeroResult(neg, c, e, set)
         = Placed(neg, Rounded(neg, c \div Ten[k], c % Ten[k], Ten[k], set.round),
                  e + k, flags, set)
  BY <1>5, <1>6, <1>9, NonZeroIs
<1>11. Rounded(neg, c \div Ten[k], c % Ten[k], Ten[k], set.round) = c
  <2>1. c \in Int /\ 0 \in Int
    OBVIOUS
  <2>2. Rounded(neg, c, 0, Ten[k], set.round) = c
    BY <2>1, RoundedRange
  <2> QED BY <1>7, <2>2
<1>12. NonZeroResult(neg, c, e, set) = Placed(neg, c, e, flags, set)
  <2>1. e + k = e
    BY <1>4
  <2> QED BY <1>10, <1>11, <2>1
<1>13. Placed(neg, c, e, flags, set) = Flagged(Folded(neg, c, e, set), flags)
  <2>1. Placed(neg, c, e, flags, set)
          = IF e + GetDigits(c) - 1 > set.emax THEN Overflows(neg, flags, set)
            ELSE Flagged(Folded(neg, c, e, set), flags)
    BY <1>1, PlacedPlain
  <2>2. ~(e + GetDigits(c) - 1 > set.emax)
    BY <1>1, <1>2, <1>3
  <2> QED BY <2>1, <2>2
<1>14. Folded(neg, c, e, set) = [ dn |-> Finite(neg, c, e), status |-> {} ]
  <2>1. Larger(0, e - Etop(set)) = 0
    BY <1>1 DEF Larger
  <2> QED BY <2>1, FoldedNone
<1>15. RoundedOnce(neg, c, e, set) = NonZeroResult(neg, c, e, set)
  BY Zenon DEF RoundedOnce
<1> QED BY <1>8, <1>12, <1>13, <1>14, <1>15 DEF Flagged

\* A Unit's worth of a number.
LEMMA UnitSplit ==
  ASSUME NEW c \in Nat, NEW d \in Nat, c < Ten[d]
  PROVE  \E hi \in Nat, lo \in Nat, base \in Nat :
           /\ base = UnitBase /\ lo = c % UnitBase /\ lo < base /\ c = base * hi + lo
           /\ d <= DECDPUN => hi = 0
           /\ d >= DECDPUN => base * hi + base <= Ten[d]
<1>1. PICK base \in Nat : base = UnitBase /\ base > 0
  <2>1. DECDPUN \in Nat
    BY DecDPunAssumption
  <2>2. UnitBase \in Nat /\ UnitBase > 0
    BY <2>1, UnitIsTen, TenNat
  <2> QED BY <2>2
<1>2. PICK hi \in Nat : hi = c \div base
  BY <1>1
<1>3. PICK lo \in Nat : lo = c % base /\ lo < base
  BY <1>1
<1>4. c = base * hi + lo
  BY <1>1, <1>2, <1>3
<1>5. ASSUME d <= DECDPUN PROVE hi = 0
  <2>1. Ten[d] <= base
    <3>1. DECDPUN \in Nat
      BY DecDPunAssumption
    <3> QED BY <1>1, <1>5, <3>1, UnitIsTen, TenMonotone
  <2>2. c < base
    <3>1. Ten[d] \in Nat
      BY TenNat
    <3> QED BY <2>1, <3>1
  <2>3. c = base * 0 + c /\ c \in 0..(base - 1)
    BY <2>2
  <2>4. c \div base = 0
    BY <1>1, <2>3, QuotientIs
  <2> QED BY <1>2, <2>4
<1>6. ASSUME d >= DECDPUN PROVE base * hi + base <= Ten[d]
  <2>1. PICK j \in Nat : j = d - DECDPUN
    BY <1>6, DecDPunAssumption
  <2>2. PICK t \in Nat : t = Ten[j]
    BY TenNat
  <2>3. Ten[d] = base * t
    <3>1. DECDPUN \in Nat /\ d = DECDPUN + j
      BY <2>1, DecDPunAssumption
    <3>2. Ten[DECDPUN + j] = Ten[DECDPUN] * Ten[j]
      BY <3>1, TenSum
    <3> QED BY <1>1, <2>2, <3>1, <3>2, UnitIsTen
  <2>4. hi < t
    <3>1. c < base * t
      BY <2>3
    <3>2. ASSUME hi >= t PROVE FALSE
      <4>1. PICK z \in Nat : hi = t + z
        <5>1. hi - t \in Nat /\ hi = t + (hi - t)
          BY <3>2
        <5> QED BY <5>1
      <4>2. base * hi = base * t + base * z /\ base * z \in Nat
        BY <4>1
      <4>3. base * hi \in Nat /\ base * t \in Nat
        OBVIOUS
      <4> QED BY <1>4, <3>1, <4>2, <4>3
    <3> QED BY <3>2
  <2>5. PICK z \in Nat : t = hi + 1 + z
    <3>1. t - hi - 1 \in Nat /\ t = hi + 1 + (t - hi - 1)
      BY <2>4
    <3> QED BY <3>1
  <2>6. base * t = base * hi + base + base * z
    BY <2>5
  <2>7. base * z \in Nat /\ base * hi \in Nat
    OBVIOUS
  <2> QED BY <2>3, <2>6, <2>7
<1> QED BY <1>1, <1>2, <1>3, <1>4, <1>5, <1>6

\* decAddOp's fast path: the lowest Units combined without a carry or a borrow
\* give the exact sum, with the digits it has.
LEMMA FastSum ==
  ASSUME NEW lhs, IsFinite(lhs), lhs.coeff # 0, NEW rhs, IsFinite(rhs), rhs.coeff # 0,
         NEW set, Roomy(set), NEW rneg \in BOOLEAN, NEW diffsign \in BOOLEAN,
         Differ(diffsign, lhs.neg, rneg), AddIsFast(lhs, rhs, set, diffsign)
  PROVE  Outcome(AddFast(lhs, rhs, diffsign))
           = SumAt(lhs.neg, lhs.coeff, rneg, rhs.coeff, lhs.exponent, set)
<1> USE DEF Differ
<1>1. PICK neg \in BOOLEAN : neg = lhs.neg
  BY DEF IsFinite
<1>2. PICK m \in Nat : m = lhs.coeff /\ m # 0
  BY DEF IsFinite
<1>3. PICK n \in Nat : n = rhs.coeff /\ n # 0
  BY DEF IsFinite
<1>4. PICK e \in Int : e = lhs.exponent
  BY DEF IsFinite
<1>5. PICK d \in Nat : d = lhs.digits /\ d = GetDigits(m) /\ d >= 1 /\ m < Ten[d]
                       /\ (d > 1 => Ten[d - 1] <= m)
  BY <1>2, FiniteFields, DigitsAre
<1>6. PICK dr \in Nat : dr = rhs.digits /\ n < Ten[dr]
  BY <1>3, FiniteFields, DigitsAre
<1>7. PICK hi \in Nat, lo \in Nat, base \in Nat :
           /\ base = UnitBase /\ lo = m % UnitBase /\ lo < base /\ m = base * hi + lo
           /\ d <= DECDPUN => hi = 0
           /\ d >= DECDPUN => base * hi + base <= Ten[d]
  BY <1>5, UnitSplit
<1>8. n % UnitBase = n
  <2>1. dr <= DECDPUN
    BY <1>6 DEF AddIsFast
  <2>2. PICK h \in Nat, l \in Nat, b \in Nat :
           /\ b = UnitBase /\ l = n % UnitBase /\ l < b /\ n = b * h + l
           /\ dr <= DECDPUN => h = 0
    BY <1>6, UnitSplit
  <2>3. b * 0 + l = l
    OBVIOUS
  <2> QED BY <2>1, <2>2, <2>3
<1>9. PICK partial \in Int : partial = (IF diffsign THEN lo - n ELSE lo + n)
                             /\ partial = AddPartial(lhs, rhs, diffsign)
  <2>0. lo - n \in Int /\ lo + n \in Int
    OBVIOUS
  <2>1. PICK partial \in Int : partial = IF diffsign THEN lo - n ELSE lo + n
    <3>1. (IF diffsign THEN lo - n ELSE lo + n) \in Int
      BY <2>0
    <3> QED BY <3>1, Zenon
  <2>2. lo + (-n) = lo - n
    OBVIOUS
  <2>3. AddPartial(lhs, rhs, diffsign) = lo + (IF diffsign THEN -n ELSE n)
    BY <1>2, <1>3, <1>7, <1>8 DEF AddPartial, Lsu, Signed
  <2>4. AddPartial(lhs, rhs, diffsign) = partial
    BY <2>1, <2>2, <2>3
  <2> QED BY <2>1, <2>4
<1>10. /\ set.digits \in Nat /\ d <= set.digits
       /\ e >= set.emin /\ e <= Etop(set)
       /\ diffsign => partial > 0
       /\ ~diffsign => partial < base /\ (d >= DECDPUN \/ partial < Ten[d])
  <2>1. rhs.exponent = e
    BY <1>4 DEF AddIsFast
  <2> QED BY <1>5, <1>7, <1>9, <2>1, RoomyFacts DEF AddIsFast
<1>11. PICK c \in Nat : c = (m - lo) + partial /\ c # 0
         /\ (IF diffsign THEN m > n /\ c = m - n /\ c <= m
             ELSE c = m + n /\ c >= m /\ c < Ten[d])
  <2>1. Ten[d] \in Nat /\ DECDPUN \in Nat /\ base * hi \in Nat
    BY TenNat, DecDPunAssumption
  <2>4. PICK high \in Nat, ten \in Nat :
             /\ high = base * hi /\ m = high + lo /\ ten = Ten[d]
             /\ d <= DECDPUN => high = 0
             /\ d >= DECDPUN => high + base <= ten
    <3>1. d <= DECDPUN => base * hi = 0
      BY <1>7
    <3> QED BY <1>7, <2>1, <3>1
  <2>2. CASE diffsign
    <3>1. partial = lo - n /\ partial > 0
      BY <1>9, <1>10, <2>2
    <3>2. m > n /\ m - n = (m - lo) + partial /\ m - n <= m /\ m - n \in Nat /\ m - n # 0
      BY <2>4, <3>1
    <3> QED BY <2>2, <3>2
  <2>3. CASE ~diffsign
    <3>1. partial = lo + n /\ partial < base /\ (d >= DECDPUN \/ partial < ten)
      BY <1>9, <1>10, <2>3, <2>4
    <3>2. m + n = (m - lo) + partial /\ m + n \in Nat /\ m + n # 0 /\ m + n >= m
          /\ m + n = high + partial
      BY <1>2, <2>4, <3>1
    <3>3. m + n < ten
      BY <1>5, <2>1, <2>4, <3>1, <3>2
    <3> QED BY <2>3, <2>4, <3>2, <3>3
  <2> QED BY <2>2, <2>3
<1>12. (IF diffsign THEN GetDigits(c) ELSE d) = GetDigits(c) /\ GetDigits(c) <= set.digits
  <2>1. CASE ~diffsign
    <3>1. d > 1 => Ten[d - 1] <= c
      <4>1. CASE d > 1
        <5>1. Ten[d - 1] \in Nat
          BY <4>1, TenNat
        <5> QED BY <1>5, <1>11, <2>1, <4>1, <5>1
      <4> QED BY <4>1
    <3>2. c < Ten[d]
      BY <1>11, <2>1
    <3>3. GetDigits(c) = d
      BY <1>5, <3>1, <3>2, DigitsUnique
    <3> QED BY <1>10, <2>1, <3>3
  <2>2. CASE diffsign
    <3>1. GetDigits(c) <= d
      <4>1. PICK dc \in Nat : dc = GetDigits(c) /\ dc >= 1 /\ (dc > 1 => Ten[dc - 1] <= c)
        BY DigitsAre
      <4>2. ASSUME dc > d PROVE FALSE
        <5>1. d <= dc - 1 /\ dc - 1 \in Nat /\ dc > 1
          BY <1>5, <4>2
        <5>2. Ten[d] <= Ten[dc - 1]
          BY <5>1, TenMonotone
        <5>3. Ten[d] \in Nat /\ Ten[dc - 1] \in Nat
          BY <5>1, TenNat
        <5> QED BY <1>5, <1>11, <2>2, <4>1, <5>1, <5>2, <5>3
      <4> QED BY <4>1, <4>2
    <3>2. GetDigits(c) \in Nat
      BY DigitsAre
    <3> QED BY <1>10, <2>2, <3>1, <3>2
  <2> QED BY <2>1, <2>2
<1>13. AddFast(lhs, rhs, diffsign) = Work(Finite(neg, c, e), 0, {})
  <2> DEFINE dn == [ lhs EXCEPT !.coeff = c,
                                !.digits = IF diffsign THEN GetDigits(c) ELSE @ ]
             dig == IF diffsign THEN GetDigits(c) ELSE d
  <2>1. lhs = Stored(neg, m, d, e)
    <3>1. lhs = Finite(neg, m, e)
      BY <1>1, <1>2, <1>4 DEF IsFinite
    <3> QED BY <1>5, <3>1, FiniteIsStored
  <2>2. dn = Stored(neg, c, dig, e)
    <3>1. dn = [ lhs EXCEPT !.coeff = c, !.digits = dig ]
      BY <2>1 DEF Stored
    <3> HIDE DEF dig, dn
    <3> QED BY <2>1, <3>1 DEF Stored
  <2>3. dn = Finite(neg, c, e)
    <3>1. dig = GetDigits(c)
      BY <1>12
    <3> HIDE DEF dig, dn
    <3> QED BY <2>2, <3>1, FiniteIsStored
  <2>4. AddFast(lhs, rhs, diffsign) = Exact(dn)
    <3>1. (lhs.coeff - Lsu(lhs)) + AddPartial(lhs, rhs, diffsign) = c
      BY <1>2, <1>7, <1>9, <1>11 DEF Lsu
    <3> QED BY <3>1, Zenon DEF AddFast
  <2> HIDE DEF dn
  <2> QED BY <2>3, <2>4 DEF Exact
<1>14. Outcome(AddFast(lhs, rhs, diffsign)) = [ dn |-> Finite(neg, c, e), status |-> {} ]
  BY <1>13, OutcomeOf
<1>15. RoundedOnce(neg, c, e, set) = [ dn |-> Finite(neg, c, e), status |-> {} ]
  <2>1. c # 0 /\ GetDigits(c) <= set.digits /\ e >= set.emin /\ e <= Etop(set)
    BY <1>10, <1>11, <1>12
  <2> QED BY <2>1, RoundsToItself
<1>16. SumAt(neg, m, rneg, n, e, set) = RoundedOnce(neg, c, e, set)
  <2>1. CASE diffsign
    <3>1. neg # rneg /\ m > n /\ c = m - n
      BY <1>1, <1>11, <2>1
    <3> QED BY <3>1, Zenon DEF SumAt
  <2>2. CASE ~diffsign
    <3>1. neg = rneg /\ c = m + n
      BY <1>1, <1>11, <2>2
    <3> QED BY <3>1, Zenon DEF SumAt
  <2> QED BY <2>1, <2>2
<1> QED BY <1>1, <1>2, <1>3, <1>4, <1>14, <1>15, <1>16

\* Comparing is the same at another scale.
LEMMA Scaled ==
  ASSUME NEW x \in Int, NEW y \in Int, NEW s \in Nat, s > 0
  PROVE  /\ x < y <=> x * s < y * s
         /\ x = y <=> x * s = y * s
<1>1. ASSUME NEW a \in Int, NEW b \in Int, a < b PROVE a * s < b * s
  <2>1. (a + 1) * s <= b * s
    BY <1>1, Monotone
  <2>2. (a + 1) * s = a * s + s
    OBVIOUS
  <2>3. a * s \in Int /\ b * s \in Int
    OBVIOUS
  <2> QED BY <2>1, <2>2, <2>3
<1>2. x < y => x * s < y * s
  BY <1>1
<1>3. y < x => y * s < x * s
  BY <1>1
<1>4. x = y => x * s = y * s
  OBVIOUS
<1>5. PICK a \in Int, b \in Int : a = x * s /\ b = y * s
  OBVIOUS
<1> QED BY <1>2, <1>3, <1>4, <1>5

\* A residue stands for a fraction, however it is written.
LEMMA StandsScaled ==
  ASSUME NEW r, NEW rest \in Int, NEW power \in Nat, StandsFor(r, rest, power),
         NEW s \in Nat, s > 0,
         NEW a \in Int, a = rest * s, NEW b \in Nat, b = power * s
  PROVE  StandsFor(r, a, b)
<1>1. (rest < 0 <=> a < 0) /\ (rest = 0 <=> a = 0) /\ (rest > 0 <=> a > 0)
  <2>1. /\ rest < 0 <=> rest * s < 0 * s
        /\ rest = 0 <=> rest * s = 0 * s
        /\ 0 < rest <=> 0 * s < rest * s
    BY Scaled
  <2>2. 0 * s = 0
    OBVIOUS
  <2> QED BY <2>1, <2>2
<1>2. PICK twice \in Int, two \in Int :
           twice = 2 * rest /\ two = 2 * a /\ two = twice * s
  <2>1. 2 * (rest * s) = (2 * rest) * s /\ 2 * rest \in Int /\ 2 * a \in Int
    OBVIOUS
  <2> QED BY <2>1
<1>3. /\ twice < power <=> two < b
      /\ twice = power <=> two = b
      /\ power < twice <=> b < two
  BY <1>2, Scaled
<1>4. PICK minus \in Int, down \in Int : minus = -power /\ down = -b /\ down = minus * s
  <2>1. -(power * s) = (-power) * s /\ -power \in Int /\ -b \in Int
    OBVIOUS
  <2> QED BY <2>1
<1>5. minus < twice <=> down < two
  BY <1>2, <1>4, Scaled
<1>6. /\ r \in -1..9 /\ (r < 0 <=> rest < 0) /\ (r = 0 <=> rest = 0)
      /\ (r \in 1..4 <=> rest > 0 /\ twice < power)
      /\ (r = 5 <=> twice = power) /\ (r \in 6..9 <=> twice > power)
      /\ twice > minus
  BY <1>2, <1>4 DEF StandsFor
<1>7. /\ r \in -1..9 /\ (r < 0 <=> a < 0) /\ (r = 0 <=> a = 0)
      /\ (r \in 1..4 <=> a > 0 /\ two < b)
      /\ (r = 5 <=> two = b) /\ (r \in 6..9 <=> two > b)
      /\ two > down
  BY <1>1, <1>3, <1>5, <1>6
<1> QED BY <1>2, <1>4, <1>7 DEF StandsFor

\* A working number padded towards a zero's exponent, want digits down when there
\* is room for as many.
PadsTo(w, padded, neg, c, d, x, r, st, want, room) ==
  /\ want <= 0 => padded = w
  /\ want > 0 /\ want <= room =>
       padded = Work(Stored(neg, c * Ten[want], d + want, x - want), r, st)
  /\ want > 0 /\ want > room =>
       padded = Work(Stored(neg, c * Ten[room], d + room, x - room), r,
                     st \cup {"Rounded"})

\* PadTowards is such a padding.
LEMMA PadTowardsIs ==
  ASSUME NEW neg, NEW c, NEW d \in Nat, NEW x \in Int, NEW r, NEW st,
         NEW w, w = Work(Stored(neg, c, d, x), r, st),
         NEW zexp \in Int, NEW set, set.digits \in Nat,
         NEW want \in Int, want = x - zexp, NEW room \in Int, room = set.digits - d
  PROVE  PadsTo(w, PadTowards(w, zexp, set), neg, c, d, x, r, st, want, room)
<1>1. w.dn = Stored(neg, c, d, x)
  BY WorkFields
<1>2. w.dn.exponent = x /\ w.dn.digits = d
  BY <1>1, StoredFields
<1>3. ASSUME NEW pad
      PROVE  [ w EXCEPT !.dn = Padded(@, pad) ]
               = Work(Stored(neg, c * Ten[pad], d + pad, x - pad), r, st)
  <2>1. [ w EXCEPT !.dn = Padded(@, pad) ] = [ w EXCEPT !.dn = Padded(w.dn, pad) ]
    OBVIOUS
  <2>2. Padded(w.dn, pad) = Stored(neg, c * Ten[pad], d + pad, x - pad)
    BY <1>1, PaddedIs
  <2> QED BY <2>1, <2>2, WorkFields
<1>4. ASSUME NEW pad, NEW y
      PROVE  Raise([ w EXCEPT !.dn = Padded(@, pad) ], y)
               = Work(Stored(neg, c * Ten[pad], d + pad, x - pad), r, st \cup y)
  <2> DEFINE v == [ w EXCEPT !.dn = Padded(@, pad) ]
             dn == Stored(neg, c * Ten[pad], d + pad, x - pad)
  <2>1. v = Work(dn, r, st)
    BY <1>3
  <2> HIDE DEF v, dn
  <2>2. Raise(v, y) = Work(dn, r, st \cup y)
    BY <2>1, WorkFields
  <2> QED BY <2>2 DEF v, dn
<1>5. PadTowards(w, zexp, set)
        = LET pad == IF want > room THEN room ELSE want
          IN  IF want <= 0 THEN w
              ELSE Raise([ w EXCEPT !.dn = Padded(@, pad) ],
                         IF want > room THEN {"Rounded"} ELSE {})
  BY <1>2, Zenon DEF PadTowards
<1>6. CASE want <= 0
  <2>1. PadTowards(w, zexp, set) = w
    BY <1>5, <1>6, Zenon
  <2>2. ~(want > 0)
    BY <1>6
  <2> QED BY <2>1, <2>2 DEF PadsTo
<1>7. CASE want > 0 /\ want <= room
  <2>1. ~(want <= 0) /\ ~(want > room)
    BY <1>7
  <2>2. PadTowards(w, zexp, set) = Raise([ w EXCEPT !.dn = Padded(@, want) ], {})
    BY <1>5, <2>1, Zenon
  <2>3. st \cup {} = st
    OBVIOUS
  <2>4. PadTowards(w, zexp, set)
          = Work(Stored(neg, c * Ten[want], d + want, x - want), r, st)
    BY <1>4, <2>2, <2>3, Zenon
  <2> QED BY <2>1, <2>4, Zenon DEF PadsTo
<1>8. CASE want > 0 /\ want > room
  <2>1. ~(want <= 0) /\ ~(want <= room)
    BY <1>8
  <2>2. PadTowards(w, zexp, set) = Raise([ w EXCEPT !.dn = Padded(@, room) ], {"Rounded"})
    BY <1>5, <1>8, <2>1, Zenon
  <2>3. PadTowards(w, zexp, set)
          = Work(Stored(neg, c * Ten[room], d + room, x - room), r, st \cup {"Rounded"})
    BY <1>4, <2>2, Zenon
  <2> QED BY <2>1, <2>3, Zenon DEF PadsTo
<1>9. want <= 0 \/ (want > 0 /\ want <= room) \/ (want > 0 /\ want > room)
  OBVIOUS
<1> QED BY <1>6, <1>7, <1>8, <1>9

\* The flags of a first shortening by k digits.
CutFlags(k, rest) == (IF k > 0 THEN {"Rounded"} ELSE {}) \cup InexactIf(rest)

\* They depend on whether something was cut, and whether it was zero.
LEMMA CutFlagsAre ==
  ASSUME NEW k \in Nat, NEW rest \in Int
  PROVE  /\ k = 0 /\ rest = 0 => CutFlags(k, rest) = {}
         /\ k > 0 /\ rest = 0 => CutFlags(k, rest) = {"Rounded"}
         /\ k > 0 => "Rounded" \in CutFlags(k, rest)
         /\ \A i \in Nat, a \in Int :
              i > 0 /\ k > 0 /\ (a = 0 <=> rest = 0) => CutFlags(i, a) = CutFlags(k, rest)
  BY DEF CutFlags, InexactIf

\* What makes a number in work the first cut of n at e.
LEMMA FirstCutIf ==
  ASSUME NEW neg, NEW n \in Nat, NEW e \in Int, NEW k \in Nat,
         NEW c \in Nat, NEW rest \in Nat, rest < Ten[k], n = Ten[k] * c + rest,
         NEW r \in Int, StandsFor(r, rest, Ten[k]), NEW x \in Int, x = e + k,
         NEW w, w = Work(Finite(neg, c, x), r, CutFlags(k, rest))
  PROVE  FirstCut(w, neg, n, e, k)
<1>1. n \div Ten[k] = c /\ n % Ten[k] = rest
  BY CutIs
<1>2. w = Work(Finite(neg, n \div Ten[k], e + k), r, CutFlags(k, n % Ten[k]))
  BY <1>1
<1>3. StandsFor(r, n % Ten[k], Ten[k])
  BY <1>1
<1> QED BY <1>2, <1>3 DEF FirstCut, CutFlags

\* What a first cut says of its parts.
LEMMA FirstCutSays ==
  ASSUME NEW neg, NEW n \in Nat, NEW e \in Int, NEW k \in Nat,
         NEW w, FirstCut(w, neg, n, e, k)
  PROVE  \E c \in Nat, rest \in Nat, r \in Int :
           /\ rest < Ten[k] /\ n = Ten[k] * c + rest /\ StandsFor(r, rest, Ten[k])
           /\ c = n \div Ten[k]
           /\ w = Work(Finite(neg, c, e + k), r, CutFlags(k, rest))
<1>1. PICK r \in Int :
        /\ StandsFor(r, n % Ten[k], Ten[k])
        /\ w = Work(Finite(neg, n \div Ten[k], e + k), r, CutFlags(k, n % Ten[k]))
  BY DEF FirstCut, CutFlags
<1>2. PICK c \in Nat, rest \in Nat :
        /\ c = n \div Ten[k] /\ rest = n % Ten[k] /\ rest < Ten[k]
        /\ n = Ten[k] * c + rest
  <2>1. /\ n \div Ten[k] \in Nat /\ n % Ten[k] \in Nat /\ n % Ten[k] < Ten[k]
        /\ n = Ten[k] * (n \div Ten[k]) + (n % Ten[k])
    BY CutAt
  <2> QED BY <2>1, Zenon
<1> QED BY <1>1, <1>2

\* Of a fraction of nothing there is no residue.
LEMMA NoResidue ==
  ASSUME NEW r, NEW power, StandsFor(r, 0, power)
  PROVE  r = 0
  BY DEF StandsFor

\* Nothing lost has no residue.
LEMMA StandsNone ==
  ASSUME NEW power \in Nat, power > 0
  PROVE  StandsFor(0, 0, power)
  BY DEF StandsFor

\* Zeros padded in below a number that was cut are cut as well.
LEMMA CutPadded ==
  ASSUME NEW neg, NEW n \in Nat, NEW e \in Int, NEW k \in Nat, k > 0,
         NEW w, FirstCut(w, neg, n, e, k), NEW j \in Nat,
         NEW m \in Nat, m = n * Ten[j]
  PROVE  FirstCut(w, neg, m, e - j, k + j)
<1>1. PICK c \in Nat, rest \in Nat, r \in Int :
           /\ rest < Ten[k] /\ n = Ten[k] * c + rest /\ StandsFor(r, rest, Ten[k])
           /\ w = Work(Finite(neg, c, e + k), r, CutFlags(k, rest))
  BY FirstCutSays
<1>2. PICK s \in Nat, t \in Nat : s = Ten[j] /\ t = Ten[k] /\ s > 0
  BY TenNat
<1>3. PICK a \in Nat, b \in Nat : a = rest * s /\ b = t * s /\ b = Ten[k + j]
  <2>1. Ten[k + j] = t * s
    BY <1>2, TenSum
  <2>2. rest * s \in Nat /\ t * s \in Nat
    OBVIOUS
  <2> QED BY <2>1, <2>2
<1>4. StandsFor(r, a, b)
  BY <1>1, <1>2, <1>3, StandsScaled
<1>5. a < b
  BY <1>1, <1>2, <1>3, Scaled
<1>6. m = b * c + a
  <2>1. (t * c + rest) * s = (t * s) * c + rest * s
    OBVIOUS
  <2> QED BY <1>1, <1>2, <1>3, <2>1
<1>7. a = 0 <=> rest = 0
  <2>1. rest = 0 <=> rest * s = 0 * s
    BY <1>2, Scaled
  <2>2. 0 * s = 0
    OBVIOUS
  <2> QED BY <1>3, <2>1, <2>2
<1>8. PICK i \in Nat, y \in Int, x \in Int :
           i = k + j /\ i > 0 /\ y = e - j /\ x = e + k /\ x = y + i
  OBVIOUS
<1>9. CutFlags(i, a) = CutFlags(k, rest)
  BY <1>7, <1>8, CutFlagsAre
<1>10. w = Work(Finite(neg, c, x), r, CutFlags(i, a))
  BY <1>1, <1>8, <1>9
<1>11. b = Ten[i]
  BY <1>3, <1>8
<1>12. FirstCut(w, neg, m, y, i)
  <2>1. StandsFor(r, a, Ten[i]) /\ a < Ten[i] /\ m = Ten[i] * c + a
    BY <1>4, <1>5, <1>6, <1>11
  <2> QED BY <1>8, <1>10, <2>1, FirstCutIf
<1> QED BY <1>8, <1>12

\* A number padded towards the exponent of a zero that is added to it is the first
\* cut of that number with the zeros.
LEMMA PaddedCut ==
  ASSUME NEW neg, NEW n \in Nat, n # 0, NEW e \in Int, NEW set, Roomy(set),
         NEW k \in Nat, k = Larger(0, GetDigits(n) - set.digits),
         NEW w, FirstCut(w, neg, n, e, k),
         NEW zexp \in Int, NEW j \in Nat, j = Larger(0, e - zexp),
         NEW m \in Nat, m = n * Ten[j],
         NEW i \in Nat, i = Larger(0, GetDigits(m) - set.digits)
  PROVE  FirstCut(PadTowards(w, zexp, set), neg, m, e - j, i)
<1>1. PICK p \in Nat, d \in Nat :
           p = set.digits /\ p >= 1 /\ d = GetDigits(n) /\ d >= 1
  BY RoomyFacts, DigitsAre
<1>2. GetDigits(m) = d + j
  BY <1>1, DigitsOfPadded
<1>3. /\ k = IF d > p THEN d - p ELSE 0
      /\ i = IF d + j > p THEN d + j - p ELSE 0
      /\ j = IF e > zexp THEN e - zexp ELSE 0
  BY <1>1, <1>2 DEF Larger
<1>4. PICK c \in Nat, rest \in Nat, r \in Int :
           /\ rest < Ten[k] /\ n = Ten[k] * c + rest /\ StandsFor(r, rest, Ten[k])
           /\ c = n \div Ten[k]
           /\ w = Work(Finite(neg, c, e + k), r, CutFlags(k, rest))
  BY FirstCutSays
<1>5. PICK dc \in Nat, x \in Int : dc = GetDigits(c) /\ dc = d - k /\ x = e + k
  <2>1. k < GetDigits(n)
    BY <1>1, <1>3
  <2>2. GetDigits(c) = d - k
    <3>1. c = n \div Ten[k]
      BY <1>4, Zenon
    <3>2. GetDigits(n \div Ten[k]) = GetDigits(n) - k
      BY <2>1, DigitsKept
    <3> QED BY <1>1, <3>1, <3>2
  <2>3. d - k \in Nat /\ e + k \in Int
    BY <1>1, <2>1
  <2> QED BY <2>2, <2>3, Zenon
<1>6. PICK st : st = CutFlags(k, rest)
  OBVIOUS
<1>7. w = Work(Stored(neg, c, dc, x), r, st)
  BY <1>4, <1>5, <1>6, FiniteIsStored
<1>8. PICK want \in Int, room \in Int : want = x - zexp /\ room = p - dc
  OBVIOUS
<1>9. PICK v : v = PadTowards(w, zexp, set)
  OBVIOUS
<1>10. PadsTo(w, v, neg, c, dc, x, r, st, want, room)
  BY <1>1, <1>7, <1>8, <1>9, PadTowardsIs
<1>11. CASE want <= 0
  <2>1. j = 0 /\ i = k /\ e - j = e
    <3>1. ~(e > zexp)
      BY <1>5, <1>8, <1>11
    <3>2. j = 0
      BY <1>3, <3>1
    <3>3. d + j = d
      BY <3>2
    <3> QED BY <1>3, <3>2, <3>3
  <2>2. n * Ten[0] = n
    BY TenSmall
  <2>3. m = n /\ v = w
    BY <1>10, <1>11, <2>1, <2>2 DEF PadsTo
  <2> QED BY <1>9, <2>1, <2>3
<1>12. CASE want > 0 /\ k > 0
  <2>1. room = 0 /\ i = k + j /\ want > room
    <3>1. d > p /\ k = d - p
      BY <1>3, <1>12
    <3>2. d + j > p
      BY <3>1
    <3>3. i = d + j - p
      BY <1>3, <3>2
    <3>4. room = 0
      BY <1>5, <1>8, <3>1
    <3> QED BY <1>12, <3>1, <3>3, <3>4
  <2>2. v = Work(Stored(neg, c * Ten[0], dc + 0, x - 0), r, st \cup {"Rounded"})
    BY <1>10, <1>12, <2>1 DEF PadsTo
  <2>3. c * Ten[0] = c /\ dc + 0 = dc /\ x - 0 = x
    BY TenSmall
  <2>4. st \cup {"Rounded"} = st
    <3>1. "Rounded" \in CutFlags(k, rest)
      BY <1>12, CutFlagsAre
    <3> QED BY <1>6, <3>1
  <2>5. v = w
    BY <1>7, <2>2, <2>3, <2>4
  <2>6. FirstCut(w, neg, m, e - j, k + j)
    BY <1>12, CutPadded
  <2> QED BY <1>9, <2>1, <2>5, <2>6
<1>13. CASE want > 0 /\ k = 0
  <2>1. rest = 0 /\ n = c /\ r = 0 /\ st = {}
    <3>1. Ten[k] = 1
      BY <1>13, TenSmall
    <3>2. rest = 0 /\ n = c
      BY <1>4, <3>1
    <3>3. CutFlags(k, rest) = {}
      BY <1>13, <3>2, CutFlagsAre
    <3>4. StandsFor(r, 0, Ten[k])
      BY <1>4, <3>2
    <3> QED BY <1>6, <3>2, <3>3, <3>4, NoResidue
  <2>2. x = e /\ dc = d /\ j = want /\ j > 0 /\ room >= 0
    BY <1>1, <1>3, <1>5, <1>8, <1>13
  <2>3. ASSUME NEW pad \in Nat, pad <= j, NEW cut \in Nat, cut = j - pad, cut = i,
               v = Work(Stored(neg, n * Ten[pad], d + pad, e - pad), 0,
                        CutFlags(cut, 0))
        PROVE  FirstCut(v, neg, m, e - j, i)
    <3>1. PICK y \in Nat : y = n * Ten[pad] /\ GetDigits(y) = d + pad
      <4>1. n * Ten[pad] \in Nat /\ GetDigits(n * Ten[pad]) = d + pad
        BY <1>1, DigitsOfPadded
      <4> QED BY <4>1
    <3>2. PICK a \in Int, b \in Int : a = e - pad /\ b = e - j /\ a = b + cut
      BY <2>3
    <3>3. v = Work(Finite(neg, y, a), 0, CutFlags(cut, 0))
      BY <2>3, <3>1, <3>2, FiniteIsStored
    <3>4. m = Ten[cut] * y + 0 /\ 0 < Ten[cut]
      <4>1. pad + cut = j
        BY <2>3
      <4>2. Ten[j] = Ten[pad] * Ten[cut]
        BY <4>1, TenSum
      <4>3. PICK s \in Nat, t \in Nat : s = Ten[pad] /\ t = Ten[cut] /\ t > 0
        BY TenNat
      <4>4. n * (s * t) = t * (n * s) + 0
        OBVIOUS
      <4> QED BY <3>1, <4>2, <4>3, <4>4
    <3>5. StandsFor(0, 0, Ten[cut])
      BY TenNat, StandsNone
    <3>6. FirstCut(v, neg, m, b, cut)
      <4>1. 0 \in Nat /\ 0 \in Int
        OBVIOUS
      <4> QED BY <3>2, <3>3, <3>4, <3>5, <4>1, FirstCutIf
    <3> QED BY <2>3, <3>2, <3>6
  <2>4. CASE want <= room
    <3>1. v = Work(Stored(neg, n * Ten[j], d + j, e - j), 0, {})
      BY <1>10, <1>13, <2>1, <2>2, <2>4 DEF PadsTo
    <3>2. PICK cut \in Nat : cut = 0 /\ cut = j - j /\ cut = i
      BY <1>1, <1>3, <1>5, <1>8, <2>2, <2>4
    <3>3. CutFlags(cut, 0) = {}
      BY <3>2, CutFlagsAre
    <3>4. v = Work(Stored(neg, n * Ten[j], d + j, e - j), 0, CutFlags(cut, 0))
      BY <3>1, <3>3
    <3>5. j <= j
      OBVIOUS
    <3> QED BY <1>9, <2>3, <3>2, <3>4, <3>5
  <2>5. CASE want > room
    <3>1. v = Work(Stored(neg, n * Ten[room], d + room, e - room), 0, {"Rounded"})
      <4>1. {} \cup {"Rounded"} = {"Rounded"}
        OBVIOUS
      <4> QED BY <1>10, <1>13, <2>1, <2>2, <2>5, <4>1 DEF PadsTo
    <3>2. PICK cut \in Nat : cut > 0 /\ cut = j - room /\ cut = i
      BY <1>1, <1>3, <1>5, <1>8, <2>2, <2>5
    <3>3. CutFlags(cut, 0) = {"Rounded"}
      BY <3>2, CutFlagsAre
    <3>4. v = Work(Stored(neg, n * Ten[room], d + room, e - room), 0, CutFlags(cut, 0))
      BY <3>1, <3>3
    <3>5. room \in Nat /\ room <= j
      BY <2>2, <2>5
    <3> QED BY <1>9, <2>3, <3>2, <3>4, <3>5
  <2> QED BY <2>4, <2>5
<1>14. want <= 0 \/ (want > 0 /\ k > 0) \/ (want > 0 /\ k = 0)
  OBVIOUS
<1> QED BY <1>11, <1>12, <1>13, <1>14

\* So a number padded towards a zero's exponent is still rounded once.
LEMMA PaddedOnce ==
  ASSUME NEW neg \in BOOLEAN, NEW n \in Nat, n # 0, NEW e \in Int, NEW set, Roomy(set),
         NEW w, FirstCut(w, neg, n, e, Larger(0, GetDigits(n) - set.digits)),
         NEW zexp \in Int, NEW j \in Nat, j = Larger(0, e - zexp),
         NEW m \in Nat, m = n * Ten[j]
  PROVE  Outcome(Finalize(PadTowards(w, zexp, set), set)) = RoundedOnce(neg, m, e - j, set)
<1>1. set.digits \in Nat
  BY RoomyFacts
<1>2. GetDigits(n) \in Nat /\ GetDigits(m) \in Nat
  BY DigitsAre
<1>3. PICK k \in Nat : k = Larger(0, GetDigits(n) - set.digits)
  BY <1>1, <1>2 DEF Larger
<1>4. PICK i \in Nat : i = Larger(0, GetDigits(m) - set.digits)
  BY <1>1, <1>2 DEF Larger
<1>5. FirstCut(PadTowards(w, zexp, set), neg, m, e - j, i)
  BY <1>3, <1>4, PaddedCut
<1>6. PICK low \in Int : low = e - j
  OBVIOUS
<1>7. FirstCut(PadTowards(w, zexp, set), neg, m, low, Larger(0, GetDigits(m) - set.digits))
  BY <1>4, <1>5, <1>6
<1>8. Outcome(Finalize(PadTowards(w, zexp, set), set)) = RoundedOnce(neg, m, low, set)
  BY <1>7, CutIsRounded
<1> QED BY <1>6, <1>8

\* A number in work with another sign.
LEMMA SignSet ==
  ASSUME NEW neg, NEW c, NEW d, NEW x, NEW r, NEW st, NEW y
  PROVE  [ Work(Stored(neg, c, d, x), r, st) EXCEPT !.dn.neg = y ]
           = Work(Stored(y, c, d, x), r, st)
  BY DEF Work, Stored

\* A sign turned, or left as it is.
Turned(sign, neg, negate) == sign = (neg # negate)

\* A first cut with its sign turned.
LEMMA Resigned ==
  ASSUME NEW neg, NEW n \in Nat, NEW e \in Int, NEW k \in Nat,
         NEW w, FirstCut(w, neg, n, e, k), NEW negate, NEW sign,
         Turned(sign, neg, negate)
  PROVE  FirstCut([ w EXCEPT !.dn.neg = (@ # negate) ], sign, n, e, k)
<1>1. PICK c \in Nat, rest \in Nat, r \in Int :
           /\ rest < Ten[k] /\ n = Ten[k] * c + rest /\ StandsFor(r, rest, Ten[k])
           /\ w = Work(Finite(neg, c, e + k), r, CutFlags(k, rest))
  BY FirstCutSays
<1>2. PICK d \in Nat, x \in Int : d = GetDigits(c) /\ x = e + k
  <2>1. GetDigits(c) \in Nat /\ e + k \in Int
    BY DigitsAre
  <2> QED BY <2>1
<1>3. PICK st : st = CutFlags(k, rest)
  OBVIOUS
<1>4. w = Work(Stored(neg, c, d, x), r, st)
  BY <1>1, <1>2, <1>3, FiniteIsStored
<1>5. w.dn.neg = neg
  BY <1>4, WorkFields, StoredFields
<1>6. PICK v : v = [ w EXCEPT !.dn.neg = (@ # negate) ]
  OBVIOUS
<1>7. v = [ w EXCEPT !.dn.neg = sign ]
  BY <1>5, <1>6 DEF Turned
<1>8. v = Work(Stored(sign, c, d, x), r, st)
  BY <1>4, <1>7, SignSet
<1>9. v = Work(Finite(sign, c, x), r, CutFlags(k, rest))
  BY <1>2, <1>3, <1>8, FiniteIsStored
<1>10. FirstCut(v, sign, n, e, k)
  BY <1>1, <1>2, <1>9, FirstCutIf
<1> QED BY <1>6, <1>10

\* What decCopyFit leaves is a zero only when it was given one.
LEMMA CutZero ==
  ASSUME NEW neg \in BOOLEAN, NEW n \in Nat, NEW e \in Int, NEW set, Roomy(set),
         NEW w, FirstCut(w, neg, n, e, Larger(0, GetDigits(n) - set.digits))
  PROVE  IsZero(w.dn) <=> n = 0
<1>1. PICK p \in Nat, d \in Nat, k \in Nat :
           /\ p = set.digits /\ p >= 1 /\ d = GetDigits(n) /\ d >= 1
           /\ k = Larger(0, d - p) /\ k < d
  <2>1. PICK p \in Nat, d \in Nat :
             p = set.digits /\ p >= 1 /\ d = GetDigits(n) /\ d >= 1
    BY RoomyFacts, DigitsAre
  <2>2. Larger(0, d - p) \in Nat /\ Larger(0, d - p) < d
    BY <2>1 DEF Larger
  <2> QED BY <2>1, <2>2
<1>2. FirstCut(w, neg, n, e, k)
  BY <1>1
<1>3. PICK c \in Nat, rest \in Nat, r \in Int :
           /\ n = Ten[k] * c + rest /\ c = n \div Ten[k]
           /\ w = Work(Finite(neg, c, e + k), r, CutFlags(k, rest))
  BY <1>2, FirstCutSays
<1>4. PICK x \in Int : x = e + k
  OBVIOUS
<1>9. PICK dn : dn = w.dn
  OBVIOUS
<1>5. dn = Finite(neg, c, x)
  BY <1>3, <1>4, <1>9, WorkFields
<1>6. IsZero(w.dn) <=> c = 0
  <2>1. IsFinite(dn) /\ dn.coeff = c
    BY <1>5, FiniteIs
  <2>2. IsZero(dn) <=> dn.coeff = 0
    BY <2>1, FiniteFields
  <2> QED BY <1>9, <2>1, <2>2
<1>7. n # 0 => c # 0
  <2>1. k < GetDigits(n)
    BY <1>1
  <2> QED BY <1>3, <2>1, DigitsKept
<1>8. n = 0 => c = 0
  <2>1. Ten[k] \in Nat /\ Ten[k] > 0
    BY TenNat
  <2>2. PICK t \in Nat, u \in Nat : t = Ten[k] /\ t >= 1 /\ u = t * c /\ (c >= 1 => u >= 1)
    <3>1. PICK t \in Nat : t = Ten[k] /\ t >= 1
      BY <2>1
    <3>2. t * c \in Nat /\ (c >= 1 => 1 * c <= t * c) /\ 1 * c = c
      BY <3>1, Monotone
    <3> QED BY <3>1, <3>2
  <2>3. n = u + rest
    BY <1>3, <2>2
  <2> QED BY <2>2, <2>3
<1> QED BY <1>6, <1>7, <1>8

\* A nonzero number plus a zero.
LEMMA SumWithZero ==
  ASSUME NEW aneg \in BOOLEAN, NEW m \in Nat, m # 0, NEW bneg \in BOOLEAN, NEW e, NEW set
  PROVE  /\ SumAt(aneg, m, bneg, 0, e, set) = RoundedOnce(aneg, m, e, set)
         /\ SumAt(bneg, 0, aneg, m, e, set) = RoundedOnce(aneg, m, e, set)
<1>1. m + 0 = m /\ m - 0 = m /\ m > 0 /\ 0 \in Nat
  OBVIOUS
<1>2. SumAt(aneg, m, bneg, 0, e, set) = RoundedOnce(aneg, m, e, set)
  <2>1. CASE aneg = bneg
    BY <1>1, <2>1, Zenon DEF SumAt
  <2>2. CASE aneg # bneg
    BY <1>1, <2>2, Zenon DEF SumAt
  <2> QED BY <2>1, <2>2
<1>3. SumAt(bneg, 0, aneg, m, e, set) = SumAt(aneg, m, bneg, 0, e, set)
  BY <1>1, SumCommutes
<1> QED BY <1>2, <1>3

\* The lower exponent of two, and how far each lies above it.
LEMMA LowerExponent ==
  ASSUME NEW x \in Int, NEW y \in Int, NEW e \in Int, e = Smaller(x, y)
  PROVE  /\ x - e \in Nat /\ y - e \in Nat
         /\ x - e = Larger(0, x - y) /\ y - e = Larger(0, y - x)
         /\ e = x - Larger(0, x - y) /\ e = y - Larger(0, y - x)
         /\ e = Smaller(y, x)
  BY DEF Smaller, Larger

\* decAddOp's path for a zero on the right: any sign of the zero will do.
LEMMA AddZeroSum ==
  ASSUME NEW lhs, IsFinite(lhs), lhs.coeff # 0, NEW rhs, IsFinite(rhs),
         NEW set, Roomy(set), NEW rneg \in BOOLEAN,
         NEW e \in Int, e = Smaller(lhs.exponent, rhs.exponent),
         NEW j \in Nat, j = lhs.exponent - e, NEW m \in Nat, m = lhs.coeff * Ten[j]
  PROVE  Outcome(AddZero(lhs, rhs, set)) = SumAt(lhs.neg, m, rneg, 0, e, set)
<1>1. PICK neg \in BOOLEAN, n \in Nat, x \in Int, z \in Int :
           /\ neg = lhs.neg /\ n = lhs.coeff /\ x = lhs.exponent /\ z = rhs.exponent
           /\ lhs = Finite(neg, n, x)
  BY DEF IsFinite
<1>2. j = Larger(0, x - z) /\ e = x - j
  BY <1>1, LowerExponent
<1>3. PICK w : w = CopyFit(lhs, set, 0, {})
  OBVIOUS
<1>4. PICK k \in Nat : k = Larger(0, GetDigits(n) - set.digits)
  <2>1. set.digits \in Nat /\ GetDigits(n) \in Nat
    BY RoomyFacts, DigitsAre
  <2> QED BY <2>1 DEF Larger
<1>5. FirstCut(w, neg, n, x, k)
  BY <1>1, <1>3, <1>4, CopyFitIs
<1>6. Outcome(Finalize(PadTowards(w, z, set), set)) = RoundedOnce(neg, m, e, set)
  <2>1. FirstCut(w, neg, n, x, Larger(0, GetDigits(n) - set.digits)) /\ n # 0
    BY <1>1, <1>4, <1>5
  <2>2. m = n * Ten[j]
    BY <1>1
  <2>3. j = Larger(0, x - z) /\ e = x - j
    BY <1>2
  <2>4. Outcome(Finalize(PadTowards(w, z, set), set)) = RoundedOnce(neg, m, x - j, set)
    BY <2>1, <2>2, <2>3, PaddedOnce
  <2> QED BY <2>3, <2>4
<1>7. AddZero(lhs, rhs, set) = Finalize(PadTowards(w, z, set), set)
  BY <1>1, <1>3 DEF AddZero
<1>8. m # 0
  BY <1>1, DigitsOfPadded
<1>9. SumAt(neg, m, rneg, 0, e, set) = RoundedOnce(neg, m, e, set)
  BY <1>8, SumWithZero
<1> QED BY <1>1, <1>6, <1>7, <1>9

\* The sign of a sum of two zeros.
ZeroSign(neg, aneg, bneg, set) ==
  neg = IF aneg = bneg THEN bneg ELSE set.round = "FLOOR"

\* The sum of two zeros.
LEMMA ZeroSum ==
  ASSUME NEW aneg \in BOOLEAN, NEW bneg \in BOOLEAN, NEW neg,
         NEW e \in Int, NEW set, Roomy(set),
         ZeroSign(neg, aneg, bneg, set)
  PROVE  SumAt(aneg, 0, bneg, 0, e, set) = ZeroResult(neg, e, set)
<1>1. 0 + 0 = 0 /\ ~(0 > 0)
  OBVIOUS
<1>2. SumAt(aneg, 0, bneg, 0, e, set) = RoundedOnce(neg, 0, e, set)
  <2>1. CASE aneg = bneg
    <3>1. neg = bneg
      BY <2>1, Zenon DEF ZeroSign
    <3> QED BY <1>1, <2>1, <3>1, Zenon DEF SumAt
  <2>2. CASE aneg # bneg
    <3>1. neg = (set.round = "FLOOR")
      BY <2>2, Zenon DEF ZeroSign
    <3> QED BY <1>1, <2>2, <3>1, Zenon DEF SumAt
  <2> QED BY <2>1, <2>2
<1>3. RoundedOnce(neg, 0, e, set) = ZeroResult(neg, e, set)
  BY Zenon DEF RoundedOnce
<1> QED BY <1>2, <1>3

\* A zero in work, with the exponent and the sign that decAddOp gives a sum of
\* zeros.
LEMMA AddZerosIs ==
  ASSUME NEW neg, NEW x \in Int, NEW lhs, lhs.exponent \in Int,
         NEW diffsign \in BOOLEAN, NEW set,
         NEW w, w = Work(Finite(neg, 0, x), 0, {})
  PROVE  AddZeros(w, lhs, diffsign, set)
           = Work(Finite(IF diffsign THEN set.round = "FLOOR" ELSE neg, 0,
                         Smaller(lhs.exponent, x)), 0, {})
<1>1. PICK d \in Nat : d = GetDigits(0)
  BY DigitsAre
<1>2. w = Work(Stored(neg, 0, d, x), 0, {})
  BY <1>1, FiniteIsStored
<1>3. w.dn.exponent = x /\ w.dn.neg = neg
  BY <1>2, WorkFields, StoredFields
<1>4. PICK y \in Int : y = Smaller(lhs.exponent, x) /\ y = IF lhs.exponent < x THEN lhs.exponent ELSE x
  BY DEF Smaller
<1>5. PICK s : s = IF diffsign THEN set.round = "FLOOR" ELSE neg
  OBVIOUS
<1>6. AddZeros(w, lhs, diffsign, set)
        = [ [ w EXCEPT !.dn.exponent = y ] EXCEPT !.dn.neg = s ]
  <2>1. AddZeros(w, lhs, diffsign, set)
          = [ [ w EXCEPT !.dn.exponent = IF lhs.exponent < x THEN lhs.exponent ELSE x ]
                EXCEPT !.dn.neg = IF diffsign THEN set.round = "FLOOR" ELSE neg ]
    BY <1>2, <1>3 DEF AddZeros, Work, Stored
  <2> QED BY <1>4, <1>5, <2>1
<1>7. [ w EXCEPT !.dn.exponent = y ] = Work(Stored(neg, 0, d, y), 0, {})
  BY <1>2, Reexponed
<1>8. AddZeros(w, lhs, diffsign, set) = Work(Stored(s, 0, d, y), 0, {})
  <2>1. PICK v : v = Work(Stored(neg, 0, d, y), 0, {})
    OBVIOUS
  <2>2. AddZeros(w, lhs, diffsign, set) = [ v EXCEPT !.dn.neg = s ]
    BY <1>6, <1>7, <2>1
  <2>3. [ v EXCEPT !.dn.neg = s ] = Work(Stored(s, 0, d, y), 0, {})
    BY <2>1, SignSet
  <2> QED BY <2>2, <2>3
<1>9. AddZeros(w, lhs, diffsign, set) = Work(Finite(s, 0, y), 0, {})
  BY <1>1, <1>8, FiniteIsStored
<1> QED BY <1>4, <1>5, <1>9

\* decAddOp's path for a zero on the left.
LEMMA AddToZeroSum ==
  ASSUME NEW lhs, IsFinite(lhs), lhs.coeff = 0, NEW rhs, IsFinite(rhs),
         NEW set, Roomy(set), NEW negate \in BOOLEAN,
         NEW rneg \in BOOLEAN, Turned(rneg, rhs.neg, negate),
         NEW e \in Int, e = Smaller(lhs.exponent, rhs.exponent),
         NEW j \in Nat, j = rhs.exponent - e, NEW m \in Nat, m = rhs.coeff * Ten[j]
  PROVE  Outcome(AddToZero(lhs, rhs, set, negate)) = SumAt(lhs.neg, 0, rneg, m, e, set)
<1>1. PICK neg \in BOOLEAN, n \in Nat, x \in Int, z \in Int, lneg \in BOOLEAN :
           /\ neg = rhs.neg /\ n = rhs.coeff /\ x = rhs.exponent /\ z = lhs.exponent
           /\ rhs = Finite(neg, n, x) /\ lneg = lhs.neg
  BY DEF IsFinite
<1>2. j = Larger(0, x - z) /\ e = x - j /\ e = Smaller(z, x)
  BY <1>1, LowerExponent
<1>3. PICK copy : copy = CopyFit(rhs, set, 0, {})
  OBVIOUS
<1>4. PICK w : w = [ copy EXCEPT !.dn.neg = (@ # negate) ]
  OBVIOUS
<1>5. PICK k \in Nat : k = Larger(0, GetDigits(n) - set.digits)
  <2>1. set.digits \in Nat /\ GetDigits(n) \in Nat
    BY RoomyFacts, DigitsAre
  <2> QED BY <2>1 DEF Larger
<1>6. FirstCut(copy, neg, n, x, k)
  BY <1>1, <1>3, <1>5, CopyFitIs
<1>7. FirstCut(w, rneg, n, x, Larger(0, GetDigits(n) - set.digits))
  <2>1. Turned(rneg, neg, negate)
    BY <1>1
  <2>2. FirstCut(w, rneg, n, x, k)
    BY <1>4, <1>6, <2>1, Resigned
  <2> QED BY <1>5, <2>2
<1>8. PICK diffsign \in BOOLEAN :
           diffsign = DiffSign(lhs, rhs, negate) /\ (diffsign <=> lneg # rneg)
  <2>1. ((lneg # neg) # negate) = (lneg # rneg)
    <3>1. rneg = (neg # negate)
      BY <1>1 DEF Turned
    <3> QED BY <3>1
  <2>2. DiffSign(lhs, rhs, negate) = ((lneg # neg) # negate)
    BY <1>1 DEF DiffSign
  <2>3. (lneg # rneg) \in BOOLEAN
    OBVIOUS
  <2> QED BY <2>1, <2>2, <2>3
<1>9. AddToZero(lhs, rhs, set, negate)
        = Finalize(IF IsZero(w.dn) THEN AddZeros(w, lhs, diffsign, set)
                   ELSE PadTowards(w, z, set), set)
  BY <1>1, <1>3, <1>4, <1>8, Zenon DEF AddToZero
<1>10. IsZero(w.dn) <=> n = 0
  BY <1>7, CutZero
<1>11. CASE n # 0
  <2>1. Outcome(Finalize(PadTowards(w, z, set), set)) = RoundedOnce(rneg, m, x - j, set)
    <3>1. j = Larger(0, x - z) /\ m = n * Ten[j]
      BY <1>1, <1>2
    <3> QED BY <1>7, <1>11, <3>1, PaddedOnce
  <2>2. ~IsZero(w.dn)
    BY <1>10, <1>11
  <2>3. AddToZero(lhs, rhs, set, negate) = Finalize(PadTowards(w, z, set), set)
    BY <1>9, <2>2, Zenon
  <2>4. m # 0
    BY <1>1, <1>11, DigitsOfPadded
  <2>5. SumAt(lneg, 0, rneg, m, e, set) = RoundedOnce(rneg, m, e, set)
    BY <2>4, SumWithZero
  <2> QED BY <1>1, <1>2, <2>1, <2>3, <2>5
<1>12. CASE n = 0
  <2>1. FirstCut(w, rneg, 0, x, Larger(0, GetDigits(0) - set.digits))
    BY <1>7, <1>12
  <2>2. w = Work(Finite(rneg, 0, x), 0, {})
    BY <2>1, ZeroCut
  <2>3. PICK s : s = IF diffsign THEN set.round = "FLOOR" ELSE rneg
    OBVIOUS
  <2>4. AddZeros(w, lhs, diffsign, set) = Work(Finite(s, 0, e), 0, {})
    <3>1. lhs.exponent \in Int
      BY <1>1
    <3>2. AddZeros(w, lhs, diffsign, set)
           = Work(Finite(IF diffsign THEN set.round = "FLOOR" ELSE rneg, 0,
                         Smaller(lhs.exponent, x)), 0, {})
      BY <2>2, <3>1, AddZerosIs
    <3> QED BY <1>1, <1>2, <2>3, <3>2
  <2>5. AddToZero(lhs, rhs, set, negate) = Finalize(AddZeros(w, lhs, diffsign, set), set)
    <3>1. IsZero(w.dn)
      BY <1>10, <1>12
    <3> QED BY <1>9, <3>1, Zenon
  <2>6. Finalize(Work(Finite(s, 0, e), 0, {}), set)
          = ZeroWork(ZeroResult(s, e, set), {})
    BY FinalizeZero
  <2>7. Outcome(ZeroWork(ZeroResult(s, e, set), {})) = ZeroResult(s, e, set)
    BY ZeroOutcome
  <2>8. m = 0
    <3>1. Ten[j] \in Nat
      BY TenNat
    <3>2. 0 * Ten[j] = 0
      BY <3>1
    <3> QED BY <1>1, <1>12, <3>2
  <2>9. SumAt(lneg, 0, rneg, 0, e, set) = ZeroResult(s, e, set)
    <3>1. CASE lneg = rneg
      <4>1. s = rneg
        BY <1>8, <2>3, <3>1, Zenon
      <4>2. ZeroSign(s, lneg, rneg, set)
        BY <3>1, <4>1, Zenon DEF ZeroSign
      <4> QED BY <4>2, ZeroSum
    <3>2. CASE lneg # rneg
      <4>1. s = (set.round = "FLOOR")
        BY <1>8, <2>3, <3>2, Zenon
      <4>2. ZeroSign(s, lneg, rneg, set)
        BY <3>2, <4>1, Zenon DEF ZeroSign
      <4> QED BY <4>2, ZeroSum
    <3> QED BY <3>1, <3>2
  <2> QED BY <1>1, <2>4, <2>5, <2>6, <2>7, <2>8, <2>9
<1> QED BY <1>11, <1>12

\* A number of quot and low digits below it.
LEMMA DigitsScaled ==
  ASSUME NEW q \in Nat, q # 0, NEW t \in Nat, NEW low \in Nat, low < Ten[t],
         NEW n, n = Ten[t] * q + low
  PROVE  n \in Nat /\ n # 0 /\ GetDigits(n) = GetDigits(q) + t
<1>1. n \in Nat /\ n \div Ten[t] = q /\ n % Ten[t] = low
  <2>1. low < Ten[t] /\ n = Ten[t] * q + low
    OBVIOUS
  <2> QED BY <2>1, CutIs
<1>2. PICK s \in Nat : s = Ten[t] /\ s > 0
  BY TenNat
<1>3. s * q \in Nat /\ s * q >= s
  <2>1. s * q \in Nat
    BY <1>2
  <2>2. 1 * s <= q * s
    BY <1>2, Monotone
  <2>3. 1 * s = s /\ q * s = s * q
    BY <1>2
  <2> QED BY <2>1, <2>2, <2>3
<1>4. n >= Ten[t] /\ n # 0
  BY <1>2, <1>3
<1>5. t < GetDigits(n)
  <2>1. CASE t = 0
    BY <1>1, <2>1, DigitsAre
  <2>2. CASE t # 0
    <3>1. t >= 1
      BY <2>2
    <3> QED BY <1>1, <1>4, <3>1, DigitsOrder
  <2> QED BY <2>1, <2>2
<1>6. GetDigits(n \div Ten[t]) = GetDigits(n) - t
  BY <1>1, <1>5, DigitsKept
<1>7. GetDigits(n) \in Nat
  BY <1>1, DigitsAre
<1> QED BY <1>1, <1>4, <1>6, <1>7

\* 99..9, the number below a power of ten.
LEMMA NinesAre ==
  ASSUME NEW d \in Nat, d >= 1
  PROVE  /\ Ten[d] - 1 \in Nat /\ Ten[d] - 1 # 0 /\ GetDigits(Ten[d] - 1) = d
         /\ (Ten[d] - 1) % 5 = 4
<1>1. PICK i \in Nat : i = d - 1 /\ d = i + 1
  OBVIOUS
<1>2. PICK s \in Nat : s = Ten[i] /\ s > 0 /\ Ten[d] = 10 * s
  BY <1>1, TenNext, TenNat
<1>3. PICK c \in Nat : c = Ten[d] - 1 /\ c = 10 * s - 1 /\ c # 0 /\ c < Ten[d] /\ s <= c
  BY <1>2
<1>4. c % 5 = 4
  <2>1. c = 5 * (2 * s - 1) + 4
    BY <1>3
  <2> QED BY <1>2, <2>1
<1>5. GetDigits(c) = d
  BY <1>1, <1>2, <1>3, DigitsUnique
<1> QED BY <1>3, <1>4, <1>5

\* A number of quot less than a unit of its last place.
LEMMA LessIs ==
  ASSUME NEW c \in Nat, c # 0, NEW t \in Nat, NEW s \in Nat, s > 0, s < Ten[t],
         NEW n, n = Ten[t] * c - s
  PROVE  /\ n \in Nat /\ n # 0 /\ n \div Ten[t] = c - 1 /\ n % Ten[t] = Ten[t] - s
<1>1. PICK q \in Nat, low \in Nat, u \in Nat :
        q = c - 1 /\ u = Ten[t] /\ low = u - s /\ low < u /\ low # 0 /\ u > 0
  <2>1. PICK u \in Nat : u = Ten[t] /\ u > 0
    BY TenNat
  <2>2. c - 1 \in Nat /\ u - s \in Nat /\ u - s < u /\ u - s # 0
    BY <2>1
  <2> QED BY <2>1, <2>2
<1>2. n = Ten[t] * q + low
  <2>1. u * (q + 1) - s = u * q + (u - s)
    BY <1>1
  <2> QED BY <1>1, <2>1
<1>3. n \in Nat /\ n \div Ten[t] = q /\ n % Ten[t] = low
  <2>1. low < Ten[t]
    BY <1>1
  <2> QED BY <1>2, <2>1, CutIs
<1>4. n # 0
  <2>1. u * q \in Nat
    BY <1>1
  <2> QED BY <1>1, <1>2, <2>1
<1>6. n \div Ten[t] = c - 1 /\ n % Ten[t] = Ten[t] - s
  BY <1>1, <1>3
<1> QED BY <1>3, <1>4, <1>6

\* It has as many digits as that number, unless that is a power of ten.
LEMMA LessDigits ==
  ASSUME NEW c \in Nat, c # 0, c # Ten[GetDigits(c) - 1],
         NEW t \in Nat, NEW s \in Nat, s > 0, s < Ten[t],
         NEW n, n = Ten[t] * c - s
  PROVE  GetDigits(n) = GetDigits(c) + t
<1>1. PICK q \in Nat, low \in Nat, u \in Nat :
        q = c - 1 /\ u = Ten[t] /\ low = u - s /\ low < u /\ low # 0 /\ u > 0
  <2>1. PICK u \in Nat : u = Ten[t] /\ u > 0
    BY TenNat
  <2>2. c - 1 \in Nat /\ u - s \in Nat /\ u - s < u /\ u - s # 0
    BY <2>1
  <2> QED BY <2>1, <2>2
<1>2. n = Ten[t] * q + low
  <2>1. u * (q + 1) - s = u * q + (u - s)
    BY <1>1
  <2> QED BY <1>1, <2>1
<1>3. PICK d \in Nat, i \in Nat :
         d = GetDigits(c) /\ d >= 1 /\ i = d - 1 /\ d = i + 1 /\ c < Ten[d] /\ (d > 1 => Ten[i] <= c)
  <2>1. /\ GetDigits(c) \in Nat /\ GetDigits(c) >= 1 /\ c < Ten[GetDigits(c)]
        /\ (GetDigits(c) > 1 => Ten[GetDigits(c) - 1] <= c)
    BY DigitsAre
  <2> QED BY <2>1
<1>4. c # Ten[i] /\ Ten[i] \in Nat /\ Ten[d] \in Nat
  BY <1>3, TenNat
<1>5. d = 1 => Ten[i] = 1
  <2>1. d = 1 => i = 0
    BY <1>3
  <2> QED BY <2>1, TenSmall
<1>6. q < Ten[d] /\ (d > 1 => Ten[i] <= q) /\ q # 0
  BY <1>1, <1>3, <1>4, <1>5, TenNat
<1>7. GetDigits(q) = d
  BY <1>3, <1>6, DigitsUnique
<1>8. GetDigits(n) = GetDigits(q) + t
  BY <1>1, <1>2, <1>6, DigitsScaled
<1> QED BY <1>3, <1>7, <1>8

\* n is c * 10^t less something under a hundredth of the last place of c.
JustLess(n, c, t, k, s) ==
  /\ t = k + 1
  /\ s > 0
  /\ 10 * s <= Ten[k]
  /\ n = Ten[t] * c - s

\* Just below a power of ten there is one digit less: 99..9 and a fraction.
LEMMA LessThanTen ==
  ASSUME NEW i \in Nat, NEW t \in Nat, NEW k \in Nat, NEW s \in Nat,
         NEW n, JustLess(n, Ten[i], t, k, s)
  PROVE  /\ n \in Nat /\ n # 0 /\ GetDigits(n) = i + t
         /\ n \div Ten[k] = Ten[i + 1] - 1 /\ n % Ten[k] = Ten[k] - s
<1>0. t = k + 1 /\ s > 0 /\ s < Ten[k] /\ n = Ten[t] * Ten[i] - s
  <2>1. Ten[k] \in Nat
    BY TenNat
  <2> QED BY <2>1 DEF JustLess
<1>1. PICK q \in Nat, low \in Nat, u \in Nat :
        q = Ten[i + 1] - 1 /\ q # 0 /\ GetDigits(q) = i + 1
        /\ u = Ten[k] /\ low = u - s /\ low < u /\ u > 0
  <2>1. i + 1 \in Nat /\ i + 1 >= 1
    OBVIOUS
  <2>2. Ten[i + 1] - 1 \in Nat /\ Ten[i + 1] - 1 # 0 /\ GetDigits(Ten[i + 1] - 1) = i + 1
    BY <2>1, NinesAre
  <2>3. PICK u \in Nat : u = Ten[k] /\ u > 0
    BY TenNat
  <2>4. u - s \in Nat /\ u - s < u
    BY <1>0, <2>3
  <2> QED BY <2>2, <2>3, <2>4
<1>2. PICK c \in Nat : Ten[t] = 10 * u /\ q = 10 * c - 1 /\ c = Ten[i]
  BY <1>0, <1>1, TenNext, TenNat
<1>3. n = Ten[k] * q + low
  <2>1. (10 * u) * c - s = u * (10 * c - 1) + (u - s)
    BY <1>1, <1>2
  <2> QED BY <1>0, <1>1, <1>2, <2>1
<1>6. low < Ten[k]
  BY <1>1
<1>4. n \in Nat /\ n \div Ten[k] = q /\ n % Ten[k] = low
  <2>1. n \in Nat
    <3>1. u * q \in Nat
      BY <1>1
    <3> QED BY <1>1, <1>3, <3>1
  <2>2. low < Ten[k] /\ n = Ten[k] * q + low
    BY <1>3, <1>6
  <2>3. n \div Ten[k] = q /\ n % Ten[k] = low
    BY <2>2, CutIs
  <2> QED BY <2>1, <2>3
<1>5. n # 0 /\ GetDigits(n) = GetDigits(q) + k
  <2>1. q # 0
    BY <1>1
  <2> QED BY <1>3, <1>6, <2>1, DigitsScaled
<1> QED BY <1>0, <1>1, <1>4, <1>5

\* What the cut of m digits of c leaves of c * 10^t - s.
LeftOf(left, c, m, t, s) == left = (c % Ten[m]) * Ten[t] - s

\* The two cuts of c * 10^t - s leave the same to round.
CutTogether(neg, c, m, t, left, n, i, round) ==
  /\ n % Ten[i] # 0 /\ n % Ten[i] \in Nat /\ n \div Ten[i] \in Nat
  /\ Rounded(neg, c \div Ten[m], left, Ten[m] * Ten[t], round)
       = Rounded(neg, n \div Ten[i], n % Ten[i], Ten[i], round)

\* Cutting m digits of c and then a little less is one cut of the difference.
LEMMA CutBelow ==
  ASSUME NEW neg, NEW round, NEW c \in Nat, c # 0, NEW m \in Nat, NEW t \in Nat,
         NEW k \in Nat, NEW s \in Nat, NEW n, JustLess(n, c, t, k, s),
         NEW left \in Int, LeftOf(left, c, m, t, s)
  PROVE  CutTogether(neg, c, m, t, left, n, m + t, round)
<1>i. PICK i \in Nat : i = m + t
  OBVIOUS
<1>0. s > 0 /\ s < Ten[t] /\ n = Ten[t] * c - s /\ left = (c % Ten[m]) * Ten[t] - s
  <2>1. s > 0 /\ 10 * s <= Ten[k] /\ n = Ten[t] * c - s /\ t = k + 1
    BY DEF JustLess
  <2>2. Ten[t] = 10 * Ten[k] /\ Ten[k] \in Nat
    BY <2>1, TenNext, TenNat
  <2>3. left = (c % Ten[m]) * Ten[t] - s
    BY DEF LeftOf
  <2> QED BY <2>1, <2>2, <2>3
<1>1. PICK q \in Nat, l \in Nat, u \in Nat :
        q = c \div Ten[m] /\ l = c % Ten[m] /\ u = Ten[m] /\ l < u /\ c = u * q + l
  <2>1. /\ c \div Ten[m] \in Nat /\ c % Ten[m] \in Nat /\ c % Ten[m] < Ten[m]
        /\ c = Ten[m] * (c \div Ten[m]) + (c % Ten[m])
    BY CutAt
  <2>2. Ten[m] \in Nat
    BY TenNat
  <2> QED BY <2>1, <2>2, Zenon
<1>2. PICK v \in Nat, p \in Nat : v = Ten[t] /\ v > 0 /\ s < v /\ p = u * v /\ p = Ten[i]
  <2>1. PICK v \in Nat : v = Ten[t] /\ v > 0 /\ s < v
    BY <1>0, TenNat
  <2>2. u * v \in Nat
    BY <2>1
  <2>3. Ten[m + t] = Ten[m] * Ten[t]
    BY TenSum
  <2> QED BY <1>i, <1>1, <2>1, <2>2, <2>3
<1>3. left = l * v - s
  BY <1>0, <1>1, <1>2
<1>4. n = p * q + left
  <2>1. v * (u * q + l) - s = (u * v) * q + (l * v - s)
    OBVIOUS
  <2> QED BY <1>0, <1>1, <1>2, <1>3, <2>1
<1>5. left # 0 /\ (left < 0 => l = 0)
  <2>1. CASE l = 0
    <3>1. l * v = 0
      BY <2>1, <1>2
    <3> QED BY <1>0, <2>1, <3>1, <1>3
  <2>2. CASE l # 0
    <3>1. 1 * v <= l * v /\ 1 * v = v /\ l * v \in Nat
      BY <2>2, Monotone
    <3> QED BY <1>2, <1>3, <3>1
  <2> QED BY <2>1, <2>2
<1>6. Rounded(neg, c \div Ten[m], left, Ten[m] * Ten[t], round)
        = Rounded(neg, q, left, p, round)
  BY <1>1, <1>2
<1>7. ASSUME left >= 0
      PROVE  CutTogether(neg, c, m, t, left, n, i, round)
  <2>1. left < p
    <3>1. PICK b \in Int : b = l + 1 /\ b <= u
      BY <1>1
    <3>2. b * v <= u * v
      BY <3>1, Monotone
    <3>3. b * v = l * v + v
      BY <3>1
    <3>4. l * v \in Nat /\ u * v \in Nat
      OBVIOUS
    <3> QED BY <1>2, <1>3, <3>2, <3>3, <3>4
  <2>2. left \in Nat /\ left < Ten[i] /\ n = Ten[i] * q + left
    BY <1>2, <1>4, <1>7, <2>1
  <2>3. n \div Ten[i] = q /\ n % Ten[i] = left
    <3>1. PICK low \in Nat : low = left
      BY <2>2
    <3>2. low < Ten[i] /\ n = Ten[i] * q + low
      BY <2>2, <3>1
    <3>3. n \div Ten[i] = q /\ n % Ten[i] = low
      BY <3>2, CutIs
    <3> QED BY <3>1, <3>3
  <2> QED BY <1>2, <1>5, <1>6, <2>2, <2>3 DEF CutTogether
<1>8. ASSUME left < 0
      PROVE  CutTogether(neg, c, m, t, left, n, i, round)
  <2>1. l = 0 /\ left = -s
    <3>1. l = 0
      BY <1>5, <1>8
    <3>2. l * v = 0
      BY <3>1, <1>2
    <3> QED BY <1>3, <3>1, <3>2
  <2>2. q # 0
    <3>1. q = 0 => u * q = 0
      OBVIOUS
    <3> QED BY <1>1, <2>1, <3>1
  <2>3. PICK b \in Nat, low \in Nat : b = q - 1 /\ low = p + left /\ low < p /\ low # 0
    <3>1. s < p
      <4>1. u # 0
        BY <1>1
      <4>2. 1 * v <= u * v /\ 1 * v = v
        BY <4>1, Monotone
      <4> QED BY <1>2, <4>2
    <3>2. p - s \in Nat /\ p - s < p /\ p - s # 0 /\ q - 1 \in Nat
      BY <1>0, <2>2, <3>1
    <3>3. p + left = p - s
      BY <2>1
    <3> QED BY <3>2, <3>3
  <2>4. n = Ten[i] * b + low
    <3>1. p * q + left = p * (q - 1) + (p + left)
      OBVIOUS
    <3> QED BY <1>2, <1>4, <2>3, <3>1
  <2>5. n \div Ten[i] = b /\ n % Ten[i] = low
    <3>1. low < Ten[i]
      BY <1>2, <2>3
    <3> QED BY <2>4, <3>1, CutIs
  <2>6. Rounded(neg, q, left, p, round) = Rounded(neg, b, low, p, round)
    <3>1. Rounded(neg, q, left, p, round)
            = b + (IF Away(neg, b, low, p, round) THEN 1 ELSE 0)
      BY <1>8, <2>3 DEF Rounded
    <3>2. ~(low < 0)
      OBVIOUS
    <3>3. Rounded(neg, b, low, p, round)
            = b + (IF Away(neg, b, low, p, round) THEN 1 ELSE 0)
      BY <3>2 DEF Rounded
    <3> QED BY <3>1, <3>3
  <2> QED BY <1>2, <1>6, <2>3, <2>5, <2>6 DEF CutTogether
<1>9. CutTogether(neg, c, m, t, left, n, i, round)
  BY <1>7, <1>8
<1> QED BY <1>9, <1>i

\* A fraction below a half rounds the same whatever it is a fraction of.
LEMMA SameFraction ==
  ASSUME NEW neg, NEW round \in Roundings, NEW n \in Nat, n # 0,
         NEW p \in Nat, 2 * n < p, NEW u \in Nat, 2 * n < u
  PROVE  Rounded(neg, 0, n, p, round) = Rounded(neg, 0, n, u, round)
<1>1. Away(neg, 0, n, p, round) = Away(neg, 0, n, u, round)
  <2>1. (2 * n >= p) = FALSE /\ (2 * n >= u) = FALSE
        /\ (2 * n > p) = FALSE /\ (2 * n > u) = FALSE
        /\ (2 * n = p) = FALSE /\ (2 * n = u) = FALSE
    OBVIOUS
  <2> QED BY <2>1 DEF Away
<1>2. ~(n < 0)
  OBVIOUS
<1> QED BY <1>1, <1>2 DEF Rounded

\* A quotient by ten or more, rounded up, is no more than a tenth.
LEMMA QuotientSmall ==
  ASSUME NEW c \in Nat, NEW p \in Nat, p >= 1, c < Ten[p], NEW m \in Nat, m >= 1
  PROVE  c \div Ten[m] \in Nat /\ (c \div Ten[m]) + 1 <= Ten[p - 1]
<1>1. PICK q \in Nat, l \in Nat, u \in Nat :
        q = c \div Ten[m] /\ l = c % Ten[m] /\ u = Ten[m] /\ l < u /\ c = u * q + l
  <2>1. /\ c \div Ten[m] \in Nat /\ c % Ten[m] \in Nat /\ c % Ten[m] < Ten[m]
        /\ c = Ten[m] * (c \div Ten[m]) + (c % Ten[m])
    BY CutAt
  <2>2. Ten[m] \in Nat
    BY TenNat
  <2> QED BY <2>1, <2>2, Zenon
<1>2. u >= 10
  <2>1. Ten[1] <= Ten[m] /\ Ten[1] = 10
    BY TenMonotone, TenSmall
  <2> QED BY <1>1, <2>1
<1>3. PICK i \in Nat : i = p - 1 /\ p = i + 1
  OBVIOUS
<1>4. PICK v \in Nat : v = Ten[i] /\ Ten[p] = 10 * v
  BY <1>3, TenNext, TenNat
<1>5. 10 * q <= c
  <2>1. 10 * q <= u * q /\ u * q \in Nat
    BY <1>2, Monotone
  <2> QED BY <1>1, <2>1
<1>6. q + 1 <= v
  BY <1>4, <1>5
<1> QED BY <1>1, <1>3, <1>4, <1>6

\* What it means to be just less than c * 10^t.
LEMMA JustLessIs ==
  ASSUME NEW c \in Nat, c # 0, NEW t \in Nat, NEW k \in Nat, NEW s \in Nat,
         NEW n, JustLess(n, c, t, k, s)
  PROVE  /\ t = k + 1 /\ s > 0 /\ 10 * s <= Ten[k] /\ s < Ten[k] /\ s < Ten[t]
         /\ Ten[t] = 10 * Ten[k] /\ n = Ten[t] * c - s
         /\ n \in Nat /\ n # 0 /\ n \div Ten[t] = c - 1 /\ n % Ten[t] = Ten[t] - s
         /\ GetDigits(n) \in {GetDigits(c) + t, GetDigits(c) + t - 1}
         /\ c # Ten[GetDigits(c) - 1] => GetDigits(n) = GetDigits(c) + t
         /\ c = Ten[GetDigits(c) - 1] =>
              /\ GetDigits(n) = GetDigits(c) + t - 1
              /\ n \div Ten[k] = Ten[GetDigits(c)] - 1 /\ n % Ten[k] = Ten[k] - s
<1>1. t = k + 1 /\ s > 0 /\ 10 * s <= Ten[k] /\ n = Ten[t] * c - s
  BY DEF JustLess
<1>2. Ten[t] = 10 * Ten[k] /\ Ten[k] \in Nat
  BY <1>1, TenNext, TenNat
<1>3. s < Ten[k] /\ s < Ten[t]
  BY <1>1, <1>2
<1>4. n \in Nat /\ n # 0 /\ n \div Ten[t] = c - 1 /\ n % Ten[t] = Ten[t] - s
  BY <1>1, <1>3, LessIs
<1>5. PICK d \in Nat, i \in Nat : d = GetDigits(c) /\ i = d - 1 /\ d = i + 1
  <2>1. GetDigits(c) \in Nat /\ GetDigits(c) >= 1
    BY DigitsAre
  <2> QED BY <2>1
<1>6. ASSUME c # Ten[GetDigits(c) - 1] PROVE GetDigits(n) = GetDigits(c) + t
  BY <1>1, <1>3, <1>6, LessDigits
<1>7. ASSUME c = Ten[GetDigits(c) - 1]
      PROVE  /\ GetDigits(n) = GetDigits(c) + t - 1
             /\ n \div Ten[k] = Ten[GetDigits(c)] - 1 /\ n % Ten[k] = Ten[k] - s
  <2>1. c = Ten[i]
    BY <1>5, <1>7
  <2>2. /\ GetDigits(n) = i + t
        /\ n \div Ten[k] = Ten[i + 1] - 1 /\ n % Ten[k] = Ten[k] - s
    <3>1. JustLess(n, Ten[i], t, k, s)
      BY <2>1
    <3> QED BY <3>1, LessThanTen
  <2>3. i + t = GetDigits(c) + t - 1 /\ Ten[i + 1] = Ten[GetDigits(c)]
    BY <1>5
  <2> QED BY <2>2, <2>3
<1>8. GetDigits(n) \in {GetDigits(c) + t, GetDigits(c) + t - 1}
  BY <1>6, <1>7
<1> QED BY <1>1, <1>2, <1>3, <1>4, <1>6, <1>7, <1>8

\* A coefficient no longer than the precision.
LEMMA DigitsFit ==
  ASSUME NEW y \in Nat, NEW p \in Nat, p >= 1, y < Ten[p]
  PROVE  GetDigits(y) <= p
<1>1. Ten[p] \in Nat /\ GetDigits(y) \in Nat /\ ~(y >= Ten[p])
  BY TenNat, DigitsAre
<1>2. ~(GetDigits(y) > p)
  BY <1>1, DigitsOrder
<1> QED BY <1>1, <1>2

\* The digits the code cuts from c and the reference from n, where a are below the
\* smallest exponent.
TinyCuts(a, c, m, t, n, h) ==
  m = Smaller(a, GetDigits(c) + 1) /\ h = Smaller(a + t, GetDigits(n) + 1)

\* The reference cuts of the difference are as long as those of the code, or leave
\* a fraction below a twentieth.
LEMMA TinyCutBelow ==
  ASSUME NEW neg, NEW round \in Roundings, NEW c \in Nat, c # 0,
         NEW t \in Nat, NEW k \in Nat, NEW s \in Nat, NEW n, JustLess(n, c, t, k, s),
         NEW a \in Nat, NEW m \in Nat, NEW h \in Nat, TinyCuts(a, c, m, t, n, h),
         NEW left \in Int, LeftOf(left, c, m, t, s)
  PROVE  CutTogether(neg, c, m, t, left, n, h, round)
<1>0. m = Smaller(a, GetDigits(c) + 1) /\ h = Smaller(a + t, GetDigits(n) + 1)
  BY DEF TinyCuts
<1>1. /\ t = k + 1 /\ s > 0 /\ s < Ten[t] /\ n = Ten[t] * c - s
      /\ n \in Nat /\ n # 0
      /\ GetDigits(n) \in {GetDigits(c) + t, GetDigits(c) + t - 1}
  BY JustLessIs
<1>2. PICK d \in Nat, g \in Nat : d = GetDigits(c) /\ g = GetDigits(n) /\ g \in {d + t, d + t - 1}
                                  /\ n < Ten[g] /\ g >= 1
  <2>1. GetDigits(c) \in Nat /\ GetDigits(n) \in Nat /\ n < Ten[GetDigits(n)]
        /\ GetDigits(n) >= 1
    BY <1>1, DigitsAre
  <2> QED BY <1>1, <2>1
<1>3. PICK i \in Nat : i = m + t
  OBVIOUS
<1>4. /\ n % Ten[i] # 0 /\ n % Ten[i] \in Nat /\ n \div Ten[i] \in Nat
      /\ Rounded(neg, c \div Ten[m], left, Ten[m] * Ten[t], round)
           = Rounded(neg, n \div Ten[i], n % Ten[i], Ten[i], round)
  <2>1. CutTogether(neg, c, m, t, left, n, m + t, round)
    BY CutBelow
  <2>2. CutTogether(neg, c, m, t, left, n, i, round)
    BY <1>3, <2>1
  <2> QED BY <2>2 DEF CutTogether
<1>5. CASE h = i
  BY <1>4, <1>5 DEF CutTogether
<1>6. CASE h # i
  <2>1. i = g + 2 /\ h = g + 1
    BY <1>0, <1>2, <1>3, <1>6 DEF Smaller
  <2>2. PICK u \in Nat, v \in Nat, w \in Nat :
          u = Ten[g] /\ v = Ten[h] /\ w = Ten[i] /\ v = 10 * u /\ w = 10 * v
    <3>1. Ten[g + 1] = 10 * Ten[g] /\ Ten[(g + 1) + 1] = 10 * Ten[g + 1]
      BY TenNext
    <3>2. Ten[g] \in Nat /\ Ten[g + 1] \in Nat /\ Ten[(g + 1) + 1] \in Nat /\ (g + 1) + 1 = g + 2
      BY TenNat
    <3> QED BY <2>1, <3>1, <3>2
  <2>3. n < u /\ 2 * n < v /\ 2 * n < w /\ n < v /\ n < w
    BY <1>1, <1>2, <2>2
  <2>4. n \div Ten[h] = 0 /\ n % Ten[h] = n
    <3>1. n = Ten[h] * 0 + n /\ n < Ten[h]
      BY <1>1, <2>2, <2>3
    <3> QED BY <1>1, <3>1, CutIs
  <2>5. n \div Ten[i] = 0 /\ n % Ten[i] = n
    <3>1. n = Ten[i] * 0 + n /\ n < Ten[i]
      BY <1>1, <2>2, <2>3
    <3> QED BY <1>1, <3>1, CutIs
  <2>6. Rounded(neg, 0, n, w, round) = Rounded(neg, 0, n, v, round)
    BY <1>1, <2>3, SameFraction
  <2> QED BY <1>1, <1>4, <2>2, <2>4, <2>5, <2>6 DEF CutTogether
<1> QED BY <1>5, <1>6

\* The flags of a result that was shortened for its precision, and those of one
\* that was shortened for its range.
Lossy == {"Inexact", "Rounded"}
TinyLossy == {"Inexact", "Rounded", "Subnormal", "Underflow"}

\* A tiny result that lost digits underflows.
LEMMA TinyLossyIs ==
  ASSUME NEW left, NEW flags, flags = TinyFlags(Lossy, left)
  PROVE  flags \cup UnderflowIf(flags) = TinyLossy
<1>1. "Inexact" \in flags
  BY DEF TinyFlags, Lossy
<1>2. flags = {"Inexact", "Rounded", "Subnormal"}
  BY DEF TinyFlags, Lossy, InexactIf
<1> QED BY <1>1, <1>2 DEF UnderflowIf, TinyLossy

\* The flags the reference reports for a difference that loses digits.
LEMMA LossIs ==
  ASSUME NEW n, NEW e \in Int, NEW set, set.emin \in Int, GetDigits(n) \in Nat,
         NEW drop \in Int, drop > 0,
         NEW h, h = Smaller(drop, GetDigits(n) + 1), n % Ten[h] # 0
  PROVE  /\ e + GetDigits(n) - 1 < set.emin => Loss(n, e, drop, set) = TinyLossy
         /\ ~(e + GetDigits(n) - 1 < set.emin) => Loss(n, e, drop, set) = Lossy
<1>1. n % Power(n, drop) # 0
  BY DEF Power
<1> QED BY <1>1 DEF Loss, TinyLossy, Lossy

\* A result just below c * 10^x that is subnormal: the digits below the smallest
\* exponent are cut from c, and the little that is missing rounds with them.
LEMMA BelowTiny ==
  ASSUME NEW neg \in BOOLEAN, NEW set, Roomy(set),
         NEW c \in Nat, c # 0, GetDigits(c) = set.digits,
         NEW t \in Nat, NEW k \in Nat, NEW s \in Nat, NEW n, JustLess(n, c, t, k, s),
         NEW e \in Int, NEW x \in Int, x = e + t, x < Etiny(set),
         NEW r \in Int, StandsFor(r, -s, Ten[t])
  PROVE  Outcome(Finalize(Work(Finite(neg, c, x), r, Lossy), set))
           = NonZeroResult(neg, n, e, set)
<1>1. /\ set.digits \in Nat /\ set.digits >= 1 /\ set.emin \in Int
      /\ Etiny(set) \in Int /\ Etiny(set) = set.emin - set.digits + 1
      /\ set.round \in Roundings
  BY RoomyFacts
<1>2. /\ t = k + 1 /\ s > 0 /\ s < Ten[t] /\ n = Ten[t] * c - s
      /\ n \in Nat /\ n # 0
      /\ GetDigits(n) \in {GetDigits(c) + t, GetDigits(c) + t - 1}
  BY JustLessIs
<1>3. PICK p \in Nat, g \in Nat, tiny \in Int :
        /\ p = set.digits /\ p = GetDigits(c) /\ p >= 1
        /\ g = GetDigits(n) /\ g \in {p + t, p + t - 1} /\ tiny = Etiny(set)
        /\ tiny = set.emin - p + 1
  BY <1>1, <1>2
<1>4. PICK a \in Nat : a = tiny - x /\ a >= 1
  BY <1>3
<1>5. PICK m \in Nat : m = Smaller(a, GetDigits(c) + 1) /\ m >= 1
  BY <1>3, <1>4 DEF Smaller
<1>6. PICK drop \in Int, h \in Nat :
        drop = a + t /\ h = Smaller(drop, GetDigits(n) + 1) /\ drop > 0 /\ e + drop = tiny
  BY <1>3, <1>4 DEF Smaller
<1>7. PICK left \in Int : LeftOf(left, c, m, t, s) /\ left = (c % Ten[m]) * Ten[t] + (-s)
  <2>1. PICK l \in Nat, v \in Nat : l = c % Ten[m] /\ v = Ten[t]
    BY CutAt, TenNat
  <2>2. l * v - s \in Int /\ l * v - s = l * v + (-s)
    OBVIOUS
  <2> QED BY <2>1, <2>2 DEF LeftOf
<1>8. PICK y : y = Rounded(neg, c \div Ten[m], left, Ten[m] * Ten[t], set.round)
  OBVIOUS
<1>9. PICK flags : flags = TinyFlags(Lossy, left)
  OBVIOUS
<1>10. Outcome(Finalize(Work(Finite(neg, c, x), r, Lossy), set)) = TinyResult(neg, y, tiny, flags)
  <2>1. PICK v \in Nat, rest \in Int : v = Ten[t] /\ v > 0 /\ rest = -s /\ rest < v
    BY TenNat
  <2>2. StandsFor(r, rest, v)
    BY <2>1
  <2>3. Marks(Prior(r), rest, v)
    BY <2>1, <2>2, PriorMarks
  <2>4. GetDigits(c) <= set.digits /\ (rest < 0 => GetDigits(c) = set.digits)
    BY <1>1
  <2>5. m = Smaller(Etiny(set) - x, GetDigits(c) + 1)
    BY <1>3, <1>4, <1>5
  <2>6. left = (c % Ten[m]) * v + rest
    BY <1>7, <2>1
  <2>7. FinalizedTiny(neg, c, x, r, Lossy, set, m, left, v)
    BY <2>1, <2>3, <2>4, <2>5, <2>6, FinalizeSubnormal
  <2> QED BY <1>3, <1>8, <1>9, <2>1, <2>7 DEF FinalizedTiny
<1>11. /\ n % Ten[h] # 0 /\ n % Ten[h] \in Nat /\ n \div Ten[h] \in Nat
       /\ y = Rounded(neg, n \div Ten[h], n % Ten[h], Ten[h], set.round)
  <2>1. TinyCuts(a, c, m, t, n, h)
    BY <1>5, <1>6 DEF TinyCuts
  <2>2. CutTogether(neg, c, m, t, left, n, h, set.round)
    BY <1>1, <1>7, <2>1, TinyCutBelow
  <2> QED BY <1>8, <2>2 DEF CutTogether
<1>12. Excess(n, e, set) = drop
  BY <1>1, <1>3, <1>4, <1>6 DEF Excess, Larger
<1>13. e + g - 1 < set.emin
  BY <1>1, <1>3, <1>4, <1>6
<1>14. Loss(n, e, drop, set) = flags \cup UnderflowIf(flags)
  <2>1. Loss(n, e, drop, set) = TinyLossy
    BY <1>1, <1>3, <1>6, <1>11, <1>13, LossIs
  <2>2. flags \cup UnderflowIf(flags) = TinyLossy
    BY <1>9, TinyLossyIs
  <2> QED BY <2>1, <2>2
<1>15. NonZeroResult(neg, n, e, set) = Placed(neg, y, tiny, flags \cup UnderflowIf(flags), set)
  <2>1. PICK loss : loss = flags \cup UnderflowIf(flags)
    OBVIOUS
  <2>2. Loss(n, e, drop, set) = loss
    BY <1>14, <2>1
  <2>3. NonZeroResult(neg, n, e, set)
          = Placed(neg, Rounded(neg, n \div Ten[h], n % Ten[h], Ten[h], set.round),
                   e + drop, loss, set)
    BY <1>2, <1>6, <1>12, <2>2, NonZeroIs
  <2> QED BY <1>6, <1>11, <2>1, <2>3
<1>16. y \in Nat /\ GetDigits(y) <= set.digits /\ tiny + GetDigits(y) - 1 <= set.emin
  <2>1. PICK q \in Nat : q = c \div Ten[m] /\ q + 1 <= Ten[p - 1]
    <3>1. c < Ten[p]
      BY <1>3, DigitsAre
    <3>2. c \div Ten[m] \in Nat /\ (c \div Ten[m]) + 1 <= Ten[p - 1]
      BY <1>3, <1>5, <3>1, QuotientSmall
    <3> QED BY <3>2
  <2>2. y \in {q - 1, q, q + 1}
    <3>1. left >= 0 => y \in {q, q + 1}
      BY <1>8, <2>1, RoundedRange
    <3>2. left < 0 => y \in {q - 1, q}
      BY <1>8, <2>1, RoundedRange
    <3> QED BY <3>1, <3>2
  <2>3. y \in Nat
    <3>1. PICK b \in Nat, low \in Nat : b = n \div Ten[h] /\ low = n % Ten[h]
      BY <1>11
    <3>2. y = Rounded(neg, b, low, Ten[h], set.round)
      BY <1>11, <3>1
    <3>3. y \in {b, b + 1}
      BY <3>2, RoundedRange
    <3> QED BY <3>3
  <2>4. y < Ten[p]
    <3>1. PICK i \in Nat : i = p - 1 /\ p = i + 1
      BY <1>3
    <3>2. Ten[i + 1] = 10 * Ten[i] /\ Ten[i] \in Nat /\ Ten[i] > 0
      BY TenNext, TenNat
    <3>3. q + 1 <= Ten[i] /\ Ten[p] = 10 * Ten[i]
      BY <2>1, <3>1, <3>2
    <3> QED BY <2>2, <2>3, <3>2, <3>3
  <2>5. GetDigits(y) <= p /\ GetDigits(y) \in Nat
    BY <1>3, <2>3, <2>4, DigitsFit, DigitsAre
  <2> QED BY <1>1, <1>3, <2>3, <2>5
<1>17. Placed(neg, y, tiny, flags \cup UnderflowIf(flags), set) = TinyResult(neg, y, tiny, flags)
  BY <1>16, PlacedTiny
<1> QED BY <1>10, <1>15, <1>17

\* A coefficient less a fraction rounds as the one below it and the rest.
LEMMA RoundedBelow ==
  ASSUME NEW neg, NEW c \in Nat, NEW u \in Nat, NEW s \in Nat, s > 0, s < u, NEW round
  PROVE  Rounded(neg, c, -s, u, round) = Rounded(neg, c - 1, u - s, u, round)
<1>1. PICK rest \in Int, low \in Nat : rest = -s /\ low = u - s /\ low = u + rest /\ rest < 0
  OBVIOUS
<1>2. Rounded(neg, c, rest, u, round)
        = c - 1 + (IF Away(neg, c - 1, low, u, round) THEN 1 ELSE 0)
  BY <1>1 DEF Rounded
<1>3. ~(low < 0)
  OBVIOUS
<1>4. Rounded(neg, c - 1, low, u, round)
        = c - 1 + (IF Away(neg, c - 1, low, u, round) THEN 1 ELSE 0)
  BY <1>3 DEF Rounded
<1> QED BY <1>1, <1>2, <1>4

\* A result just below c * 10^x that is normal, and not below a power of ten.
LEMMA BelowNormal ==
  ASSUME NEW neg \in BOOLEAN, NEW set, Roomy(set),
         NEW c \in Nat, c # 0, GetDigits(c) = set.digits, c # Ten[GetDigits(c) - 1],
         NEW t \in Nat, NEW k \in Nat, NEW s \in Nat, NEW n, JustLess(n, c, t, k, s),
         NEW e \in Int, NEW x \in Int, x = e + t, x >= Etiny(set),
         NEW r \in Int, StandsFor(r, -s, Ten[t])
  PROVE  Outcome(Finalize(Work(Finite(neg, c, x), r, Lossy), set))
           = NonZeroResult(neg, n, e, set)
<1>1. /\ set.digits \in Nat /\ set.digits >= 1 /\ set.emin \in Int
      /\ Etiny(set) \in Int /\ Etiny(set) = set.emin - set.digits + 1
      /\ set.round \in Roundings
  BY RoomyFacts
<1>2. /\ t = k + 1 /\ s > 0 /\ s < Ten[t]
      /\ n \in Nat /\ n # 0 /\ GetDigits(n) = GetDigits(c) + t
      /\ n \div Ten[t] = c - 1 /\ n % Ten[t] = Ten[t] - s
  BY JustLessIs
<1>3. PICK p \in Nat, g \in Nat :
        p = set.digits /\ p = GetDigits(c) /\ p >= 1 /\ g = GetDigits(n) /\ g = p + t
  BY <1>1, <1>2
<1>4. PICK u \in Nat, rest \in Int : u = Ten[t] /\ u > 0 /\ rest = -s /\ rest < 0 /\ rest < u
  BY <1>2, TenNat
<1>5. PICK y : y = Rounded(neg, c, rest, u, set.round)
  OBVIOUS
<1>6. Outcome(Finalize(Work(Finite(neg, c, x), r, Lossy), set)) = Placed(neg, y, x, Lossy, set)
  <2>1. /\ GetDigits(c) <= set.digits /\ x + GetDigits(c) - 1 >= set.emin
        /\ (rest # 0 => GetDigits(c) = set.digits) /\ (rest < 0 => c # Ten[GetDigits(c) - 1])
    BY <1>1, <1>3
  <2>2. StandsFor(r, rest, u)
    BY <1>4
  <2> QED BY <1>4, <1>5, <2>1, <2>2, FinalizeNormal
<1>7. y = Rounded(neg, n \div Ten[t], n % Ten[t], Ten[t], set.round)
  <2>1. Rounded(neg, c, -s, u, set.round) = Rounded(neg, c - 1, u - s, u, set.round)
    BY <1>2, <1>4, RoundedBelow
  <2> QED BY <1>2, <1>4, <1>5, <2>1
<1>8. Excess(n, e, set) = t /\ Smaller(t, GetDigits(n) + 1) = t /\ t > 0
  BY <1>1, <1>2, <1>3 DEF Excess, Larger, Smaller
<1>9. Loss(n, e, t, set) = Lossy
  <2>1. ~(e + GetDigits(n) - 1 < set.emin) /\ GetDigits(n) \in Nat
    BY <1>1, <1>3
  <2>2. n % Ten[t] # 0
    BY <1>2, <1>4
  <2>3. t = Smaller(t, GetDigits(n) + 1) /\ t \in Int
    BY <1>8
  <2> QED BY <1>1, <1>8, <2>1, <2>2, <2>3, LossIs
<1>10. NonZeroResult(neg, n, e, set) = Placed(neg, y, e + t, Lossy, set)
  <2>1. t \in Int
    OBVIOUS
  <2>2. NonZeroResult(neg, n, e, set)
          = Placed(neg, Rounded(neg, n \div Ten[t], n % Ten[t], Ten[t], set.round),
                   e + t, Lossy, set)
    BY <1>2, <1>8, <1>9, <2>1, NonZeroIs
  <2> QED BY <1>7, <2>2
<1> QED BY <1>6, <1>10

\* Just below a power of ten the digit that is lost does not change the rounding:
\* both coefficients end in a nine, and both rests are above a half.
LEMMA AwayBelowTen ==
  ASSUME NEW neg, NEW round \in Roundings, NEW a \in Nat, a % 5 = 4, NEW b \in Nat, b % 5 = 4,
         NEW s \in Nat, s > 0, NEW u \in Nat, 10 * s <= u, NEW v \in Nat, v = 10 * u
  PROVE  Away(neg, a, v - s, v, round) = Away(neg, b, u - s, u, round)
<1>1. PICK i \in Nat, j \in Nat : i = v - s /\ j = u - s /\ i # 0 /\ j # 0
  <2>1. v - s \in Nat /\ u - s \in Nat /\ v - s # 0 /\ u - s # 0
    OBVIOUS
  <2> QED BY <2>1
<1>2. /\ (2 * i >= v) = TRUE /\ (2 * j >= u) = TRUE
      /\ (2 * i > v) = TRUE /\ (2 * j > u) = TRUE
      /\ (a % 5 = 0) = FALSE /\ (b % 5 = 0) = FALSE
  BY <1>1
<1>3. Away(neg, a, i, v, round) = Away(neg, b, j, u, round)
  BY <1>1, <1>2 DEF Away
<1> QED BY <1>1, <1>3

\* Above the smallest exponent a power of ten becomes 99..9, one exponent lower.
LEMMA BumpPowerNormal ==
  ASSUME NEW neg \in BOOLEAN, NEW c, NEW d \in Nat, NEW x \in Int, NEW r, NEW st,
         NEW set, Etiny(set) # x
  PROVE  BumpPower(Work(Stored(neg, c, d, x), r, st), set)
           = Work(Stored(neg, Ten[d] - 1, d, x - 1), r, st)
<1>1. PICK dn, w : dn = Stored(neg, c, d, x) /\ w = Work(dn, r, st)
  OBVIOUS
<1>2. dn.digits = d /\ dn.exponent = x /\ w.dn = dn
  BY <1>1, StoredFields, WorkFields
<1>3. Resized(dn, Ten[d] - 1, d, x - 1) = Stored(neg, Ten[d] - 1, d, x - 1)
  BY <1>1, ResizedIs
<1>4. PICK down : down = Stored(neg, Ten[d] - 1, d, x - 1)
  OBVIOUS
<1>5. down.exponent + 1 # Etiny(set)
  <2>1. down.exponent = x - 1
    BY <1>4, StoredFields
  <2>2. (x - 1) + 1 = x
    OBVIOUS
  <2> QED BY <2>1, <2>2
<1>6. [ w EXCEPT !.dn = down ] = Work(down, r, st)
  BY <1>1, WorkFields
<1> QED BY <1>1, <1>2, <1>3, <1>4, <1>5, <1>6 DEF BumpPower

\* A power of ten c that rounds to y.
PowerRounded(w, set, c, y) ==
  /\ y \in {c - 1, c}
  /\ y = c => ApplyRound(w, set) = w
  /\ y = c - 1 => ApplyRound(w, set) = BumpPower(w, set)

\* Rounding the smallest coefficient of d digits less a fraction keeps it, or
\* bumps it to the nines below.
LEMMA PowerRounds ==
  ASSUME NEW neg \in BOOLEAN, NEW i \in Nat, NEW x, NEW st, NEW set, set.round \in Roundings,
         NEW r \in Int, NEW rest \in Int, rest < 0, NEW power \in Nat, StandsFor(r, rest, power)
  PROVE  PowerRounded(Work(Stored(neg, Ten[i], i + 1, x), r, st), set, Ten[i],
                      Rounded(neg, Ten[i], rest, power, set.round))
<1>w. PICK w, y : /\ w = Work(Stored(neg, Ten[i], i + 1, x), r, st)
                  /\ y = Rounded(neg, Ten[i], rest, power, set.round)
  OBVIOUS
<1>1. PICK c \in Nat, d \in Nat : c = Ten[i] /\ c > 0 /\ d = i + 1 /\ d >= 1 /\ d - 1 = i /\ c < Ten[d]
  <2>1. Ten[i] \in Nat /\ Ten[i] > 0 /\ Ten[i + 1] = 10 * Ten[i]
    BY TenNat, TenNext
  <2> QED BY <2>1
<1>2. rest < power
  OBVIOUS
<1>3. w = Work(Stored(neg, c, d, x), r, st)
  BY <1>w, <1>1
<1>4. y = Rounded(neg, c, rest, power, set.round)
  BY <1>w, <1>1
<1>5. AppliesRound(w, set, neg, c, d, x, rest, y)
  BY <1>1, <1>2, <1>3, <1>4, ApplyRoundIs
<1>6. w.residue = r /\ w.status = st
  BY <1>3, WorkFields
<1>7. y \in {c - 1, c}
  BY <1>1, <1>4, RoundedRange
<1>8. y = c => ApplyRound(w, set) = w
  <2>1. y = c => y # Ten[d] /\ ~(y = c - 1 /\ c = Ten[d - 1])
    BY <1>1
  <2>2. y = c => ApplyRound(w, set) = Work(Stored(neg, y, d, x), w.residue, w.status)
    BY <1>5, <2>1 DEF AppliesRound
  <2> QED BY <1>3, <1>6, <2>2
<1>9. y = c - 1 => ApplyRound(w, set) = BumpPower(w, set)
  <2>1. c = Ten[d - 1]
    BY <1>1
  <2> QED BY <1>5, <2>1 DEF AppliesRound
<1>10. PowerRounded(w, set, c, y)
  BY <1>7, <1>8, <1>9 DEF PowerRounded
<1> QED BY <1>w, <1>1, <1>10

\* The precision is of i + 1 digits, i not zero.
OneMore(i, set) == i >= 1 /\ set.digits = i + 1

CarriesTo(neg, x, st, set) ==
  Placed(neg, Ten[set.digits], x, st, set) = Placed(neg, Ten[set.digits - 1], x + 1, st, set)

\* 99..9 rounded up, in any place.
LEMMA PlacedCarriedTo ==
  ASSUME NEW neg, NEW x \in Int, NEW st, NEW set, Roomy(set)
  PROVE  CarriesTo(neg, x, st, set)
  BY PlacedCarried DEF CarriesTo

\* A result just below a power of ten that stays normal: the coefficient is kept, or
\* it is 99..9 one exponent lower.
LEMMA BelowPower ==
  ASSUME NEW neg \in BOOLEAN, NEW set, Roomy(set),
         NEW i \in Nat, OneMore(i, set),
         NEW t \in Nat, NEW k \in Nat, NEW s \in Nat, NEW n, JustLess(n, Ten[i], t, k, s),
         NEW e \in Int, NEW x \in Int, x = e + t, x > Etiny(set),
         NEW r \in Int, StandsFor(r, -s, Ten[t])
  PROVE  Outcome(Finalize(Work(Finite(neg, Ten[i], x), r, Lossy), set))
           = NonZeroResult(neg, n, e, set)
<1>0. i >= 1 /\ set.digits = i + 1
  BY DEF OneMore
<1>1. /\ set.digits \in Nat /\ set.digits >= 1 /\ set.emin \in Int
      /\ Etiny(set) \in Int /\ Etiny(set) = set.emin - set.digits + 1
      /\ set.round \in Roundings
  BY RoomyFacts
<1>2. PICK c \in Nat, d \in Nat : c = Ten[i] /\ c # 0 /\ d = i + 1 /\ d = GetDigits(c) /\ d >= 2
                                  /\ GetDigits(c) - 1 = i /\ d = set.digits /\ d - 1 = i
  <2>1. Ten[i] \in Nat /\ Ten[i] > 0 /\ GetDigits(Ten[i]) = i + 1
    BY TenNat, DigitsOfTen
  <2> QED BY <1>0, <2>1
<1>3. /\ t = k + 1 /\ s > 0 /\ s < Ten[t] /\ s < Ten[k] /\ 10 * s <= Ten[k] /\ Ten[t] = 10 * Ten[k]
      /\ n \in Nat /\ n # 0 /\ GetDigits(n) = d + t - 1
      /\ n \div Ten[k] = Ten[d] - 1 /\ n % Ten[k] = Ten[k] - s
  <2>1. JustLess(n, c, t, k, s) /\ c = Ten[GetDigits(c) - 1]
    BY <1>2
  <2>2. /\ t = k + 1 /\ s > 0 /\ s < Ten[t] /\ s < Ten[k] /\ 10 * s <= Ten[k] /\ Ten[t] = 10 * Ten[k]
        /\ n \in Nat /\ n # 0
        /\ c = Ten[GetDigits(c) - 1] =>
             /\ GetDigits(n) = GetDigits(c) + t - 1
             /\ n \div Ten[k] = Ten[GetDigits(c)] - 1 /\ n % Ten[k] = Ten[k] - s
    <3>1. c # 0 /\ JustLess(n, c, t, k, s)
      BY <1>2, <2>1
    <3> QED BY <3>1, JustLessIs
  <2> QED BY <1>2, <2>1, <2>2
<1>4. PICK u \in Nat, v \in Nat, rest \in Int :
        u = Ten[k] /\ v = Ten[t] /\ v = 10 * u /\ s < u /\ s < v /\ rest = -s /\ rest < 0
  BY <1>3, TenNat
<1>5. PICK g \in Nat : g = GetDigits(n) /\ g = d + k
  BY <1>2, <1>3
<1>6. PICK w : w = Work(Stored(neg, c, d, x), r, Lossy)
  OBVIOUS
<1>7. Work(Finite(neg, Ten[i], x), r, Lossy) = w
  BY <1>2, <1>6, FiniteIsStored
<1>8. PICK y : y = Rounded(neg, c, rest, v, set.round)
  OBVIOUS
<1>9. PICK app : app = ApplyRound(w, set)
  OBVIOUS
<1>10. /\ y \in {c - 1, c}
       /\ y = c => app = w
       /\ y = c - 1 => app = BumpPower(w, set)
  <2>1. StandsFor(r, rest, v)
    BY <1>4
  <2>2. w = Work(Stored(neg, Ten[i], i + 1, x), r, Lossy)
    BY <1>2, <1>6
  <2>3. y = Rounded(neg, Ten[i], rest, v, set.round)
    BY <1>2, <1>8
  <2>4. PowerRounded(Work(Stored(neg, Ten[i], i + 1, x), r, Lossy), set, Ten[i],
                     Rounded(neg, Ten[i], rest, v, set.round))
    BY <1>1, <1>4, <2>1, PowerRounds
  <2>5. PowerRounded(w, set, Ten[i], y)
    BY <2>2, <2>3, <2>4
  <2> QED BY <1>2, <1>9, <2>5 DEF PowerRounded
<1>11. Finalize(w, set) = FoldDown(app, set)
  <2>1. w.dn.exponent = x /\ w.dn.digits = d
    BY <1>6, WorkFields, StoredFields
  <2>2. x > set.emin - d + 1
    BY <1>1, <1>2
  <2>3. ~IsSubnormal(w, set)
    <3>1. ~(x < set.emin - d + 1) /\ x # set.emin - d + 1
      BY <1>1, <2>2
    <3> QED BY <2>1, <3>1 DEF IsSubnormal
  <2> QED BY <1>9, <2>3 DEF Finalize
<1>12. PICK z \in Nat : z = Ten[d] - 1 /\ z # 0 /\ GetDigits(z) = d /\ z % 5 = 4
  BY <1>2, NinesAre
<1>13. PICK q \in Nat : q = c - 1 /\ q % 5 = 4
  <2>1. Ten[i] - 1 \in Nat /\ (Ten[i] - 1) % 5 = 4
    BY <1>0, NinesAre
  <2> QED BY <1>2, <2>1
\* What the reference rounds: 99..9 and a rest above a half.
<1>14. PICK ref : ref = Rounded(neg, z, u - s, u, set.round)
  OBVIOUS
<1>15. y = q + (IF Away(neg, q, v - s, v, set.round) THEN 1 ELSE 0)
  <2>1. v + rest = v - s
    BY <1>4
  <2> QED BY <1>4, <1>8, <1>13, <2>1 DEF Rounded
<1>16. ref = z + (IF Away(neg, z, u - s, u, set.round) THEN 1 ELSE 0)
  <2>1. ~(u - s < 0)
    BY <1>4
  <2> QED BY <1>14, <2>1 DEF Rounded
<1>17. Away(neg, q, v - s, v, set.round) = Away(neg, z, u - s, u, set.round)
  <2>1. 10 * s <= u /\ s > 0 /\ v = 10 * u
    BY <1>3, <1>4
  <2> QED BY <1>1, <1>12, <1>13, <2>1, AwayBelowTen
<1>18. /\ y = c => ref = Ten[d]
       /\ y = c - 1 => ref = z
  <2>1. Ten[d] = z + 1 /\ c = q + 1
    BY <1>12, <1>13, TenNat
  <2> QED BY <1>15, <1>16, <1>17, <2>1
<1>19. PICK lower \in Int : lower = x - 1 /\ lower + 1 = x /\ lower = e + k
  BY <1>3
<1>20. Outcome(FoldDown(app, set)) = Placed(neg, ref, lower, Lossy, set)
  <2>1. CASE y = c
    <3>1. Outcome(FoldDown(w, set)) = Placed(neg, c, x, Lossy, set)
      <4>1. d <= set.digits /\ d = GetDigits(c) /\ c # 0
        BY <1>2
      <4> QED BY <1>6, <4>1, FoldDownPlaced
    <3>2. Placed(neg, Ten[set.digits], lower, Lossy, set)
            = Placed(neg, Ten[set.digits - 1], lower + 1, Lossy, set)
      <4>1. CarriesTo(neg, lower, Lossy, set)
        BY PlacedCarriedTo
      <4> QED BY <4>1 DEF CarriesTo
    <3>3. ref = Ten[set.digits] /\ Ten[set.digits - 1] = c
      BY <1>2, <1>18, <2>1
    <3> QED BY <1>10, <1>19, <2>1, <3>1, <3>2, <3>3
  <2>2. CASE y = c - 1
    <3>1. BumpPower(w, set) = Work(Stored(neg, Ten[d] - 1, d, x - 1), r, Lossy)
      <4>1. Etiny(set) # x
        BY <1>1
      <4> QED BY <1>6, <4>1, BumpPowerNormal
    <3>2. app = Work(Stored(neg, z, d, lower), r, Lossy)
      BY <1>10, <1>12, <1>19, <2>2, <3>1
    <3>3. Outcome(FoldDown(app, set)) = Placed(neg, z, lower, Lossy, set)
      <4>1. d <= set.digits
        BY <1>2
      <4> QED BY <1>12, <3>2, <4>1, FoldDownPlaced
    <3> QED BY <1>18, <2>2, <3>3
  <2> QED BY <1>10, <2>1, <2>2
<1>21. Excess(n, e, set) = k /\ Smaller(k, GetDigits(n) + 1) = k
  BY <1>1, <1>2, <1>5, <1>19 DEF Excess, Larger, Smaller
<1>22. k > 0
  <2>1. k = 0 => Ten[k] = 1
    BY TenSmall
  <2> QED BY <1>3, <2>1
<1>23. Loss(n, e, k, set) = Lossy
  <2>1. ~(e + GetDigits(n) - 1 < set.emin) /\ GetDigits(n) \in Nat
    BY <1>1, <1>2, <1>5, <1>19
  <2>2. n % Ten[k] # 0
    BY <1>3, <1>4
  <2>3. k = Smaller(k, GetDigits(n) + 1) /\ k \in Int
    BY <1>21
  <2> QED BY <1>1, <1>22, <2>1, <2>2, <2>3, LossIs
<1>24. NonZeroResult(neg, n, e, set) = Placed(neg, ref, lower, Lossy, set)
  <2>1. k \in Int
    OBVIOUS
  <2>2. NonZeroResult(neg, n, e, set)
          = Placed(neg, Rounded(neg, n \div Ten[k], n % Ten[k], Ten[k], set.round),
                   e + k, Lossy, set)
    BY <1>3, <1>21, <1>23, <2>1, NonZeroIs
  <2>3. Rounded(neg, n \div Ten[k], n % Ten[k], Ten[k], set.round) = ref
    BY <1>3, <1>4, <1>12, <1>14
  <2> QED BY <1>19, <2>2, <2>3
<1> QED BY <1>7, <1>11, <1>20, <1>24

\* The number c * 10^x in work w is reported as subnormal.
BecomesLeast(w, neg, c, x, st, set) ==
  Outcome(SetSubnormal(w, set))
    = [ dn |-> Finite(neg, c, x), status |-> st \cup {"Subnormal", "Underflow"} ]

\* A nonzero number at the smallest exponent is subnormal as it is.
LEMMA LeastIs ==
  ASSUME NEW neg, NEW c \in Nat, c # 0, NEW r, NEW st, "Inexact" \in st,
         NEW set, Etiny(set) \in Int
  PROVE  BecomesLeast(Work(Finite(neg, c, Etiny(set)), r, st), neg, c, Etiny(set), st, set)
<1>x. PICK x \in Int : x = Etiny(set)
  OBVIOUS
<1>w. PICK w : w = Work(Finite(neg, c, x), r, st)
  OBVIOUS
<1>1. PICK dn, j, flags :
        /\ dn = Finite(neg, c, x) /\ j = Etiny(set) - x
        /\ flags = {"Subnormal"} \cup UnderflowIf(st)
  OBVIOUS
<1>j. j \in Int /\ j <= 0
  BY <1>x, <1>w, <1>1
<1>2. w = Work(dn, r, st) /\ w.dn = dn /\ w.status = st /\ Raise(w, flags) = Work(dn, r, st \cup flags)
  BY <1>x, <1>w, <1>1, WorkFields
<1>3. dn.exponent = x /\ dn.coeff = c
  <2>1. dn = Stored(neg, c, GetDigits(c), x)
    BY <1>1, FiniteIsStored
  <2> QED BY <2>1, StoredFields
<1>4. ~IsZero(w.dn)
  BY <1>2, <1>3 DEF IsZero
<1>5. SetSubnormal(w, set) = Raise(w, flags)
  <2>1. /\ Etiny(set) - w.dn.exponent = j
        /\ ~(IsZero(w.dn) /\ j > 0) /\ ~(IsZero(w.dn) /\ j <= 0)
        /\ ~IsZero(w.dn) /\ j <= 0
    BY <1>1, <1>2, <1>3, <1>4, <1>j
  <2> QED BY <1>1, <1>2, <2>1, Zenon DEF SetSubnormal
<1>6. Outcome(Raise(w, flags)) = [ dn |-> dn, status |-> st \cup flags ]
  BY <1>2, OutcomeOf
<1>7. st \cup flags = st \cup {"Subnormal", "Underflow"}
  BY <1>1 DEF UnderflowIf
<1>8. BecomesLeast(w, neg, c, x, st, set)
  BY <1>1, <1>5, <1>6, <1>7 DEF BecomesLeast
<1> QED BY <1>x, <1>w, <1>8

\* The smallest normal number less a fraction: rounded down it is the greatest
\* subnormal number, and it counts as subnormal either way.
LEMMA BelowLeast ==
  ASSUME NEW neg \in BOOLEAN, NEW set, Roomy(set),
         NEW i \in Nat, OneMore(i, set),
         NEW t \in Nat, NEW k \in Nat, NEW s \in Nat, NEW n, JustLess(n, Ten[i], t, k, s),
         NEW e \in Int, NEW x \in Int, x = e + t, x = Etiny(set),
         NEW r \in Int, StandsFor(r, -s, Ten[t])
  PROVE  Outcome(Finalize(Work(Finite(neg, Ten[i], x), r, Lossy), set))
           = NonZeroResult(neg, n, e, set)
<1>0. i >= 1 /\ set.digits = i + 1
  BY DEF OneMore
<1>1. /\ set.digits \in Nat /\ set.digits >= 1 /\ set.emin \in Int
      /\ Etiny(set) \in Int /\ Etiny(set) = set.emin - set.digits + 1
      /\ set.round \in Roundings
  BY RoomyFacts
<1>2. PICK c \in Nat, d \in Nat : c = Ten[i] /\ c # 0 /\ d = i + 1 /\ d = GetDigits(c) /\ d >= 2
                                  /\ GetDigits(c) - 1 = i /\ d = set.digits /\ d - 1 = i
  <2>1. Ten[i] \in Nat /\ Ten[i] > 0 /\ GetDigits(Ten[i]) = i + 1
    BY TenNat, DigitsOfTen
  <2> QED BY <1>0, <2>1
<1>3. /\ t = k + 1 /\ s > 0 /\ s < Ten[t]
      /\ n \in Nat /\ n # 0 /\ GetDigits(n) = d + t - 1
      /\ n \div Ten[t] = c - 1 /\ n % Ten[t] = Ten[t] - s
  <2>1. JustLess(n, c, t, k, s) /\ c = Ten[GetDigits(c) - 1]
    BY <1>2
  <2>2. /\ t = k + 1 /\ s > 0 /\ s < Ten[t]
        /\ n \in Nat /\ n # 0
        /\ n \div Ten[t] = c - 1 /\ n % Ten[t] = Ten[t] - s
        /\ c = Ten[GetDigits(c) - 1] => GetDigits(n) = GetDigits(c) + t - 1
    <3>1. c # 0 /\ JustLess(n, c, t, k, s)
      BY <1>2, <2>1
    <3> QED BY <3>1, JustLessIs
  <2> QED BY <1>2, <2>1, <2>2
<1>4. PICK v \in Nat, rest \in Int : v = Ten[t] /\ s < v /\ rest = -s /\ rest < 0
  BY <1>3, TenNat
<1>5. PICK g \in Nat : g = GetDigits(n) /\ g = d + k
  BY <1>2, <1>3
<1>6. PICK dn, w : dn = Stored(neg, c, d, x) /\ w = Work(dn, r, Lossy)
  OBVIOUS
<1>7. Work(Finite(neg, Ten[i], x), r, Lossy) = w /\ w = Work(Finite(neg, c, x), r, Lossy)
  BY <1>2, <1>6, FiniteIsStored
<1>8. PICK y : y = Rounded(neg, c, rest, v, set.round)
  OBVIOUS
<1>9. PICK app : app = ApplyRound(w, set)
  OBVIOUS
<1>10. /\ y \in {c - 1, c}
       /\ y = c => app = w
       /\ y = c - 1 => app = BumpPower(w, set)
  <2>1. StandsFor(r, rest, v)
    BY <1>4
  <2>2. w = Work(Stored(neg, Ten[i], i + 1, x), r, Lossy)
    BY <1>2, <1>6
  <2>3. y = Rounded(neg, Ten[i], rest, v, set.round)
    BY <1>2, <1>8
  <2>4. PowerRounded(Work(Stored(neg, Ten[i], i + 1, x), r, Lossy), set, Ten[i],
                     Rounded(neg, Ten[i], rest, v, set.round))
    BY <1>1, <1>4, <2>1, PowerRounds
  <2>5. PowerRounded(w, set, Ten[i], y)
    BY <2>2, <2>3, <2>4
  <2> QED BY <1>2, <1>9, <2>5 DEF PowerRounded
<1>11. r < 0
  <2>1. StandsFor(r, rest, v)
    BY <1>4
  <2> QED BY <1>4, <2>1 DEF StandsFor
<1>12. Finalize(w, set) = SetSubnormal(app, set)
  <2>1. /\ w.dn = dn /\ w.residue = r /\ dn.exponent = x /\ dn.digits = d
        /\ dn.coeff = c /\ dn.kind = "finite"
    BY <1>6, WorkFields, StoredFields
  <2>2. x = set.emin - d + 1 /\ ~(x < set.emin - d + 1)
    BY <1>1, <1>2
  <2>3. IsNmin(dn, set)
    <3>1. ~IsZero(dn)
      BY <1>2, <2>1 DEF IsZero
    <3>2. dn.coeff = Ten[dn.digits - 1] /\ dn.exponent + dn.digits - 1 = set.emin
      BY <1>1, <1>2, <2>1, <2>2
    <3> QED BY <3>1, <3>2 DEF IsNmin
  <2>4. IsSubnormal(w, set)
    BY <1>11, <2>1, <2>2, <2>3 DEF IsSubnormal
  <2>5. ~(w.dn.exponent < set.emin - w.dn.digits + 1)
    BY <2>1, <2>2
  <2> QED BY <1>9, <2>4, <2>5 DEF Finalize
<1>13. PICK q \in Nat : q = c - 1 /\ q # 0 /\ GetDigits(q) = i
  <2>1. Ten[i] - 1 \in Nat /\ Ten[i] - 1 # 0 /\ GetDigits(Ten[i] - 1) = i
    BY <1>0, NinesAre
  <2> QED BY <1>2, <2>1
<1>14. PICK flags : flags = {"Inexact", "Rounded", "Subnormal"}
  OBVIOUS
<1>15. TinyLossy = flags \cup UnderflowIf(flags)
  BY <1>14 DEF TinyLossy, UnderflowIf
<1>16. Outcome(SetSubnormal(app, set)) = [ dn |-> Finite(neg, y, x), status |-> TinyLossy ]
  <2>1. "Inexact" \in Lossy /\ Lossy \cup {"Subnormal", "Underflow"} = TinyLossy
    BY DEF Lossy, TinyLossy
  <2>2. CASE y = c
    <3>1. Outcome(SetSubnormal(w, set))
            = [ dn |-> Finite(neg, c, x), status |-> Lossy \cup {"Subnormal", "Underflow"} ]
      <4>1. BecomesLeast(Work(Finite(neg, c, Etiny(set)), r, Lossy), neg, c, Etiny(set), Lossy, set)
        BY <1>1, <1>2, <2>1, LeastIs
      <4>2. BecomesLeast(w, neg, c, x, Lossy, set)
        BY <1>7, <4>1
      <4> QED BY <4>2 DEF BecomesLeast
    <3> QED BY <1>10, <2>1, <2>2, <3>1
  <2>3. CASE y = c - 1
    <3>1. PICK st : st = Lossy \cup {"Underflow", "Subnormal", "Inexact", "Rounded"}
      OBVIOUS
    <3>2. app = Work(Finite(neg, q, x), r, st)
      <4>1. PowerBumped(neg, c, d, x, r, Lossy, set)
        <5>1. d >= 1 /\ Etiny(set) = x
          BY <1>2
        <5> QED BY <5>1, BumpPowerTiny
      <4>2. BumpPower(w, set) = Work(Finite(neg, Ten[d - 1] - 1, x), r, st)
        BY <1>6, <3>1, <4>1 DEF PowerBumped
      <4> QED BY <1>2, <1>10, <1>13, <2>3, <4>2
    <3>3. "Inexact" \in st /\ st \cup {"Subnormal", "Underflow"} = TinyLossy
      BY <3>1 DEF Lossy, TinyLossy
    <3>4. Outcome(SetSubnormal(app, set))
            = [ dn |-> Finite(neg, q, x), status |-> st \cup {"Subnormal", "Underflow"} ]
      <4>1. BecomesLeast(Work(Finite(neg, q, Etiny(set)), r, st), neg, q, Etiny(set), st, set)
        BY <1>1, <1>13, <3>3, LeastIs
      <4>2. BecomesLeast(app, neg, q, x, st, set)
        BY <3>2, <4>1
      <4> QED BY <4>2 DEF BecomesLeast
    <3> QED BY <1>13, <2>3, <3>3, <3>4
  <2> QED BY <1>10, <2>2, <2>3
<1>17. y \in Nat /\ y # 0 /\ GetDigits(y) \in {i, d}
  BY <1>2, <1>10, <1>13
<1>18. Placed(neg, y, x, flags \cup UnderflowIf(flags), set) = TinyResult(neg, y, x, flags)
  <2>1. GetDigits(y) <= set.digits /\ x + GetDigits(y) - 1 <= set.emin
    BY <1>1, <1>2, <1>17
  <2> QED BY <1>17, <2>1, PlacedTiny
<1>19. TinyResult(neg, y, x, flags) = [ dn |-> Finite(neg, y, x), status |-> TinyLossy ]
  BY <1>15, <1>17 DEF TinyResult
<1>20. Excess(n, e, set) = t /\ Smaller(t, GetDigits(n) + 1) = t /\ t > 0
  BY <1>1, <1>2, <1>3, <1>5 DEF Excess, Larger, Smaller
<1>21. Loss(n, e, t, set) = TinyLossy
  <2>1. e + GetDigits(n) - 1 < set.emin /\ GetDigits(n) \in Nat
    BY <1>1, <1>2, <1>3, <1>5
  <2>2. n % Ten[t] # 0
    BY <1>3, <1>4
  <2>3. t = Smaller(t, GetDigits(n) + 1) /\ t \in Int
    BY <1>20
  <2> QED BY <1>1, <1>20, <2>1, <2>2, <2>3, LossIs
<1>22. y = Rounded(neg, n \div Ten[t], n % Ten[t], Ten[t], set.round)
  <2>1. Rounded(neg, c, -s, v, set.round) = Rounded(neg, c - 1, v - s, v, set.round)
    BY <1>3, <1>4, RoundedBelow
  <2> QED BY <1>3, <1>4, <1>8, <2>1
<1>23. NonZeroResult(neg, n, e, set) = Placed(neg, y, x, TinyLossy, set)
  <2>1. t \in Int /\ e + t = x
    OBVIOUS
  <2>2. NonZeroResult(neg, n, e, set)
          = Placed(neg, Rounded(neg, n \div Ten[t], n % Ten[t], Ten[t], set.round),
                   e + t, TinyLossy, set)
    BY <1>3, <1>20, <1>21, <2>1, NonZeroIs
  <2> QED BY <1>22, <2>1, <2>2
<1> QED BY <1>7, <1>12, <1>15, <1>16, <1>18, <1>19, <1>23

\* A result just below c * 10^x, where c has as many digits as the precision, at
\* least two: the coefficient 1 has no coefficient of one digit below it.
LEMMA JustBelow ==
  ASSUME NEW neg \in BOOLEAN, NEW set, Roomy(set), set.digits >= 2,
         NEW c \in Nat, c # 0, GetDigits(c) = set.digits,
         NEW t \in Nat, NEW k \in Nat, NEW s \in Nat, NEW n, JustLess(n, c, t, k, s),
         NEW e \in Int, NEW x \in Int, x = e + t,
         NEW r \in Int, StandsFor(r, -s, Ten[t])
  PROVE  Outcome(Finalize(Work(Finite(neg, c, x), r, Lossy), set))
           = NonZeroResult(neg, n, e, set)
<1>1. /\ set.digits \in Nat /\ Etiny(set) \in Int
  BY RoomyFacts
<1>2. PICK i \in Nat : i = set.digits - 1 /\ i >= 1 /\ set.digits = i + 1
                       /\ i = GetDigits(c) - 1
  BY <1>1
<1>3. CASE x < Etiny(set)
  BY <1>3, BelowTiny
<1>4. CASE x >= Etiny(set) /\ c # Ten[i]
  <2>1. c # Ten[GetDigits(c) - 1]
    BY <1>2, <1>4
  <2> QED BY <1>4, <2>1, BelowNormal
<1>5. CASE x >= Etiny(set) /\ c = Ten[i]
  <2>1. JustLess(n, Ten[i], t, k, s) /\ OneMore(i, set)
    BY <1>2, <1>5 DEF OneMore
  <2>2. CASE x > Etiny(set)
    <3>1. Outcome(Finalize(Work(Finite(neg, Ten[i], x), r, Lossy), set))
            = NonZeroResult(neg, n, e, set)
      BY <2>1, <2>2, BelowPower
    <3> QED BY <1>5, <3>1
  <2>3. CASE x = Etiny(set)
    <3>1. Outcome(Finalize(Work(Finite(neg, Ten[i], x), r, Lossy), set))
            = NonZeroResult(neg, n, e, set)
      BY <2>1, <2>3, BelowLeast
    <3> QED BY <1>5, <3>1
  <2> QED BY <1>1, <1>5, <2>2, <2>3
<1> QED BY <1>1, <1>3, <1>4, <1>5

\* The residue that stands for the smaller operand.
ResidueSign(diffsign) == IF diffsign THEN -1 ELSE 1

\* What decAddOp hands to decFinalize where the smaller operand is a residue.
ResidueWork(big, neg, set, diffsign) ==
  LET shift == set.digits - big.digits
      w     == CopyFit(big, set, ResidueSign(diffsign), {})
      full  == IF shift > 0 THEN Padded(w.dn, shift) ELSE w.dn
  IN  [ w EXCEPT !.dn = [ full EXCEPT !.neg = neg ] ]

\* It is what decFinalize gets.
LEMMA ResidueWorkIs ==
  ASSUME NEW big, NEW neg, NEW set, NEW diffsign
  PROVE  AddResidue(big, neg, set, diffsign)
           = Finalize(ResidueWork(big, neg, set, diffsign), set)
  BY DEF AddResidue, ResidueWork, ResidueSign

\* A number with its sign set.
LEMMA NegSet ==
  ASSUME NEW neg, NEW c, NEW d, NEW x, NEW y
  PROVE  [ Stored(neg, c, d, x) EXCEPT !.neg = y ] = Stored(y, c, d, x)
  BY DEF Stored

\* The zeros that bring a number to the precision.
ShiftIs(shift, big, set) == set.digits - big.digits = shift

\* The last step: the number in work, padded to the precision, with its sign.
LEMMA ResidueSigned ==
  ASSUME NEW big, NEW neg, NEW set, NEW diffsign, NEW bneg,
         NEW c \in Nat, NEW d \in Int, NEW x \in Int, NEW r, NEW st,
         CopyFit(big, set, ResidueSign(diffsign), {}) = Work(Stored(bneg, c, d, x), r, st),
         NEW shift \in Int, ShiftIs(shift, big, set)
  PROVE  /\ shift > 0 => ResidueWork(big, neg, set, diffsign)
                           = Work(Stored(neg, c * Ten[shift], d + shift, x - shift), r, st)
         /\ ~(shift > 0) => ResidueWork(big, neg, set, diffsign) = Work(Stored(neg, c, d, x), r, st)
<1>1. PICK dn, w : dn = Stored(bneg, c, d, x) /\ w = Work(dn, r, st)
                   /\ w = CopyFit(big, set, ResidueSign(diffsign), {})
  OBVIOUS
<1>2. w.dn = dn /\ \A y : [ w EXCEPT !.dn = y ] = Work(y, r, st)
  <2>1. w = Work(dn, r, st)
    BY <1>1
  <2> HIDE <1>1
  <2> QED BY <2>1 DEF Work
<1>3. ASSUME shift > 0
      PROVE  ResidueWork(big, neg, set, diffsign)
               = Work(Stored(neg, c * Ten[shift], d + shift, x - shift), r, st)
  <2>1. Padded(dn, shift) = Stored(bneg, c * Ten[shift], d + shift, x - shift)
    BY <1>1, PaddedIs
  <2>2. [ Padded(dn, shift) EXCEPT !.neg = neg ] = Stored(neg, c * Ten[shift], d + shift, x - shift)
    BY <2>1, NegSet
  <2>3. ResidueWork(big, neg, set, diffsign)
          = [ w EXCEPT !.dn = [ Padded(w.dn, shift) EXCEPT !.neg = neg ] ]
    BY <1>1, <1>3, Zenon DEF ResidueWork, ShiftIs
  <2>4. ResidueWork(big, neg, set, diffsign)
          = [ w EXCEPT !.dn = Stored(neg, c * Ten[shift], d + shift, x - shift) ]
    BY <1>2, <2>2, <2>3
  <2> QED BY <1>2, <2>4, Zenon
<1>4. ASSUME ~(shift > 0)
      PROVE  ResidueWork(big, neg, set, diffsign) = Work(Stored(neg, c, d, x), r, st)
  <2>1. [ dn EXCEPT !.neg = neg ] = Stored(neg, c, d, x)
    BY <1>1, NegSet
  <2>2. ResidueWork(big, neg, set, diffsign) = [ w EXCEPT !.dn = [ w.dn EXCEPT !.neg = neg ] ]
    BY <1>1, <1>4, Zenon DEF ResidueWork, ShiftIs
  <2>3. ResidueWork(big, neg, set, diffsign) = [ w EXCEPT !.dn = Stored(neg, c, d, x) ]
    BY <1>2, <2>1, <2>2
  <2> QED BY <1>2, <2>3, Zenon
<1> QED BY <1>3, <1>4

\* A coefficient j digits short of the precision.
ShorterBy(b, set, j) == set.digits - GetDigits(b) = j

\* An operand no longer than the precision keeps its digits and is padded.
LEMMA ShortResidue ==
  ASSUME NEW bneg, NEW b \in Nat, b # 0, NEW be \in Int, NEW neg, NEW set, Roomy(set),
         NEW diffsign \in BOOLEAN, NEW j \in Nat, ShorterBy(b, set, j)
  PROVE  ResidueWork(Finite(bneg, b, be), neg, set, diffsign)
           = Work(Finite(neg, b * Ten[j], be - j), ResidueSign(diffsign), Lossy)
<1>0. PICK res, big : res = ResidueSign(diffsign) /\ big = Finite(bneg, b, be)
  OBVIOUS
<1>1. PICK d \in Nat : d = GetDigits(b) /\ d >= 1
  <2>1. GetDigits(b) \in Nat /\ GetDigits(b) >= 1
    BY DigitsAre
  <2> QED BY <2>1
<1>2. res \in {-1, 1}
  BY <1>0, <1>1 DEF ResidueSign
<1>3. set.digits \in Nat
  BY RoomyFacts
<1>4. big = Stored(bneg, b, d, be) /\ big.digits = d
  <2>1. big = Stored(bneg, b, d, be)
    BY <1>0, <1>1, FiniteIsStored
  <2> QED BY <2>1, StoredFields
<1>5. CopyFit(big, set, res, {}) = Work(Stored(bneg, b, d, be), res, Lossy)
  <2>1. PICK w : w = Work(big, res, {})
    OBVIOUS
  <2>2. w.dn = big /\ w.residue = res /\ Raise(w, Lossy) = Work(big, res, {} \cup Lossy)
    BY <2>1, WorkFields
  <2>3. w.dn.digits - set.digits <= 0 /\ w.residue # 0
    BY <1>0, <1>1, <1>2, <1>3, <1>4, <2>2 DEF ShorterBy
  <2>4. SetCoeff(w, set) = Raise(w, {"Inexact", "Rounded"})
    <3>1. w.dn.digits - set.digits \in Int
      BY <1>3, <1>4, <2>2
    <3>2. ~(w.dn.digits - set.digits > 0)
      BY <2>3, <3>1
    <3>3. ~(w.dn.digits - set.digits > w.dn.digits)
      BY <1>3, <1>4, <2>2
    <3> QED BY <2>3, <3>2, <3>3, Zenon DEF SetCoeff
  <2>5. {} \cup Lossy = Lossy /\ Lossy = {"Inexact", "Rounded"}
    BY DEF Lossy
  <2> QED BY <1>4, <2>1, <2>2, <2>4, <2>5 DEF CopyFit
<1>6. ShiftIs(j, big, set)
  BY <1>0, <1>1, <1>4 DEF ShorterBy, ShiftIs
<1>7. PICK work : work = ResidueWork(big, neg, set, diffsign)
  OBVIOUS
<1>8. /\ j > 0 => work = Work(Stored(neg, b * Ten[j], d + j, be - j), res, Lossy)
      /\ ~(j > 0) => work = Work(Stored(neg, b, d, be), res, Lossy)
  <2>1. CopyFit(big, set, ResidueSign(diffsign), {}) = Work(Stored(bneg, b, d, be), res, Lossy)
    BY <1>0, <1>1, <1>5
  <2> HIDE <1>0, <1>1, <1>7
  <2>2. j > 0 => ResidueWork(big, neg, set, diffsign)
                   = Work(Stored(neg, b * Ten[j], d + j, be - j), res, Lossy)
    BY <1>6, <2>1, ResidueSigned
  <2>3. ~(j > 0) => ResidueWork(big, neg, set, diffsign)
                      = Work(Stored(neg, b, d, be), res, Lossy)
    BY <1>6, <2>1, ResidueSigned
  <2> QED BY <1>7, <2>2, <2>3
<1>9. work = Work(Stored(neg, b * Ten[j], d + j, be - j), res, Lossy)
  <2>1. CASE j > 0
    BY <1>8, <2>1
  <2>2. CASE ~(j > 0)
    <3>1. j = 0 /\ Ten[0] = 1
      BY <2>2, TenSmall
    <3>2. b * Ten[j] = b /\ d + j = d /\ be - j = be
      BY <3>1
    <3> QED BY <1>8, <2>2, <3>2
  <2> QED BY <2>1, <2>2
<1>10. GetDigits(b * Ten[j]) = d + j
  BY <1>1, DigitsOfPadded
<1>11. Finite(neg, b * Ten[j], be - j) = Stored(neg, b * Ten[j], d + j, be - j)
  BY <1>0, <1>10, FiniteIsStored
<1> QED BY <1>0, <1>1, <1>7, <1>9, <1>11

\* A coefficient one digit longer than the precision.
OneLonger(b, set) == GetDigits(b) - set.digits = 1

\* What is lost with its last digit, at the scale of what lies below.
LastLost(rest, b, size, below) == rest = (b % Ten[1]) * size + below

\* An operand one digit longer than the precision loses that digit, and the
\* residue stands for it together with the smaller operand.
LEMMA LongResidue ==
  ASSUME NEW bneg, NEW b \in Nat, NEW be \in Int, NEW neg, NEW set, Roomy(set),
         NEW diffsign \in BOOLEAN, OneLonger(b, set),
         NEW below \in Int, NEW size \in Nat, size > 0,
         Marks(ResidueSign(diffsign), below, size),
         NEW rest \in Int, rest # 0, LastLost(rest, b, size, below)
  PROVE  \E r \in Int :
           /\ StandsFor(r, rest, Ten[1] * size)
           /\ ResidueWork(Finite(bneg, b, be), neg, set, diffsign)
                = Work(Finite(neg, b \div Ten[1], be + 1), r, Lossy)
<1>0. PICK big : big = Finite(bneg, b, be)
  OBVIOUS
<1>1. PICK d \in Nat, s \in Int : d = GetDigits(b) /\ d >= 1 /\ b < Ten[d]
                                  /\ s = ResidueSign(diffsign)
  <2>1. GetDigits(b) \in Nat /\ GetDigits(b) >= 1 /\ b < Ten[GetDigits(b)]
    BY DigitsAre
  <2>2. ResidueSign(diffsign) \in Int
    BY DEF ResidueSign
  <2> QED BY <2>1, <2>2
<1>2. s \in {-1, 1} /\ Prior(s) = s
  BY <1>1 DEF ResidueSign, Prior
<1>3. /\ set.digits \in Nat /\ set.digits >= 1 /\ set.digits = d - 1
      /\ set.digits - d = -1 /\ d >= 2
  BY <1>1, RoomyFacts DEF OneLonger
<1>4. big = Stored(bneg, b, d, be) /\ big.digits = d
  <2>1. big = Stored(bneg, b, d, be)
    BY <1>0, <1>1, FiniteIsStored
  <2> QED BY <2>1, StoredFields
<1>5. PICK r : r = DropDigits(b, 1, s)
  OBVIOUS
<1>6. StandsFor(r, rest, Ten[1] * size)
  <2>1. 1 \in Nat /\ 1 > 0 /\ Marks(s, below, size)
    BY <1>1
  <2>2. StandsFor(DropDigits(b, 1, s), (b % Ten[1]) * size + below, Ten[1] * size)
    BY <2>1, DropDigitsSound
  <2> QED BY <1>5, <2>2 DEF LastLost
<1>7. r \in Int /\ r # 0
  BY <1>6 DEF StandsFor
<1>8. CopyFit(big, set, s, {}) = Work(Stored(bneg, b \div Ten[1], d - 1, be + 1), r, Lossy)
  <2>1. PICK w : w = Work(Stored(bneg, b, d, be), s, {}) /\ w.status = {}
    <3>1. Work(Stored(bneg, b, d, be), s, {}).status = {}
      BY WorkFields
    <3> QED BY <3>1
  <2>2. KeptDigits(d, 1) = d - 1
    BY <1>3 DEF KeptDigits
  <2>3. Cuts(w, set, Stored(bneg, b \div Ten[1], KeptDigits(d, 1), be + 1),
             DropDigits(b, 1, Prior(s)))
    <3>1. 1 \in Nat /\ 1 > 0 /\ 1 <= d /\ set.digits = d - 1 /\ b < Ten[d]
      BY <1>1, <1>3
    <3>2. Cuts(Work(Stored(bneg, b, d, be), s, {}), set,
               Stored(bneg, b \div Ten[1], KeptDigits(d, 1), be + 1),
               DropDigits(b, 1, Prior(s)))
      BY <3>1, SetCoeffSome
    <3> QED BY <2>1, <3>2
  <2>4. Cuts(w, set, Stored(bneg, b \div Ten[1], d - 1, be + 1), r)
    BY <1>2, <1>5, <2>2, <2>3
  <2>5. {} \cup {"Rounded"} \cup InexactIf(r) = Lossy
    BY <1>7 DEF InexactIf, Lossy
  <2>6. SetCoeff(w, set) = Work(Stored(bneg, b \div Ten[1], d - 1, be + 1), r, Lossy)
    BY <2>1, <2>4, <2>5 DEF Cuts
  <2> QED BY <1>4, <2>1, <2>6 DEF CopyFit
<1>9. PICK work : work = ResidueWork(big, neg, set, diffsign)
  OBVIOUS
<1>10. work = Work(Stored(neg, b \div Ten[1], d - 1, be + 1), r, Lossy)
  <2>1. PICK shift \in Int : shift = -1 /\ set.digits - big.digits = shift
    BY <1>3, <1>4
  <2>2. CopyFit(big, set, ResidueSign(diffsign), {})
          = Work(Stored(bneg, b \div Ten[1], d - 1, be + 1), r, Lossy)
    BY <1>1, <1>8
  <2>3. ~(shift > 0)
    BY <2>1
  <2>4. ShiftIs(shift, big, set)
    BY <2>1 DEF ShiftIs
  <2>5. ~(shift > 0) => ResidueWork(big, neg, set, diffsign)
                          = Work(Stored(neg, b \div Ten[1], d - 1, be + 1), r, Lossy)
    <3>1. b \div Ten[1] \in Nat /\ d - 1 \in Int /\ be + 1 \in Int
      <4>1. 1 \in Nat
        OBVIOUS
      <4>2. b \div Ten[1] \in Nat
        BY <4>1, CutAt
      <4> QED BY <4>2
    <3> QED BY <2>2, <2>4, <3>1, ResidueSigned
  <2> QED BY <1>9, <2>3, <2>5
<1>11. GetDigits(b \div Ten[1]) = d - 1
  <2>1. 1 \in Nat /\ 1 < GetDigits(b)
    BY <1>1, <1>3
  <2> QED BY <1>1, <2>1, DigitsKept
<1>12. Finite(neg, b \div Ten[1], be + 1) = Stored(neg, b \div Ten[1], d - 1, be + 1)
  BY <1>11, FiniteIsStored
<1> QED BY <1>0, <1>1, <1>6, <1>7, <1>9, <1>10, <1>12

\* n is a little more, or a little less, than c * 10^t.
Near(n, c, t, rest) ==
  /\ n = Ten[t] * c + rest
  /\ rest # 0 /\ rest < Ten[t]
  /\ rest < 0 => JustLess(n, c, t, t - 1, -rest)

\* A coefficient as long as the precision and a residue for what lies below it are
\* rounded to the exact result.
LEMMA NearIsRounded ==
  ASSUME NEW neg \in BOOLEAN, NEW set, Roomy(set), set.digits >= 2,
         NEW c \in Nat, c # 0, GetDigits(c) = set.digits,
         NEW t \in Nat, t > 0, NEW rest \in Int, NEW n, Near(n, c, t, rest),
         NEW e \in Int, NEW x \in Int, x = e + t,
         NEW r \in Int, StandsFor(r, rest, Ten[t])
  PROVE  /\ n \in Nat /\ n # 0
         /\ Outcome(Finalize(Work(Finite(neg, c, x), r, Lossy), set))
              = RoundedOnce(neg, n, e, set)
<1>1. /\ n = Ten[t] * c + rest /\ rest # 0 /\ rest < Ten[t]
      /\ rest < 0 => JustLess(n, c, t, t - 1, -rest)
  BY DEF Near
<1>2. CASE rest < 0
  <2>1. PICK k \in Nat, s \in Nat : k = t - 1 /\ s = -rest /\ -s = rest
    <3>1. t - 1 \in Nat /\ -rest \in Nat /\ -(-rest) = rest
      BY <1>2
    <3> QED BY <3>1
  <2>2. JustLess(n, c, t, k, s) /\ StandsFor(r, -s, Ten[t])
    BY <1>1, <1>2, <2>1
  <2>3. n \in Nat /\ n # 0
    BY <2>2, JustLessIs
  <2>4. Outcome(Finalize(Work(Finite(neg, c, x), r, Lossy), set)) = NonZeroResult(neg, n, e, set)
    BY <2>2, JustBelow
  <2> QED BY <2>3, <2>4 DEF RoundedOnce
<1>3. CASE rest > 0
  <2>1. rest \in Nat /\ rest < Ten[t] /\ n = Ten[t] * c + rest
    BY <1>1, <1>3
  <2>2. n \in Nat /\ n # 0 /\ GetDigits(n) = GetDigits(c) + t
    BY <2>1, DigitsScaled
  <2>3. Larger(0, GetDigits(n) - set.digits) = t
    <3>1. PICK d \in Nat : d = set.digits
      BY RoomyFacts
    <3>2. GetDigits(n) - set.digits = t
      BY <2>2, <3>1
    <3> QED BY <3>2 DEF Larger
  <2>4. CutFlags(t, rest) = Lossy
    BY <1>1 DEF CutFlags, InexactIf, Lossy
  <2>5. PICK w : w = Work(Finite(neg, c, x), r, Lossy)
    OBVIOUS
  <2>6. FirstCut(w, neg, n, e, t)
    <3>1. w = Work(Finite(neg, c, x), r, CutFlags(t, rest))
      BY <2>4, <2>5
    <3> QED BY <2>1, <2>2, <3>1, FirstCutIf
  <2>7. FirstCut(w, neg, n, e, Larger(0, GetDigits(n) - set.digits))
    BY <2>3, <2>6
  <2>8. Outcome(Finalize(w, set)) = RoundedOnce(neg, n, e, set)
    BY <2>2, <2>7, CutIsRounded
  <2> QED BY <2>2, <2>5, <2>8
<1> QED BY <1>1, <1>2, <1>3

\* The digits of the larger operand begin so far above the smaller that only a
\* residue of it is left: there are ds digits of the smaller below padding zeros.
FarAbove(b, padding, ds, set) ==
  /\ GetDigits(b) + padding > ds + set.digits + 1
  /\ GetDigits(b) <= set.digits + 1

\* How far the tail of the digits kept reaches above the smaller operand.
LEMMA TailIsFar ==
  ASSUME NEW b \in Nat, NEW padding \in Nat, NEW ds \in Nat, ds >= 1,
         NEW set, Roomy(set), FarAbove(b, padding, ds, set),
         NEW s \in Nat, s > 0, s < Ten[ds]
  PROVE  padding > ds /\ 10 * s <= Ten[padding] /\ s < Ten[padding]
<1>1. PICK d \in Nat, p \in Nat : d = GetDigits(b) /\ p = set.digits
  BY RoomyFacts, DigitsAre
<1>2. padding > ds
  BY <1>1 DEF FarAbove
<1>3. 10 * Ten[ds] <= Ten[padding] /\ Ten[ds] \in Nat /\ Ten[padding] \in Nat
  BY <1>2, TenStrict, TenNat
<1> QED BY <1>2, <1>3

\* An operand no longer than the precision, padded to it, and what lies below.
LEMMA ShortNear ==
  ASSUME NEW b \in Nat, b # 0, NEW padding \in Nat, NEW ds \in Nat, ds >= 1,
         NEW set, Roomy(set), FarAbove(b, padding, ds, set),
         NEW s \in Nat, s > 0, s < Ten[ds],
         NEW rest \in Int, rest \in {s, -s}, NEW j \in Nat, ShorterBy(b, set, j)
  PROVE  \E t \in Nat :
           /\ t > 0 /\ t = padding - j
           /\ Near(b * Ten[padding] + rest, b * Ten[j], t, rest)
           /\ rest = s => StandsFor(1, rest, Ten[t])
           /\ rest = -s => StandsFor(-1, rest, Ten[t])
<1>1. PICK d \in Nat, p \in Nat : d = GetDigits(b) /\ p = set.digits
  BY RoomyFacts, DigitsAre
<1>2. PICK t \in Nat, k \in Nat : t = padding - j /\ k = t - 1 /\ t = k + 1 /\ k > ds
  <2>1. padding - j - 1 \in Nat /\ padding - j \in Nat /\ padding - j - 1 > ds
    BY <1>1 DEF FarAbove, ShorterBy
  <2> QED BY <2>1
<1>3. PICK size \in Nat, u \in Nat : size = Ten[t] /\ u = Ten[k] /\ size = 10 * u /\ u > 0
  <2>1. Ten[t] = 10 * Ten[k] /\ Ten[k] \in Nat /\ Ten[k] > 0 /\ Ten[t] \in Nat
    BY <1>2, TenNext, TenNat
  <2> QED BY <2>1
<1>4. 10 * s <= u
  <2>1. 10 * Ten[ds] <= Ten[k] /\ Ten[ds] \in Nat
    BY <1>2, TenStrict, TenNat
  <2> QED BY <1>3, <2>1
<1>5. b * Ten[padding] + rest = Ten[t] * (b * Ten[j]) + rest
  <2>1. Ten[j + t] = Ten[j] * Ten[t] /\ Ten[j] \in Nat
    BY TenSum, TenNat
  <2>2. padding = j + t
    BY <1>2
  <2>3. PICK v \in Nat : v = Ten[j]
    BY <2>1
  <2>4. Ten[padding] = v * size
    BY <1>3, <2>1, <2>2, <2>3
  <2>5. b * (v * size) = size * (b * v)
    OBVIOUS
  <2> QED BY <1>3, <2>3, <2>4, <2>5
<1>6. rest # 0 /\ rest < Ten[t] /\ rest > -u
  BY <1>3, <1>4
<1>7. ASSUME rest < 0
      PROVE  JustLess(b * Ten[padding] + rest, b * Ten[j], t, t - 1, -rest)
  <2>1. t = k + 1 /\ t - 1 = k /\ -rest > 0 /\ 10 * (-rest) <= Ten[k]
    BY <1>2, <1>3, <1>4, <1>7
  <2>2. PICK m \in Int : m = Ten[t] * (b * Ten[j])
    <3>1. b * Ten[j] \in Nat
      BY DigitsOfPadded
    <3> HIDE <1>5
    <3> QED BY <1>3, <3>1
  <2>3. m + rest = m - (-rest)
    OBVIOUS
  <2> QED BY <1>5, <2>1, <2>2, <2>3 DEF JustLess
<1>8. Near(b * Ten[padding] + rest, b * Ten[j], t, rest)
  BY <1>5, <1>6, <1>7 DEF Near
<1>9. rest = s => StandsFor(1, rest, size)
  BY <1>3, <1>4 DEF StandsFor
<1>10. rest = -s => StandsFor(-1, rest, size)
  BY <1>3, <1>4 DEF StandsFor
<1> QED BY <1>2, <1>3, <1>8, <1>9, <1>10

\* An operand one digit longer: its last digit goes to what lies below.
LEMMA LongNear ==
  ASSUME NEW b \in Nat, NEW padding \in Nat, NEW ds \in Nat, ds >= 1,
         NEW set, Roomy(set), FarAbove(b, padding, ds, set), OneLonger(b, set),
         NEW s \in Nat, s > 0, s < Ten[ds],
         NEW below \in Int, below \in {s, -s}
  PROVE  \E rest \in Int :
           /\ rest # 0 /\ LastLost(rest, b, Ten[padding], below)
           /\ Near(b * Ten[padding] + below, b \div Ten[1], padding + 1, rest)
<1>1. padding > ds /\ 10 * s <= Ten[padding] /\ s < Ten[padding]
  BY TailIsFar
<1>2. PICK size \in Nat : size = Ten[padding] /\ Ten[padding + 1] = 10 * size
  BY TenNat, TenNext
<1>3. PICK q \in Nat, low \in Nat : q = b \div Ten[1] /\ low = b % Ten[1] /\ low <= 9
                                    /\ b = 10 * q + low
  <2>1. 1 \in Nat /\ Ten[1] = 10
    BY TenSmall
  <2>2. /\ b \div Ten[1] \in Nat /\ b % Ten[1] \in Nat /\ b % Ten[1] < Ten[1]
        /\ b = Ten[1] * (b \div Ten[1]) + (b % Ten[1])
    BY <2>1, CutAt
  <2> QED BY <2>1, <2>2
<1>4. PICK part \in Nat : part = low * size /\ part <= 9 * size /\ (low = 0 => part = 0)
                          /\ (low # 0 => part >= size)
  <2>1. low * size \in Nat /\ (low = 0 => low * size = 0)
    OBVIOUS
  <2>2. low * size <= 9 * size
    BY <1>3, Monotone
  <2>3. low # 0 => 1 * size <= low * size
    <3>1. low # 0 => 1 <= low
      OBVIOUS
    <3> QED BY <3>1, Monotone
  <2> QED BY <2>1, <2>2, <2>3
<1>5. PICK rest \in Int : rest = part + below
  OBVIOUS
<1>6. rest # 0 /\ rest < 10 * size /\ (rest < 0 => part = 0 /\ rest = below /\ below = -s)
  <2>0. /\ part <= 9 * size /\ (low = 0 => part = 0) /\ (low # 0 => part >= size)
        /\ s < size /\ below <= s /\ below >= -s /\ below # 0 /\ (below < 0 => below = -s)
    BY <1>1, <1>2, <1>4
  <2>1. CASE low = 0
    BY <1>5, <2>0, <2>1
  <2>2. CASE low # 0
    BY <1>5, <2>0, <2>2
  <2> QED BY <2>1, <2>2
<1>7. LastLost(rest, b, Ten[padding], below)
  BY <1>2, <1>3, <1>4, <1>5 DEF LastLost
<1>8. b * Ten[padding] + below = Ten[padding + 1] * q + rest
  <2>1. b * size = 10 * size * q + part
    <3>1. (10 * q + low) * size = 10 * size * q + low * size
      OBVIOUS
    <3> QED BY <1>3, <1>4, <3>1
  <2>2. 10 * size * q \in Int
    OBVIOUS
  <2> QED BY <1>2, <1>5, <2>1, <2>2
<1>9. ASSUME rest < 0
      PROVE  JustLess(b * Ten[padding] + below, q, padding + 1, (padding + 1) - 1, -rest)
  <2>1. (padding + 1) - 1 = padding /\ -rest = s /\ rest = -s
    BY <1>6, <1>9
  <2>2. PICK m \in Int : m = Ten[padding + 1] * q
    <3>1. Ten[padding + 1] * q \in Int
      BY <1>2
    <3> QED BY <3>1
  <2>3. m + rest = m - s
    BY <2>1
  <2>4. JustLess(b * Ten[padding] + below, q, padding + 1, padding, s)
    BY <1>1, <1>8, <2>2, <2>3 DEF JustLess
  <2> QED BY <2>1, <2>4
<1>10. Near(b * Ten[padding] + below, q, padding + 1, rest)
  BY <1>2, <1>6, <1>8, <1>9 DEF Near
<1> QED BY <1>3, <1>5, <1>6, <1>7, <1>10

\* The sign of the smaller operand is that of its residue.
Below(below, s, diffsign) == below = IF diffsign THEN -s ELSE s

\* An exponent the padding above another.
Above(be, e, padding) == be - e = padding

\* The exact sum.
Total(n, b, padding, below) == n = b * Ten[padding] + below

\* The residue path where the larger operand is no longer than the precision.
LEMMA ShortResidueSum ==
  ASSUME NEW bneg, NEW b \in Nat, b # 0, NEW be \in Int, NEW e \in Int,
         NEW padding \in Nat, Above(be, e, padding), NEW ds \in Nat, ds >= 1,
         NEW set, Roomy(set), set.digits >= 2, FarAbove(b, padding, ds, set),
         NEW s \in Nat, s > 0, s < Ten[ds],
         NEW diffsign \in BOOLEAN, NEW below \in Int, Below(below, s, diffsign),
         NEW neg \in BOOLEAN, NEW j \in Nat, ShorterBy(b, set, j),
         NEW n, Total(n, b, padding, below)
  PROVE  /\ n \in Nat
         /\ Outcome(AddResidue(Finite(bneg, b, be), neg, set, diffsign))
              = RoundedOnce(neg, n, e, set)
<1>1. below \in {s, -s}
  BY DEF Below
<1>2. PICK t \in Nat : /\ t > 0 /\ t = padding - j
                       /\ Near(b * Ten[padding] + below, b * Ten[j], t, below)
                       /\ below = s => StandsFor(1, below, Ten[t])
                       /\ below = -s => StandsFor(-1, below, Ten[t])
  BY <1>1, ShortNear
<1>3. PICK r \in Int : r = ResidueSign(diffsign) /\ StandsFor(r, below, Ten[t])
  <2>1. CASE diffsign
    <3>1. ResidueSign(diffsign) = -1 /\ below = -s
      BY <2>1 DEF ResidueSign, Below
    <3> QED BY <1>2, <3>1
  <2>2. CASE ~diffsign
    <3>1. ResidueSign(diffsign) = 1 /\ below = s
      BY <2>2 DEF ResidueSign, Below
    <3> QED BY <1>2, <3>1
  <2> QED BY <2>1, <2>2
<1>4. PICK c \in Nat : c = b * Ten[j] /\ c # 0 /\ GetDigits(c) = set.digits
  <2>1. b * Ten[j] \in Nat /\ b * Ten[j] # 0 /\ GetDigits(b * Ten[j]) = GetDigits(b) + j
    BY DigitsOfPadded
  <2>2. GetDigits(b) \in Nat /\ set.digits \in Nat
    BY RoomyFacts, DigitsAre
  <2> QED BY <2>1, <2>2 DEF ShorterBy
<1>5. PICK x \in Int : x = be - j /\ x = e + t
  BY <1>2 DEF Above
<1>6. Near(n, c, t, below)
  BY <1>2, <1>4 DEF Total
<1>7. /\ n \in Nat
      /\ Outcome(Finalize(Work(Finite(neg, c, x), r, Lossy), set)) = RoundedOnce(neg, n, e, set)
  <2>1. t > 0 /\ c # 0 /\ GetDigits(c) = set.digits /\ StandsFor(r, below, Ten[t]) /\ x = e + t
    BY <1>2, <1>3, <1>4, <1>5
  <2> QED BY <1>6, <2>1, NearIsRounded
<1>8. ResidueWork(Finite(bneg, b, be), neg, set, diffsign) = Work(Finite(neg, c, x), r, Lossy)
  <2>1. ResidueWork(Finite(bneg, b, be), neg, set, diffsign)
          = Work(Finite(neg, b * Ten[j], be - j), ResidueSign(diffsign), Lossy)
    BY ShortResidue
  <2> QED BY <1>3, <1>4, <1>5, <2>1
<1> QED BY <1>7, <1>8, ResidueWorkIs

\* The residue path where it is one digit longer.
LEMMA LongResidueSum ==
  ASSUME NEW bneg, NEW b \in Nat, b # 0, NEW be \in Int, NEW e \in Int,
         NEW padding \in Nat, Above(be, e, padding), NEW ds \in Nat, ds >= 1,
         NEW set, Roomy(set), set.digits >= 2, FarAbove(b, padding, ds, set),
         NEW s \in Nat, s > 0, s < Ten[ds],
         NEW diffsign \in BOOLEAN, NEW below \in Int, Below(below, s, diffsign),
         NEW neg \in BOOLEAN, OneLonger(b, set),
         NEW n, Total(n, b, padding, below)
  PROVE  /\ n \in Nat
         /\ Outcome(AddResidue(Finite(bneg, b, be), neg, set, diffsign))
              = RoundedOnce(neg, n, e, set)
<1>1. below \in {s, -s}
  BY DEF Below
<1>2. PICK rest \in Int :
           /\ rest # 0 /\ LastLost(rest, b, Ten[padding], below)
           /\ Near(b * Ten[padding] + below, b \div Ten[1], padding + 1, rest)
  BY <1>1, LongNear
<1>3. PICK size \in Nat : size = Ten[padding] /\ size > 0 /\ s < size
  <2>1. Ten[padding] \in Nat /\ Ten[padding] > 0 /\ s < Ten[padding]
    BY TenNat, TailIsFar
  <2> QED BY <2>1
<1>4. Marks(ResidueSign(diffsign), below, size)
  <2>1. CASE diffsign
    <3>1. ResidueSign(diffsign) = -1 /\ below = -s
      BY <2>1 DEF ResidueSign, Below
    <3> QED BY <1>3, <3>1 DEF Marks
  <2>2. CASE ~diffsign
    <3>1. ResidueSign(diffsign) = 1 /\ below = s
      BY <2>2 DEF ResidueSign, Below
    <3> QED BY <1>3, <3>1 DEF Marks
  <2> QED BY <2>1, <2>2
<1>5. PICK r \in Int :
           /\ StandsFor(r, rest, Ten[1] * size)
           /\ ResidueWork(Finite(bneg, b, be), neg, set, diffsign)
                = Work(Finite(neg, b \div Ten[1], be + 1), r, Lossy)
  <2>1. LastLost(rest, b, size, below)
    BY <1>2, <1>3
  <2> QED BY <1>2, <1>3, <1>4, <2>1, LongResidue
<1>6. PICK t \in Nat : t = padding + 1 /\ t > 0 /\ Ten[t] = Ten[1] * size
  <2>1. Ten[padding + 1] = 10 * Ten[padding] /\ Ten[1] = 10
    BY TenNext, TenSmall
  <2> QED BY <1>3, <2>1
<1>7. PICK c \in Nat : c = b \div Ten[1] /\ c # 0 /\ GetDigits(c) = set.digits
  <2>1. 1 \in Nat /\ 1 < GetDigits(b) /\ set.digits = GetDigits(b) - 1
    <3>1. set.digits \in Nat /\ GetDigits(b) \in Nat
      BY RoomyFacts, DigitsAre
    <3> QED BY <3>1 DEF OneLonger
  <2>2. GetDigits(b \div Ten[1]) = GetDigits(b) - 1 /\ b \div Ten[1] # 0
    BY <2>1, DigitsKept
  <2>3. b \div Ten[1] \in Nat
    BY <2>1, CutAt
  <2> QED BY <2>1, <2>2, <2>3
<1>8. PICK x \in Int : x = be + 1 /\ x = e + t
  BY <1>6 DEF Above
<1>9. Near(n, c, t, rest) /\ StandsFor(r, rest, Ten[t])
  BY <1>2, <1>5, <1>6, <1>7 DEF Total
<1>10. /\ n \in Nat
       /\ Outcome(Finalize(Work(Finite(neg, c, x), r, Lossy), set)) = RoundedOnce(neg, n, e, set)
  <2>1. t > 0 /\ c # 0 /\ GetDigits(c) = set.digits /\ x = e + t
    BY <1>6, <1>7, <1>8
  <2> QED BY <1>9, <2>1, NearIsRounded
<1>11. ResidueWork(Finite(bneg, b, be), neg, set, diffsign) = Work(Finite(neg, c, x), r, Lossy)
  BY <1>5, <1>7, <1>8
<1> QED BY <1>10, <1>11, ResidueWorkIs

\* decAddOp's shortcut for an operand that is only a residue of the other.
LEMMA ResidueSum ==
  ASSUME NEW small, IsFinite(small), small.coeff # 0,
         NEW big, IsFinite(big), big.coeff # 0, NEW set, big.digits <= set.digits + 1,
         Roomy(set), set.digits >= 2,
         NEW padding \in Nat, Above(big.exponent, small.exponent, padding),
         SmallIsResidue(big, small, padding, set),
         NEW n \in Nat, Aligns(n, big, padding),
         NEW sneg \in BOOLEAN, NEW neg \in BOOLEAN, NEW diffsign \in BOOLEAN,
         Differ(diffsign, sneg, neg)
  PROVE  Outcome(AddResidue(big, neg, set, diffsign))
           = SumAt(sneg, small.coeff, neg, n, small.exponent, set)
<1>1. PICK s \in Nat, ds \in Nat, e \in Int :
           /\ s = small.coeff /\ s > 0 /\ ds = small.digits /\ ds >= 1 /\ s < Ten[ds]
           /\ e = small.exponent
  <2>1. small.coeff \in Nat /\ small.exponent \in Int
    BY DEF IsFinite
  <2>2. small.digits = GetDigits(small.coeff) /\ small.digits \in Nat /\ small.digits >= 1
    BY FiniteFields
  <2>3. small.coeff < Ten[small.digits]
    BY <2>1, <2>2, DigitsAre
  <2> QED BY <2>1, <2>2, <2>3
<1>2. PICK b \in Nat, be \in Int :
           /\ b = big.coeff /\ b # 0 /\ be = big.exponent /\ big = Finite(big.neg, b, be)
           /\ GetDigits(b) = big.digits
  <2>1. /\ big.coeff \in Nat /\ big.exponent \in Int
        /\ big = Finite(big.neg, big.coeff, big.exponent)
    BY DEF IsFinite
  <2>2. big.digits = GetDigits(big.coeff)
    BY FiniteFields
  <2> QED BY <2>1, <2>2
<1>3. FarAbove(b, padding, ds, set)
  BY <1>1, <1>2 DEF SmallIsResidue, FarAbove
<1>4. Above(be, e, padding) /\ n = b * Ten[padding]
  BY <1>1, <1>2 DEF Aligns
<1>5. n > s
  <2>1. s < Ten[padding] /\ Ten[padding] \in Nat
    BY <1>1, <1>3, TailIsFar, TenNat
  <2>2. PICK size \in Nat : size = Ten[padding]
    BY <2>1
  <2>3. 1 * size <= b * size
    <3>1. 1 <= b
      BY <1>2
    <3> QED BY <3>1, Monotone
  <2> QED BY <1>4, <2>1, <2>2, <2>3
<1>6. PICK below \in Int : Below(below, s, diffsign) /\ below = IF diffsign THEN -s ELSE s
  BY DEF Below
<1>7. PICK total : Total(total, b, padding, below) /\ total = n + below
  BY <1>4 DEF Total
<1>8. Outcome(AddResidue(Finite(big.neg, b, be), neg, set, diffsign))
        = RoundedOnce(neg, total, e, set)
  <2>1. PICK d \in Nat, p \in Nat : d = GetDigits(b) /\ p = set.digits /\ d <= p + 1
    <3>1. GetDigits(b) \in Nat /\ set.digits \in Nat
      BY RoomyFacts, DigitsAre
    <3> QED BY <1>2, <3>1
  <2>2. CASE d <= p
    <3>1. PICK j \in Nat : ShorterBy(b, set, j)
      <4>1. p - d \in Nat /\ set.digits - GetDigits(b) = p - d
        BY <2>1, <2>2
      <4> QED BY <4>1 DEF ShorterBy
    <3> QED BY <1>1, <1>2, <1>3, <1>4, <1>6, <1>7, <3>1, ShortResidueSum
  <2>3. CASE ~(d <= p)
    <3>1. OneLonger(b, set)
      BY <2>1, <2>3 DEF OneLonger
    <3> QED BY <1>1, <1>2, <1>3, <1>4, <1>6, <1>7, <3>1, LongResidueSum
  <2> QED BY <2>2, <2>3
<1>9. SumAt(sneg, s, neg, n, e, set) = RoundedOnce(neg, total, e, set)
  <2>1. CASE sneg = neg
    <3>1. total = s + n
      <4>1. ~diffsign
        BY <2>1 DEF Differ
      <4> QED BY <1>6, <1>7, <4>1
    <3>2. SumAt(sneg, s, neg, n, e, set) = RoundedOnce(sneg, s + n, e, set)
      BY <2>1, Zenon DEF SumAt
    <3> QED BY <2>1, <3>1, <3>2
  <2>2. CASE sneg # neg
    <3>1. total = n - s
      <4>1. diffsign
        BY <2>2 DEF Differ
      <4> QED BY <1>6, <1>7, <4>1
    <3>2. ~(sneg = neg) /\ ~(s > n) /\ n > s
      BY <1>5, <2>2
    <3>3. SumAt(sneg, s, neg, n, e, set) = RoundedOnce(neg, n - s, e, set)
      BY <3>2, Zenon DEF SumAt
    <3> QED BY <3>1, <3>3
  <2> QED BY <2>1, <2>2
<1>10. big = Finite(big.neg, b, be)
  BY <1>2
<1> QED BY <1>1, <1>8, <1>9, <1>10

\* Which path decAddOp takes for operands that are not zero: small and big are lhs
\* and rhs, or the other way round.
AddsThem(sum, small, big, padding, sneg, bneg, set, diffsign) ==
  \/ SmallIsResidue(big, small, padding, set) /\ sum = AddResidue(big, bneg, set, diffsign)
  \/ sum = AddAligned(small, big, padding, sneg, set, diffsign)

\* Either path gives the exact sum, rounded once.
LEMMA EitherSum ==
  ASSUME NEW small, IsFinite(small), small.coeff # 0,
         NEW big, IsFinite(big), big.coeff # 0, NEW set, big.digits <= set.digits + 1,
         Roomy(set), set.digits >= 2,
         NEW padding \in Nat, Above(big.exponent, small.exponent, padding),
         NEW n \in Nat, Aligns(n, big, padding),
         NEW sneg \in BOOLEAN, NEW bneg \in BOOLEAN, NEW diffsign \in BOOLEAN,
         Differ(diffsign, sneg, bneg),
         NEW sum, AddsThem(sum, small, big, padding, sneg, bneg, set, diffsign)
  PROVE  Outcome(sum) = SumAt(sneg, small.coeff, bneg, n, small.exponent, set)
<1>1. CASE SmallIsResidue(big, small, padding, set) /\ sum = AddResidue(big, bneg, set, diffsign)
  <2>1. Outcome(AddResidue(big, bneg, set, diffsign))
          = SumAt(sneg, small.coeff, bneg, n, small.exponent, set)
    BY <1>1, ResidueSum
  <2> QED BY <1>1, <2>1
<1>2. CASE sum = AddAligned(small, big, padding, sneg, set, diffsign)
  <2>1. Outcome(AddAligned(small, big, padding, sneg, set, diffsign))
          = SumAt(sneg, small.coeff, bneg, n, small.exponent, set)
    BY AlignedSum
  <2> QED BY <1>2, <2>1
<1> QED BY <1>1, <1>2 DEF AddsThem

\* decAddOp for operands that are not zero: the fast path, the shortcut for an
\* operand far below the other, or the aligned coefficients, whichever is lower.
LEMMA AddNonZeroIs ==
  ASSUME NEW lhs, IsFinite(lhs), lhs.coeff # 0, NEW rhs, IsFinite(rhs), rhs.coeff # 0,
         NEW set, NEW negate \in BOOLEAN, NEW rneg \in BOOLEAN, Turned(rneg, rhs.neg, negate)
  PROVE  LET diffsign == DiffSign(lhs, rhs, negate)
             sum      == AddNonZero(lhs, rhs, set, negate)
         IN  \/ sum = AddFast(lhs, rhs, diffsign) /\ AddIsFast(lhs, rhs, set, diffsign)
             \/ /\ rhs.exponent < lhs.exponent
                /\ AddsThem(sum, rhs, lhs, lhs.exponent - rhs.exponent,
                            rneg, lhs.neg, set, diffsign)
             \/ /\ ~(rhs.exponent < lhs.exponent)
                /\ AddsThem(sum, lhs, rhs, rhs.exponent - lhs.exponent,
                            lhs.neg, rneg, set, diffsign)
<1>1. PICK diffsign, sum : diffsign = DiffSign(lhs, rhs, negate)
                           /\ sum = AddNonZero(lhs, rhs, set, negate)
  OBVIOUS
<1>2. (rhs.neg # negate) = rneg
  BY DEF Turned
<1>3. CASE AddIsFast(lhs, rhs, set, diffsign)
  <2>1. sum = AddFast(lhs, rhs, diffsign)
    BY <1>1, <1>3, Zenon DEF AddNonZero
  <2> QED BY <1>1, <1>3, <2>1
<1>4. CASE ~AddIsFast(lhs, rhs, set, diffsign) /\ rhs.exponent < lhs.exponent
  <2>1. sum = CASE lhs.exponent - rhs.exponent # 0
                     /\ SmallIsResidue(lhs, rhs, lhs.exponent - rhs.exponent, set) ->
                     AddResidue(lhs, lhs.neg, set, diffsign)
                [] OTHER -> AddAligned(rhs, lhs, lhs.exponent - rhs.exponent, rneg, set, diffsign)
    BY <1>1, <1>2, <1>4 DEF AddNonZero
  <2>2. AddsThem(sum, rhs, lhs, lhs.exponent - rhs.exponent, rneg, lhs.neg, set, diffsign)
    BY <2>1 DEF AddsThem
  <2> QED BY <1>1, <1>4, <2>2
<1>5. CASE ~AddIsFast(lhs, rhs, set, diffsign) /\ ~(rhs.exponent < lhs.exponent)
  <2>1. sum = CASE rhs.exponent - lhs.exponent # 0
                     /\ SmallIsResidue(rhs, lhs, rhs.exponent - lhs.exponent, set) ->
                     AddResidue(rhs, rneg, set, diffsign)
                [] OTHER -> AddAligned(lhs, rhs, rhs.exponent - lhs.exponent, lhs.neg, set, diffsign)
    BY <1>1, <1>2, <1>5 DEF AddNonZero
  <2>2. AddsThem(sum, lhs, rhs, rhs.exponent - lhs.exponent, lhs.neg, rneg, set, diffsign)
    BY <2>1 DEF AddsThem
  <2> QED BY <1>1, <1>5, <2>2
<1> QED BY <1>3, <1>4, <1>5

\* The sign of the difference is that of the operation.
LEMMA SignsDiffer ==
  ASSUME NEW lhs, lhs.neg \in BOOLEAN, NEW rhs, rhs.neg \in BOOLEAN,
         NEW negate \in BOOLEAN, NEW rneg \in BOOLEAN, Turned(rneg, rhs.neg, negate)
  PROVE  /\ DiffSign(lhs, rhs, negate) \in BOOLEAN
         /\ Differ(DiffSign(lhs, rhs, negate), lhs.neg, rneg)
         /\ Differ(DiffSign(lhs, rhs, negate), rneg, lhs.neg)
<1>1. DiffSign(lhs, rhs, negate) = (lhs.neg # rneg)
  BY DEF DiffSign, Turned
<1> QED BY <1>1 DEF Differ

\* So decAddOp gives the exact sum of operands that are not zero, rounded once.
LEMMA AddNonZeroSum ==
  ASSUME NEW lhs, IsFinite(lhs), lhs.coeff # 0, NEW rhs, IsFinite(rhs), rhs.coeff # 0,
         NEW set, NotLong(lhs, set), NotLong(rhs, set), Roomy(set), set.digits >= 2,
         NEW negate \in BOOLEAN, NEW rneg \in BOOLEAN, Turned(rneg, rhs.neg, negate),
         NEW e \in Int, NEW j \in Nat, NEW k \in Nat, AtLower(lhs, rhs, e, j, k),
         NEW m \in Nat, Aligns(m, lhs, j), NEW n \in Nat, Aligns(n, rhs, k)
  PROVE  Outcome(AddNonZero(lhs, rhs, set, negate)) = SumAt(lhs.neg, m, rneg, n, e, set)
<1>1. PICK lneg \in BOOLEAN, lc \in Nat, le \in Int : lneg = lhs.neg /\ lc = lhs.coeff /\ le = lhs.exponent
  BY DEF IsFinite
<1>2. PICK rc \in Nat, re \in Int : rc = rhs.coeff /\ re = rhs.exponent
  BY DEF IsFinite
<1>3. PICK diffsign \in BOOLEAN :
           /\ diffsign = DiffSign(lhs, rhs, negate)
           /\ Differ(diffsign, lneg, rneg) /\ Differ(diffsign, rneg, lneg)
  <2>1. lhs.neg \in BOOLEAN /\ rhs.neg \in BOOLEAN
    BY DEF IsFinite
  <2> QED BY <1>1, <2>1, SignsDiffer
<1>4. PICK sum : sum = AddNonZero(lhs, rhs, set, negate)
  OBVIOUS
<1>5. \/ sum = AddFast(lhs, rhs, diffsign) /\ AddIsFast(lhs, rhs, set, diffsign)
      \/ re < le /\ AddsThem(sum, rhs, lhs, le - re, rneg, lneg, set, diffsign)
      \/ ~(re < le) /\ AddsThem(sum, lhs, rhs, re - le, lneg, rneg, set, diffsign)
  BY <1>1, <1>2, <1>3, <1>4, AddNonZeroIs
<1>6. e = Smaller(le, re) /\ le - e = j /\ re - e = k
  BY <1>1, <1>2 DEF AtLower
<1>7. ASSUME j = 0 PROVE m = lc /\ e = le
  <2>1. Ten[0] = 1
    BY TenSmall
  <2> QED BY <1>1, <1>6, <1>7, <2>1 DEF Aligns
<1>8. ASSUME k = 0 PROVE n = rc /\ e = re
  <2>1. Ten[0] = 1
    BY TenSmall
  <2> QED BY <1>2, <1>6, <1>8, <2>1 DEF Aligns
<1>9. CASE sum = AddFast(lhs, rhs, diffsign) /\ AddIsFast(lhs, rhs, set, diffsign)
  <2>1. re = le
    BY <1>1, <1>2, <1>9 DEF AddIsFast
  <2>2. j = 0 /\ k = 0
    BY <1>6, <2>1 DEF Smaller
  <2>3. m = lc /\ n = rc /\ e = le
    BY <1>7, <1>8, <2>2
  <2>4. Differ(diffsign, lhs.neg, rneg)
    BY <1>1, <1>3
  <2>5. Outcome(AddFast(lhs, rhs, diffsign))
          = SumAt(lhs.neg, lhs.coeff, rneg, rhs.coeff, lhs.exponent, set)
    BY <1>9, <2>4, FastSum
  <2> QED BY <1>1, <1>2, <1>4, <1>9, <2>3, <2>5
<1>10. CASE re < le /\ AddsThem(sum, rhs, lhs, le - re, rneg, lneg, set, diffsign)
  <2>1. k = 0 /\ j = le - re
    BY <1>6, <1>10 DEF Smaller
  <2>2. n = rc /\ e = re
    BY <1>8, <2>1
  <2>3. Above(lhs.exponent, rhs.exponent, j)
    BY <1>1, <1>2, <2>1 DEF Above
  <2>4. AddsThem(sum, rhs, lhs, j, rneg, lneg, set, diffsign)
    BY <1>10, <2>1
  <2>5. lhs.digits <= set.digits + 1
    BY DEF NotLong
  <2>6. Outcome(sum) = SumAt(rneg, rhs.coeff, lneg, m, rhs.exponent, set)
    BY <1>3, <2>3, <2>4, <2>5, EitherSum
  <2>7. SumAt(rneg, n, lneg, m, e, set) = SumAt(lneg, m, rneg, n, e, set)
    BY SumCommutes
  <2> QED BY <1>1, <1>2, <1>4, <2>2, <2>6, <2>7
<1>11. CASE ~(re < le) /\ AddsThem(sum, lhs, rhs, re - le, lneg, rneg, set, diffsign)
  <2>1. j = 0 /\ k = re - le
    BY <1>6, <1>11 DEF Smaller
  <2>2. m = lc /\ e = le
    BY <1>7, <2>1
  <2>3. Above(rhs.exponent, lhs.exponent, k)
    BY <1>1, <1>2, <2>1 DEF Above
  <2>4. AddsThem(sum, lhs, rhs, k, lneg, rneg, set, diffsign)
    BY <1>11, <2>1
  <2>5. rhs.digits <= set.digits + 1
    BY DEF NotLong
  <2>6. Outcome(sum) = SumAt(lneg, lhs.coeff, rneg, n, lhs.exponent, set)
    BY <1>3, <2>3, <2>4, <2>5, EitherSum
  <2> QED BY <1>1, <1>2, <1>4, <2>2, <2>6
<1> QED BY <1>5, <1>9, <1>10, <1>11

\* decAddOp for finite operands, either of them zero or not.
LEMMA AddOpSum ==
  ASSUME NEW lhs, IsFinite(lhs), NEW rhs, IsFinite(rhs),
         NEW set, Roomy(set), Summable(lhs, rhs, set),
         NEW negate \in BOOLEAN, NEW rneg \in BOOLEAN, Turned(rneg, rhs.neg, negate),
         NEW e \in Int, NEW j \in Nat, NEW k \in Nat, AtLower(lhs, rhs, e, j, k),
         NEW m \in Nat, Aligns(m, lhs, j), NEW n \in Nat, Aligns(n, rhs, k)
  PROVE  Outcome(AddOp(lhs, rhs, set, negate)) = SumAt(lhs.neg, m, rneg, n, e, set)
<1>1. /\ ~IsNaN(lhs) /\ ~IsSpecial(lhs) /\ (IsZero(lhs) <=> lhs.coeff = 0)
      /\ ~IsNaN(rhs) /\ ~IsSpecial(rhs) /\ (IsZero(rhs) <=> rhs.coeff = 0)
  BY FiniteFields
<1>2. lhs.coeff \in Nat /\ rhs.coeff \in Nat
  BY DEF IsFinite
<1>3. e = Smaller(lhs.exponent, rhs.exponent) /\ lhs.exponent - e = j /\ rhs.exponent - e = k
  BY DEF AtLower
<1>4. CASE lhs.coeff = 0
  <2>1. AddOp(lhs, rhs, set, negate) = AddToZero(lhs, rhs, set, negate)
    BY <1>1, <1>4, Zenon DEF AddOp
  <2>2. m = 0
    <3>1. Ten[j] \in Nat
      BY TenNat
    <3> QED BY <1>4, <3>1 DEF Aligns
  <2>3. n = rhs.coeff * Ten[k] /\ k = rhs.exponent - e
    BY <1>3 DEF Aligns
  <2>4. Outcome(AddToZero(lhs, rhs, set, negate)) = SumAt(lhs.neg, 0, rneg, n, e, set)
    BY <1>3, <1>4, <2>3, AddToZeroSum
  <2> QED BY <2>1, <2>2, <2>4
<1>5. CASE lhs.coeff # 0 /\ rhs.coeff = 0
  <2>1. AddOp(lhs, rhs, set, negate) = AddZero(lhs, rhs, set)
    BY <1>1, <1>5, Zenon DEF AddOp
  <2>2. n = 0
    <3>1. Ten[k] \in Nat
      BY TenNat
    <3> QED BY <1>5, <3>1 DEF Aligns
  <2>3. m = lhs.coeff * Ten[j] /\ j = lhs.exponent - e
    BY <1>3 DEF Aligns
  <2>4. Outcome(AddZero(lhs, rhs, set)) = SumAt(lhs.neg, m, rneg, 0, e, set)
    BY <1>3, <1>5, <2>3, AddZeroSum
  <2> QED BY <2>1, <2>2, <2>4
<1>6. CASE lhs.coeff # 0 /\ rhs.coeff # 0
  <2>1. AddOp(lhs, rhs, set, negate) = AddNonZero(lhs, rhs, set, negate)
    BY <1>1, <1>6, Zenon DEF AddOp
  <2>2. set.digits >= 2 /\ NotLong(lhs, set) /\ NotLong(rhs, set)
    BY <1>6 DEF Summable
  <2>3. Outcome(AddNonZero(lhs, rhs, set, negate)) = SumAt(lhs.neg, m, rneg, n, e, set)
    BY <1>6, <2>2, AddNonZeroSum
  <2> QED BY <2>1, <2>3
<1> QED BY <1>4, <1>5, <1>6

\* A sum rounded once is some number rounded once.
LEMMA SumRounds ==
  ASSUME NEW aneg \in BOOLEAN, NEW m \in Nat, NEW bneg \in BOOLEAN, NEW n \in Nat,
         NEW e, NEW set
  PROVE  \E neg \in BOOLEAN, c \in Nat :
           SumAt(aneg, m, bneg, n, e, set) = RoundedOnce(neg, c, e, set)
<1>1. CASE aneg = bneg
  <2>1. SumAt(aneg, m, bneg, n, e, set) = RoundedOnce(aneg, m + n, e, set)
    BY <1>1, Zenon DEF SumAt
  <2>2. m + n \in Nat
    OBVIOUS
  <2> QED BY <2>1, <2>2
<1>2. CASE ~(aneg = bneg) /\ m > n
  <2>1. SumAt(aneg, m, bneg, n, e, set) = RoundedOnce(aneg, m - n, e, set)
    BY <1>2, Zenon DEF SumAt
  <2>2. m - n \in Nat
    BY <1>2
  <2> QED BY <2>1, <2>2
<1>3. CASE ~(aneg = bneg) /\ ~(m > n) /\ n > m
  <2>1. SumAt(aneg, m, bneg, n, e, set) = RoundedOnce(bneg, n - m, e, set)
    BY <1>3, Zenon DEF SumAt
  <2>2. n - m \in Nat
    BY <1>3
  <2> QED BY <2>1, <2>2
<1>4. CASE ~(aneg = bneg) /\ ~(m > n) /\ ~(n > m)
  <2>1. SumAt(aneg, m, bneg, n, e, set) = RoundedOnce(set.round = "FLOOR", 0, e, set)
    BY <1>4, Zenon DEF SumAt
  <2>2. (set.round = "FLOOR") \in BOOLEAN /\ 0 \in Nat
    OBVIOUS
  <2> QED BY <2>1, <2>2
<1> QED BY <1>1, <1>2, <1>3, <1>4

\* dn with the sign neg.
Resign(dn, neg) == [ dn EXCEPT !.neg = neg ]

\* It is as finite as dn.
LEMMA ResignIs ==
  ASSUME NEW dn, IsFinite(dn), NEW neg \in BOOLEAN
  PROVE  /\ IsFinite(Resign(dn, neg)) /\ Resign(dn, neg).neg = neg
         /\ Resign(dn, neg).coeff = dn.coeff /\ Resign(dn, neg).exponent = dn.exponent
<1>1. PICK c \in Nat, x \in Int : c = dn.coeff /\ x = dn.exponent /\ dn = Finite(dn.neg, c, x)
  BY DEF IsFinite
<1>2. dn = Stored(dn.neg, c, GetDigits(c), x)
  BY <1>1, FiniteIsStored
<1>3. Resign(dn, neg) = Stored(neg, c, GetDigits(c), x)
  <2>1. [ Stored(dn.neg, c, GetDigits(c), x) EXCEPT !.neg = neg ] = Stored(neg, c, GetDigits(c), x)
    BY NegSet
  <2> QED BY <1>2, <2>1 DEF Resign
<1>4. Resign(dn, neg) = Finite(neg, c, x)
  BY <1>3, FiniteIsStored
<1> QED BY <1>1, <1>4, FiniteIs

\* decAddOp as a public function calls it: the exact sum, rounded once.
LEMMA AddIsRounded ==
  ASSUME NEW lhs, IsFinite(lhs), NEW rhs, IsFinite(rhs),
         NEW set, Roomy(set), Summable(lhs, rhs, set),
         NEW negate \in BOOLEAN, NEW rneg \in BOOLEAN, Turned(rneg, rhs.neg, negate)
  PROVE  Status(AddOp(lhs, rhs, set, negate)) = SumReference(lhs, Resign(rhs, rneg), set)
<1>1. lhs.coeff \in Nat /\ lhs.exponent \in Int /\ rhs.coeff \in Nat /\ rhs.exponent \in Int
  BY DEF IsFinite
<1>2. PICK e \in Int, j \in Nat, k \in Nat : AtLower(lhs, rhs, e, j, k)
  <2>1. PICK x \in Int, y \in Int : x = lhs.exponent /\ y = rhs.exponent
    BY <1>1
  <2>2. PICK e \in Int : e = Smaller(x, y)
    BY DEF Smaller
  <2>3. x - e \in Nat /\ y - e \in Nat
    BY <2>2 DEF Smaller
  <2>4. AtLower(lhs, rhs, e, x - e, y - e)
    BY <2>1, <2>2 DEF AtLower
  <2> QED BY <2>3, <2>4
<1>3. PICK m \in Nat : Aligns(m, lhs, j)
  <2>1. Ten[j] \in Nat
    BY TenNat
  <2>2. lhs.coeff * Ten[j] \in Nat
    BY <1>1, <2>1
  <2> QED BY <2>2 DEF Aligns
<1>4. PICK n \in Nat : Aligns(n, rhs, k)
  <2>1. Ten[k] \in Nat
    BY TenNat
  <2>2. rhs.coeff * Ten[k] \in Nat
    BY <1>1, <2>1
  <2> QED BY <2>2 DEF Aligns
<1>5. PICK w : w = AddOp(lhs, rhs, set, negate)
  OBVIOUS
<1>6. Outcome(w) = SumAt(lhs.neg, m, rneg, n, e, set)
  BY <1>2, <1>3, <1>4, <1>5, AddOpSum
<1>7. PICK neg \in BOOLEAN, c \in Nat :
           SumAt(lhs.neg, m, rneg, n, e, set) = RoundedOnce(neg, c, e, set)
  <2>1. lhs.neg \in BOOLEAN
    BY DEF IsFinite
  <2> QED BY <2>1, SumRounds
<1>8. Status(w) = SumAt(lhs.neg, m, rneg, n, e, set)
  <2>1. Outcome(w) = RoundedOnce(neg, c, e, set)
    BY <1>6, <1>7
  <2>2. Status(w) = RoundedOnce(neg, c, e, set)
    BY <2>1, StatusOfRounded
  <2> QED BY <1>7, <2>2
<1>9. PICK turned : /\ turned = Resign(rhs, rneg) /\ IsFinite(turned) /\ turned.neg = rneg
                    /\ turned.coeff = rhs.coeff /\ turned.exponent = rhs.exponent
  BY ResignIs
<1>10. AtLower(lhs, turned, e, j, k)
  BY <1>2, <1>9 DEF AtLower
<1>11. m = lhs.coeff * Ten[j] /\ n = turned.coeff * Ten[k]
  BY <1>3, <1>4, <1>9 DEF Aligns
<1>12. SumReference(lhs, turned, set) = SumAt(lhs.neg, m, turned.neg, n, e, set)
  BY <1>9, <1>10, <1>11, SumOf
<1> QED BY <1>5, <1>8, <1>9, <1>12

\* A number with its own sign.
LEMMA ResignSame ==
  ASSUME NEW dn, IsFinite(dn), NEW neg, neg = dn.neg
  PROVE  Resign(dn, neg) = dn
<1>1. PICK c \in Nat, x \in Int : dn = Finite(neg, c, x)
  BY DEF IsFinite
<1>2. dn = Stored(neg, c, GetDigits(c), x)
  BY <1>1, FiniteIsStored
<1>3. [ Stored(neg, c, GetDigits(c), x) EXCEPT !.neg = neg ] = Stored(neg, c, GetDigits(c), x)
  BY NegSet
<1> QED BY <1>2, <1>3 DEF Resign

\* decNumberAdd and decNumberSubtract: the sum and the difference of finite numbers
\* is the exact one, rounded once, whatever path decAddOp takes.
THEOREM SumIsRounded ==
  ASSUME NEW lhs, IsFinite(lhs), NEW rhs, IsFinite(rhs),
         NEW set, Roomy(set), Summable(lhs, rhs, set)
  PROVE  /\ NumberAdd(lhs, rhs, set) = SumReference(lhs, rhs, set)
         /\ NumberSubtract(lhs, rhs, set) = SumReference(lhs, Resign(rhs, ~rhs.neg), set)
<1>1. PICK neg \in BOOLEAN, other \in BOOLEAN, no \in BOOLEAN, yes \in BOOLEAN :
           neg = rhs.neg /\ other = ~rhs.neg /\ no = FALSE /\ yes = TRUE
  <2>1. rhs.neg \in BOOLEAN
    BY DEF IsFinite
  <2> QED BY <2>1
<1>2. Turned(neg, rhs.neg, no) /\ Turned(other, rhs.neg, yes)
  BY <1>1 DEF Turned
<1>3. Resign(rhs, neg) = rhs
  BY <1>1, ResignSame
<1>4. Status(AddOp(lhs, rhs, set, no)) = SumReference(lhs, Resign(rhs, neg), set)
  BY <1>2, AddIsRounded
<1>5. Status(AddOp(lhs, rhs, set, yes)) = SumReference(lhs, Resign(rhs, other), set)
  BY <1>2, AddIsRounded
<1> QED BY <1>1, <1>3, <1>4, <1>5 DEF NumberAdd, NumberSubtract

\* decNumberPlus, decNumberMinus and decNumberAbs add to a zero of the operand's
\* exponent: the operand with the sign asked for, rounded once, in any context.
THEOREM UnaryIsRounded ==
  ASSUME NEW rhs, IsFinite(rhs), NEW set, Roomy(set)
  PROVE  /\ NumberPlus(rhs, set) = SumReference(ZeroLike(rhs), rhs, set)
         /\ NumberMinus(rhs, set) = SumReference(ZeroLike(rhs), Resign(rhs, ~rhs.neg), set)
         /\ NumberAbs(rhs, set) = SumReference(ZeroLike(rhs), Resign(rhs, FALSE), set)
<1>1. PICK neg \in BOOLEAN, other \in BOOLEAN, no \in BOOLEAN, yes \in BOOLEAN :
           neg = rhs.neg /\ other = ~rhs.neg /\ no = FALSE /\ yes = TRUE
  <2>1. rhs.neg \in BOOLEAN
    BY DEF IsFinite
  <2> QED BY <2>1
<1>2. PICK zero : zero = ZeroLike(rhs) /\ IsFinite(zero) /\ zero.coeff = 0
  <2>1. PICK c \in Nat, x \in Int : c = 0 /\ x = rhs.exponent
    BY DEF IsFinite
  <2>2. PICK dn : dn = Finite(no, c, x)
    OBVIOUS
  <2>3. IsFinite(dn) /\ dn.coeff = c
    BY <2>2, FiniteIs
  <2> QED BY <1>1, <2>1, <2>2, <2>3 DEF ZeroLike
<1>3. Summable(zero, rhs, set)
  BY <1>2 DEF Summable
<1>4. /\ Turned(neg, rhs.neg, no) /\ Turned(other, rhs.neg, yes)
      /\ Turned(no, rhs.neg, neg)
  BY <1>1 DEF Turned
<1>5. Resign(rhs, neg) = rhs
  BY <1>1, ResignSame
<1>6. IsFinite(zero)
  BY <1>2
<1>7. Status(AddOp(zero, rhs, set, no)) = SumReference(zero, Resign(rhs, neg), set)
  BY <1>3, <1>4, <1>6, AddIsRounded
<1>8. Status(AddOp(zero, rhs, set, yes)) = SumReference(zero, Resign(rhs, other), set)
  BY <1>3, <1>4, <1>6, AddIsRounded
<1>9. Status(AddOp(zero, rhs, set, neg)) = SumReference(zero, Resign(rhs, no), set)
  BY <1>3, <1>4, <1>6, AddIsRounded
<1> QED BY <1>1, <1>2, <1>5, <1>7, <1>8, <1>9 DEF NumberPlus, NumberMinus, NumberAbs
=============================================================================
