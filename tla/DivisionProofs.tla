--------------------------- MODULE DivisionProofs ---------------------------
(***************************************************************************)
(* The long division of decDivideOp stays inside its buffers and never     *)
(* subtracts too much, for operands of any length, any precision and any   *)
(* Unit size.  The argument is by value: Window is what the Units of var1  *)
(* above the divisor's place stand for.  It never reaches UnitBase times   *)
(* the divisor, so the estimate sees every Unit that counts; and it falls  *)
(* by the multiple subtracted, which is what the Unit being found rises    *)
(* by.                                                                     *)
(***************************************************************************)
EXTENDS LongDivision, UnitProofs

----------------------------------------------------------------------------
(* The inductive invariant.                                                *)

\* An integer form whose quotient ends within its first Unit.
Single(t) == ~IsDivide(t) /\ FirstExponent(t) < 0

\* The top Unit that is not zero at the start is no lower.
Reach(t) == BufferUnits(t) - (IF IsDivide(t) THEN 0 ELSE 1)

\* What is left of the dividend, in Units of the divisor's present place.
Window == ValueFrom(SubSeq(var1, 1, var1units), Shift + 1)

TypeInv ==
  /\ task \in Tasks
  /\ var1 \in Units /\ Len(var1) = BufferUnits(task)
  /\ var1units \in 1..Len(var1)
  /\ var2ulen \in Int /\ exponent \in Int /\ accdigits \in Int
  /\ thisunit \in Nat
  /\ acc \in Units
  /\ pc \in { "inner", "outer", "done" }

\* What has been subtracted and what is left are below a whole Unit of the
\* quotient; a divisor of one Unit at the right end leaves no single Unit.
ValueInv ==
  /\ pc # "done" => thisunit * Value(var2) + Window < UnitBase * Value(var2)
  /\ pc = "outer" => Window < Value(var2)
  /\ pc = "inner" /\ Len(var2) = 1 /\ Shift = 0 =>
       Window < Value(var2) \/ Window >= UnitBase

PlaceInv ==
  /\ Shift >= 0
  /\ ~Single(task) /\ Shift >= 1 => var1[1] = 0
  /\ Single(task) => exponent = 0 /\ Shift >= 1
  /\ ~IsDivide(task) => exponent >= 0 /\ exponent % DECDPUN = 0

\* As long as nothing was subtracted the dividend has its top Unit; from then
\* on each place to the right brings a Unit of the quotient.
Untouched == acc = << >> /\ thisunit = 0
ReachInv ==
  pc # "done" /\ ~Single(task) =>
    /\ var2ulen + Len(acc) >= Reach(task) - 1
    /\ Untouched => \E i \in Reach(task)..var1units : var1[i] # 0
    /\ Untouched /\ pc = "outer" => var2ulen >= Reach(task)

CountInv ==
  /\ pc # "done" /\ acc # << >> =>
       accdigits \in (1 + (Len(acc) - 1) * DECDPUN)..task.digits
  /\ pc # "done" => Len(acc) <= (task.digits - 1) \div DECDPUN + 1
  /\ Len(acc) <= D2U(task.digits + DECDPUN)

DivisionInv == TypeInv /\ ValueInv /\ PlaceInv /\ ReachInv /\ CountInv

----------------------------------------------------------------------------
(* The operands and the room made for them.                                *)

\* The Units of so many digits.
LEMMA D2UFacts ==
  ASSUME NEW d \in Nat, d # 0
  PROVE  /\ D2U(d) \in Nat /\ D2U(d) >= 1
         /\ D2U(d) = (d - 1) \div DECDPUN + 1
<1>1. CASE DECDPUN = 1
  BY <1>1 DEF D2U
<1>2. CASE DECDPUN = 2
  BY <1>2 DEF D2U
<1>3. CASE DECDPUN = 3
  BY <1>3 DEF D2U
<1>4. CASE DECDPUN = 4
  BY <1>4 DEF D2U
<1> QED BY <1>1, <1>2, <1>3, <1>4, UnitSizes

\* An operand has the Units of its digits, and its top Unit is not zero.
LEMMA OperandFacts ==
  ASSUME NEW dn \in Dividends \cup Divisors
  PROVE  /\ dn.digits \in Nat /\ dn.digits # 0 /\ dn.exponent \in Int
         /\ UnitsOf(dn) \in Units
         /\ Len(UnitsOf(dn)) = D2U(dn.digits)
         /\ D2U(dn.digits) \in Nat /\ D2U(dn.digits) >= 1
         /\ UnitsOf(dn)[D2U(dn.digits)] # 0
         /\ UnitsOf(dn)[D2U(dn.digits)] \in Unit
<1>1. /\ dn.digits \in Nat /\ dn.digits # 0 /\ dn.exponent \in Int
      /\ UnitsOf(dn) \in Units
      /\ UnitsOf(dn)[D2U(dn.digits)] # 0
  BY OperandAssumption DEF Units, Unit
<1>2. D2U(dn.digits) \in Nat /\ D2U(dn.digits) >= 1
  BY <1>1, D2UFacts
<1>3. Len(UnitsOf(dn)) = D2U(dn.digits)
  <2>1. UnitsOf(dn) = [ i \in 1..D2U(dn.digits) |->
                          (dn.coeff \div UnitBase^(i - 1)) % UnitBase ]
    BY DEF UnitsOf, D2U
  <2> QED BY <1>2, <2>1
<1>4. UnitsOf(dn)[D2U(dn.digits)] \in Unit
  BY <1>1, <1>2, <1>3 DEF Units
<1> QED BY <1>1, <1>2, <1>3, <1>4

\* What is divided, by what, and to how many digits.
LEMMA TaskFacts ==
  ASSUME NEW t \in Tasks
  PROVE  /\ t.lhs \in Dividends \cup Divisors
         /\ t.rhs \in Dividends \cup Divisors
         /\ t.op \in Divisions
         /\ t.digits \in Nat /\ t.digits # 0
         /\ ~IsBelow(t.lhs, t.rhs, t.op)
  BY OperandAssumption DEF Tasks

\* The dividend is given room for itself, the divisor and the digits asked for.
LEMMA BufferFacts ==
  ASSUME NEW t \in Tasks
  PROVE  /\ BufferUnits(t) \in Nat
         /\ BufferUnits(t) >= D2U(t.lhs.digits) + (IF IsDivide(t) THEN 2 ELSE 3)
         /\ BufferUnits(t) >= D2U(t.rhs.digits) + 2
         /\ Reach(t) >= D2U(t.rhs.digits) + (t.digits - 1) \div DECDPUN + 2
<1> DEFINE l == t.lhs.digits
           r == t.rhs.digits
           p == t.digits
           slide == r + p - 1
           digits == IF l > slide THEN l ELSE slide
           extra == IF IsDivide(t) THEN 2 ELSE 3
<1>1. l \in Nat /\ l # 0 /\ r \in Nat /\ r # 0 /\ p \in Nat /\ p # 0
  BY TaskFacts, OperandFacts
<1>2. /\ BufferUnits(t) = D2U(digits) + extra
      /\ Reach(t) = D2U(digits) + 2
  <2>1. BufferUnits(t) = D2U(digits) + extra
    BY DEF BufferUnits
  <2>2. D2U(digits) \in Nat
    BY <1>1, D2UFacts
  <2> HIDE DEF digits
  <2> QED BY <2>1, <2>2 DEF Reach
<1>3. extra \in {2, 3} /\ extra = (IF IsDivide(t) THEN 2 ELSE 3)
  OBVIOUS
<1>4. digits \in Nat /\ digits # 0 /\ digits >= l /\ digits >= r + p - 1
  BY <1>1
<1> HIDE DEF l, r, p, digits, extra
<1>5. D2U(digits) \in Nat /\ D2U(r) \in Nat
      /\ D2U(digits) >= D2U(l) /\ D2U(digits) >= D2U(r) + (p - 1) \div DECDPUN
  <2>1. CASE DECDPUN = 1
    BY <1>1, <1>4, <2>1 DEF D2U
  <2>2. CASE DECDPUN = 2
    BY <1>1, <1>4, <2>2 DEF D2U
  <2>3. CASE DECDPUN = 3
    BY <1>1, <1>4, <2>3 DEF D2U
  <2>4. CASE DECDPUN = 4
    BY <1>1, <1>4, <2>4 DEF D2U
  <2> QED BY <2>1, <2>2, <2>3, <2>4, UnitSizes
<1>6. (p - 1) \div DECDPUN \in Nat /\ D2U(l) \in Nat
  BY <1>1, D2UFacts, UnitSizes
<1> QED BY <1>2, <1>3, <1>5, <1>6 DEF l, r, p

\* decShiftToLeast leaves Units that hold digits only.
LEMMA ShiftToLeastType ==
  ASSUME NEW uar \in Units, NEW shift \in Nat
  PROVE  /\ ShiftToLeast(uar, shift) \in Units
         /\ Len(ShiftToLeast(uar, shift)) = Len(uar)
<1> DEFINE skip == shift \div DECDPUN
           cut == shift % DECDPUN
           Stored(i) == UnitAt(uar, i + skip) \div 10^cut
                         + (UnitAt(uar, i + skip + 1) % 10^cut) * 10^(DECDPUN - cut)
<1>1. skip \in Nat /\ cut \in 0..(DECDPUN - 1)
  BY UnitSizes
<1>2. Len(uar) \in Nat /\ \A j \in Int : UnitAt(uar, j) \in Unit
  BY UnitsAreNatural
<1>3. ASSUME NEW i \in 1..Len(uar) PROVE Stored(i) \in Unit
  <2> DEFINE u == UnitAt(uar, i + skip)
             v == UnitAt(uar, i + skip + 1)
  <2>1. u \in 0..(UnitBase - 1) /\ v \in 0..(UnitBase - 1)
    <3>1. i + skip \in Int /\ i + skip + 1 \in Int
      BY <1>1, <1>2
    <3> HIDE DEF skip
    <3>2. u \in Unit /\ v \in Unit
      BY <1>2, <3>1
    <3> QED BY <3>2 DEF Unit
  <2> HIDE DEF u, v, cut
  <2>2. u \div 10^cut + (v % 10^cut) * 10^(DECDPUN - cut) \in 0..(UnitBase - 1)
    <3>1. CASE cut = 0
      <4>1. 10^cut = 1 /\ DECDPUN - cut = DECDPUN
        BY <3>1, UnitSizes
      <4>2. u \div 1 = u /\ v % 1 = 0
        BY <2>1, UnitSizes
      <4>3. 10^(DECDPUN - cut) \in Int
        BY <4>1, UnitSizes
      <4> QED BY <2>1, <4>1, <4>2, <4>3, UnitSizes
    <3>2. CASE cut = 1
      <4>1. 10^cut = 10 /\ DECDPUN \in 2..4
        BY <1>1, <3>2, UnitSizes
      <4>2. CASE DECDPUN = 2
        BY <2>1, <3>2, <4>1, <4>2, UnitSizes
      <4>3. CASE DECDPUN = 3
        BY <2>1, <3>2, <4>1, <4>3, UnitSizes
      <4>4. CASE DECDPUN = 4
        BY <2>1, <3>2, <4>1, <4>4, UnitSizes
      <4> QED BY <4>1, <4>2, <4>3, <4>4
    <3>3. CASE cut = 2
      <4>1. 10^cut = 100 /\ DECDPUN \in 3..4
        BY <1>1, <3>3, UnitSizes
      <4>2. CASE DECDPUN = 3
        BY <2>1, <3>3, <4>1, <4>2, UnitSizes
      <4>3. CASE DECDPUN = 4
        BY <2>1, <3>3, <4>1, <4>3, UnitSizes
      <4> QED BY <4>1, <4>2, <4>3
    <3>4. CASE cut = 3
      <4>1. 10^cut = 1000 /\ DECDPUN = 4
        BY <1>1, <3>4, UnitSizes
      <4>2. DECDPUN - cut = 1
        BY <3>4, <4>1
      <4>3. 10^(DECDPUN - cut) = 10
        BY <4>2, 10^1 = 10
      <4> QED BY <2>1, <4>1, <4>3, UnitSizes
    <3> QED BY <1>1, <3>1, <3>2, <3>3, <3>4, UnitSizes
  <2> QED BY <2>2 DEF u, v, Unit, cut
<1>4. ShiftToLeast(uar, shift) = [ i \in 1..Len(uar) |-> Stored(i) ]
  BY DEF ShiftToLeast
<1> HIDE DEF Stored
<1>5. ShiftToLeast(uar, shift) \in Seq(Unit)
      /\ Len(ShiftToLeast(uar, shift)) = Len(uar)
  BY <1>2, <1>3, <1>4
<1> QED BY <1>5 DEF Units

\* The powers of ten within a Unit.
LEMMA SmallPowers ==
  ASSUME NEW k \in 0..4
  PROVE  10^k \in Nat /\ 10^k >= 1
<1>1. 10^0 = 1 /\ 10^1 = 10 /\ 10^2 = 100 /\ 10^3 = 1000 /\ 10^4 = 10000
  OBVIOUS
<1>2. CASE k = 0
  BY <1>1, <1>2
<1>3. CASE k = 1
  BY <1>1, <1>3
<1>4. CASE k = 2
  BY <1>1, <1>4
<1>5. CASE k = 3
  BY <1>1, <1>5
<1>6. CASE k = 4
  BY <1>1, <1>6
<1> QED BY <1>2, <1>3, <1>4, <1>5, <1>6

\* The dividend is put at the top of its buffer, with zeros below it.
LEMMA AlignedFacts ==
  ASSUME NEW t \in Tasks
  PROVE  LET n == BufferUnits(t)
         IN  /\ LeftAligned(t) \in Units /\ Len(LeftAligned(t)) = n
             /\ LeftAligned(t)[n] = UnitsOf(t.lhs)[D2U(t.lhs.digits)]
             /\ UnitAt(LeftAligned(t), n) # 0
             /\ UnitAt(LeftAligned(t), 1) = 0
             /\ UnitAt(LeftAligned(t), 2) = 0
             /\ ~IsDivide(t) => UnitAt(LeftAligned(t), 3) = 0
<1> DEFINE n == BufferUnits(t)
           source == UnitsOf(t.lhs)
           l == D2U(t.lhs.digits)
<1>1. /\ source \in Units /\ Len(source) = l /\ l \in Nat /\ l >= 1
      /\ source[l] # 0
      /\ \A i \in Int : UnitAt(source, i) \in Unit
  BY TaskFacts, OperandFacts, UnitsAreNatural
<1>2. n \in Nat /\ n >= l + 2 /\ (~IsDivide(t) => n >= l + 3)
  <2>1. n \in Nat /\ n >= l + (IF IsDivide(t) THEN 2 ELSE 3)
    BY BufferFacts
  <2> HIDE DEF n, l
  <2> QED BY <1>1, <2>1
<1>3. LeftAligned(t) = [ i \in 1..n |-> UnitAt(source, i - (n - l)) ]
  BY <1>1 DEF LeftAligned
<1> HIDE DEF n, source, l
<1>4. LeftAligned(t) \in Seq(Unit) /\ Len(LeftAligned(t)) = n
  BY <1>1, <1>2, <1>3
<1>5. \A i \in 1..n : i <= n - l => UnitAt(LeftAligned(t), i) = 0
  BY <1>1, <1>2, <1>3, <1>4 DEF UnitAt
<1>6. LeftAligned(t)[n] = source[l] /\ UnitAt(LeftAligned(t), n) = source[l]
  BY <1>1, <1>2, <1>3, <1>4 DEF UnitAt
<1>7. 1 \in 1..n /\ 2 \in 1..n /\ 3 \in 1..n
  BY <1>1, <1>2
<1> QED BY <1>1, <1>2, <1>4, <1>5, <1>6, <1>7 DEF n, l, source, Units

\* The places that are left to do, before and after the alignment.
LEMMA ExponentFacts ==
  ASSUME NEW t \in Tasks
  PROVE  /\ FirstExponent(t) \in Int
         /\ AlignShift(t) \in Nat
         /\ IsDivide(t) => AlignShift(t) = 0
         /\ Single(t) => FirstExponent(t) + AlignShift(t) = 0
         /\ ~IsDivide(t) /\ ~Single(t) =>
              /\ AlignShift(t) \in 1..DECDPUN
              /\ FirstExponent(t) + AlignShift(t) >= 0
              /\ (FirstExponent(t) + AlignShift(t)) % DECDPUN = 0
<1>1. FirstExponent(t) \in Int
  <2> DEFINE lm == UnitsOf(t.lhs)[D2U(t.lhs.digits)]
             rm == UnitsOf(t.rhs)[D2U(t.rhs.digits)]
  <2>1. lm \in Unit /\ rm \in Unit
    BY TaskFacts, OperandFacts
  <2>2. GetDigits(lm) \in Int /\ GetDigits(rm) \in Int
    BY <2>1, GetDigitsOfUnit, UnitSizes
  <2>3. AdjustedQuotient(t.lhs, t.rhs) \in Int
    <3>1. t.lhs.digits \in Nat /\ t.lhs.exponent \in Int
      BY TaskFacts, OperandFacts
    <3>2. t.rhs.digits \in Nat /\ t.rhs.exponent \in Int
      BY TaskFacts, OperandFacts
    <3> QED BY <3>1, <3>2 DEF AdjustedQuotient
  <2>4. FirstExponent(t) = AdjustedQuotient(t.lhs, t.rhs) - GetDigits(lm) + GetDigits(rm)
    BY DEF FirstExponent
  <2> HIDE DEF lm, rm
  <2> QED BY <2>2, <2>3, <2>4
<1> DEFINE e == FirstExponent(t)
<1>2. /\ IsDivide(t) => AlignShift(t) = 0
      /\ ~IsDivide(t) /\ e < 0 => AlignShift(t) = -e
      /\ ~IsDivide(t) /\ e >= 0 => AlignShift(t) = DECDPUN - (e % DECDPUN)
  <2> HIDE DEF e
  <2>1. e \in Int
    BY <1>1 DEF e
  <2>2. AlignShift(t) = CASE IsDivide(t) -> 0
                          [] ~IsDivide(t) /\ e < 0 -> -e
                          [] ~IsDivide(t) /\ e >= 0 -> DECDPUN - (e % DECDPUN)
    BY DEF AlignShift, e
  <2>3. ASSUME e < 0 PROVE ~(e >= 0)
    BY <2>1, <2>3
  <2>4. ASSUME e >= 0 PROVE ~(e < 0)
    BY <2>1, <2>4
  <2> QED BY <2>2, <2>3, <2>4
<1> HIDE DEF e
<1>3. e \in Int
  BY <1>1 DEF e
<1>4. ASSUME e >= 0
      PROVE  /\ DECDPUN - (e % DECDPUN) \in 1..DECDPUN
             /\ e + (DECDPUN - (e % DECDPUN)) >= 0
             /\ (e + (DECDPUN - (e % DECDPUN))) % DECDPUN = 0
  <2>1. CASE DECDPUN = 1
    BY <1>3, <1>4, <2>1
  <2>2. CASE DECDPUN = 2
    BY <1>3, <1>4, <2>2
  <2>3. CASE DECDPUN = 3
    BY <1>3, <1>4, <2>3
  <2>4. CASE DECDPUN = 4
    BY <1>3, <1>4, <2>4
  <2> QED BY <2>1, <2>2, <2>3, <2>4, UnitSizes
<1>5. Single(t) <=> ~IsDivide(t) /\ e < 0
  BY DEF Single, e
<1>6. CASE IsDivide(t)
  BY <1>1, <1>2, <1>5, <1>6
<1>7. CASE Single(t)
  BY <1>1, <1>2, <1>3, <1>5, <1>7 DEF e
<1>8. CASE ~IsDivide(t) /\ ~Single(t)
  <2>1. e >= 0
    BY <1>3, <1>5, <1>8
  <2>2. AlignShift(t) = DECDPUN - (e % DECDPUN)
    BY <1>2, <1>8, <2>1
  <2>3. /\ AlignShift(t) \in 1..DECDPUN
        /\ e + AlignShift(t) >= 0 /\ (e + AlignShift(t)) % DECDPUN = 0
    BY <1>4, <2>1, <2>2
  <2> QED BY <1>1, <1>8, <2>3, UnitSizes DEF e
<1> QED BY <1>6, <1>7, <1>8

\* Where the loop starts: Units, the lowest zero, a top Unit that is not.
LEMMA StartFacts ==
  ASSUME NEW t \in Tasks
  PROVE  LET n == BufferUnits(t)
             start == ShiftToLeast(LeftAligned(t), AlignShift(t))
         IN  /\ start \in Units /\ Len(start) = n
             /\ IsDivide(t) => start = LeftAligned(t)
             /\ ~Single(t) => /\ start[1] = 0
                              /\ \E i \in Reach(t)..n : start[i] # 0
<1> DEFINE n == BufferUnits(t)
           uar == LeftAligned(t)
           shift == AlignShift(t)
           start == ShiftToLeast(uar, shift)
           skip == shift \div DECDPUN
           cut == shift % DECDPUN
<1>1. /\ uar \in Units /\ Len(uar) = n
      /\ UnitAt(uar, n) # 0 /\ UnitAt(uar, 1) = 0 /\ UnitAt(uar, 2) = 0
      /\ ~IsDivide(t) => UnitAt(uar, 3) = 0
      /\ \A j \in Int : UnitAt(uar, j) \in Unit
  BY AlignedFacts, UnitsAreNatural
<1>2. n \in Nat /\ n >= 3
  <2>1. n \in Nat /\ n >= D2U(t.rhs.digits) + 2
    BY BufferFacts
  <2>2. D2U(t.rhs.digits) \in Nat /\ D2U(t.rhs.digits) >= 1
    BY TaskFacts, OperandFacts
  <2> HIDE DEF n
  <2> QED BY <2>1, <2>2
<1>3. shift \in Nat
  BY ExponentFacts
<1>4. start \in Units /\ Len(start) = n
  BY <1>1, <1>3, ShiftToLeastType
<1>5. \A i \in 1..n :
        start[i] = UnitAt(uar, i + skip) \div 10^cut
                     + (UnitAt(uar, i + skip + 1) % 10^cut) * 10^(DECDPUN - cut)
  BY <1>1 DEF ShiftToLeast
<1>6. UnitAt(uar, n + 1) = 0
  BY <1>1, <1>2 DEF UnitAt
<1>7. Reach(t) = n - (IF IsDivide(t) THEN 0 ELSE 1)
  BY DEF Reach
<1>8. ASSUME skip = 0, cut = 0
      PROVE  \A i \in 1..n : start[i] = UnitAt(uar, i)
  <2> TAKE i \in 1..n
  <2> DEFINE u == UnitAt(uar, i)
             v == UnitAt(uar, i + 1)
             p == 10^DECDPUN
  <2>1. u \in Nat /\ v \in Nat /\ p \in Nat
    <3>1. i \in Int /\ i + 1 \in Int /\ DECDPUN \in 0..4
      BY <1>2, UnitSizes
    <3>2. p \in Nat
      BY <3>1, SmallPowers
    <3> HIDE DEF uar, p
    <3> QED BY <1>1, <3>1, <3>2, UnitFacts
  <2>2. start[i] = u \div 10^0 + (v % 10^0) * p
    <3>1. i + 0 = i /\ i + 0 + 1 = i + 1 /\ DECDPUN - 0 = DECDPUN
      BY <1>2, UnitSizes
    <3> HIDE DEF start, uar, n
    <3> QED BY <1>5, <1>8, <3>1
  <2> HIDE DEF u, v, p
  <2>3. 10^0 = 1 /\ u \div 1 = u /\ v % 1 = 0
    BY <2>1
  <2> QED BY <2>1, <2>2, <2>3 DEF u
<1> HIDE DEF start, uar, n, shift
<1>9. ASSUME IsDivide(t)
      PROVE  start = uar /\ start[1] = 0 /\ \E i \in Reach(t)..n : start[i] # 0
  <2>1. skip = 0 /\ cut = 0
    BY <1>9, ExponentFacts, UnitSizes DEF shift
  <2>2. \A i \in 1..n : start[i] = uar[i] /\ uar[i] = UnitAt(uar, i)
    BY <1>1, <1>8, <2>1 DEF UnitAt
  <2>3. start = uar
    BY <1>1, <1>4, <2>2 DEF Units
  <2>4. n \in Reach(t)..n /\ start[n] # 0 /\ start[1] = 0
    BY <1>1, <1>2, <1>7, <1>9, <2>2
  <2> QED BY <2>3, <2>4
<1>10. ASSUME ~IsDivide(t), ~Single(t)
       PROVE  start[1] = 0 /\ \E i \in Reach(t)..n : start[i] # 0
  <2>1. shift \in 1..DECDPUN
    BY <1>10, ExponentFacts DEF shift
  <2>2. CASE shift = DECDPUN
    <3>1. skip = 1 /\ cut = 0
      BY <2>2, UnitSizes
    <3>2. ASSUME NEW i \in 1..n PROVE start[i] = UnitAt(uar, i + 1)
      <4> DEFINE u == UnitAt(uar, i + 1)
                 v == UnitAt(uar, i + 1 + 1)
                 p == 10^(DECDPUN - 0)
      <4>1. u \in Nat /\ v \in Nat /\ p \in Nat
        <5>1. DECDPUN - 0 \in 0..4 /\ i + 1 \in Int /\ i + 1 + 1 \in Int
          BY <1>2, UnitSizes
        <5>2. p \in Nat
          BY <5>1, SmallPowers
        <5> HIDE DEF p
        <5> QED BY <1>1, <5>1, <5>2, UnitFacts
      <4>2. start[i] = u \div 10^0 + (v % 10^0) * p
        BY <1>5, <3>1
      <4> HIDE DEF u, v, p
      <4>3. 10^0 = 1 /\ u \div 1 = u /\ v % 1 = 0
        BY <4>1
      <4> QED BY <4>1, <4>2, <4>3 DEF u
    <3>3. start[1] = UnitAt(uar, 2)
      <4>1. 1 \in 1..n /\ 1 + 1 = 2
        BY <1>2
      <4> QED BY <3>2, <4>1
    <3>4. start[n - 1] = UnitAt(uar, n)
      <4>1. n - 1 \in 1..n /\ (n - 1) + 1 = n
        BY <1>2
      <4> QED BY <3>2, <4>1
    <3>5. n - 1 \in Reach(t)..n
      BY <1>2, <1>7, <1>10
    <3> QED BY <1>1, <3>3, <3>4, <3>5
  <2>3. CASE shift # DECDPUN
    <3> DEFINE p == 10^cut
               q == 10^(DECDPUN - cut)
    <3>1. skip = 0 /\ cut \in 0..4 /\ DECDPUN - cut \in 0..4
      <4>1. shift \in Nat /\ shift < DECDPUN
        BY <2>1, <2>3, UnitSizes
      <4> HIDE DEF shift
      <4> QED BY <4>1, UnitSizes
    <3>2. p \in Nat /\ p >= 1 /\ q \in Nat /\ q >= 1
      BY <3>1, SmallPowers
    <3>3. ASSUME NEW i \in 1..n
          PROVE  start[i] = UnitAt(uar, i) \div p + (UnitAt(uar, i + 1) % p) * q
      <4>1. i + 0 = i
        BY <1>2
      <4> QED BY <1>5, <3>1, <4>1
    <3> HIDE DEF p, q
    <3>4. 0 \div p = 0 /\ 0 % p = 0
      BY <3>2
    <3>5. start[1] = 0
      <4>1. 1 \in 1..n /\ 1 + 1 = 2
        BY <1>2
      <4> QED BY <1>1, <3>2, <3>3, <3>4, <4>1
    <3> DEFINE top == UnitAt(uar, n)
               low == UnitAt(uar, n - 1)
    <3>6. top \in Nat /\ top # 0 /\ low \in Nat
      <4>1. n \in Int /\ n - 1 \in Int
        BY <1>2
      <4> QED BY <1>1, <4>1, UnitFacts
    <3>7. start[n] = top \div p + (0 % p) * q
      <4>1. n \in 1..n
        BY <1>2
      <4> QED BY <1>6, <3>3, <4>1
    <3>8. start[n - 1] = low \div p + (top % p) * q
      <4>1. n - 1 \in 1..n /\ (n - 1) + 1 = n
        BY <1>2
      <4> QED BY <3>3, <4>1
    <3>9. n - 1 \in Reach(t)..n /\ n \in Reach(t)..n
      BY <1>2, <1>7, <1>10
    <3> HIDE DEF top, low
    <3>10. CASE top < p
      <4>1. top % p = top /\ low \div p \in Nat
        BY <3>2, <3>6, <3>10
      <4>2. top * q >= 1
        BY <3>2, <3>6
      <4>3. top * q \in Nat
        BY <3>2, <3>6
      <4>4. start[n - 1] # 0
        BY <3>8, <4>1, <4>2, <4>3
      <4> QED BY <3>5, <3>9, <4>4
    <3>11. CASE top >= p
      <4>1. top \div p >= 1 /\ top \div p \in Nat
        BY <3>2, <3>6, <3>11
      <4>2. start[n] # 0
        BY <3>2, <3>4, <3>7, <4>1
      <4> QED BY <3>5, <3>9, <4>2
    <3> QED BY <3>2, <3>6, <3>10, <3>11
  <2> QED BY <2>2, <2>3
<1>11. IsDivide(t) => start = uar
  BY <1>9
<1>12. ~Single(t) => start[1] = 0 /\ \E i \in Reach(t)..n : start[i] # 0
  BY <1>9, <1>10
<1> QED BY <1>4, <1>11, <1>12 DEF start, uar, shift, n

----------------------------------------------------------------------------
(* Comparing what is left with the divisor.                                *)

\* The divisor keeps its Units, the top one not zero.
LEMMA DivisorFacts ==
  ASSUME TypeInv
  PROVE  /\ var2 \in Units /\ Len(var2) \in Nat /\ Len(var2) >= 1
         /\ Len(var2) = D2U(task.rhs.digits)
         /\ Msu2 \in Nat /\ Msu2 >= 1 /\ Msu2 < UnitBase
         /\ UnitAt(var2, Len(var2)) = Msu2
         /\ Value(var2) \in Nat /\ Value(var2) >= 1
<1>1. /\ var2 \in Units /\ Len(var2) = D2U(task.rhs.digits)
      /\ Len(var2) \in Nat /\ Len(var2) >= 1
      /\ var2[Len(var2)] # 0 /\ var2[Len(var2)] \in Unit
  BY TaskFacts, OperandFacts DEF TypeInv, var2
<1>2. Msu2 \in Nat /\ Msu2 >= 1 /\ Msu2 < UnitBase
  BY <1>1, UnitFacts DEF Msu2, Unit
<1>3. UnitAt(var2, Len(var2)) = Msu2
  BY <1>1 DEF UnitAt, Msu2
<1>4. Value(var2) \in Nat
  BY <1>1, UnitsAreNatural, FromStep DEF Value
<1>5. Value(var2) >= 1
  <2> DEFINE k == Len(var2)
  <2>1. PICK w : Weights(w, k)
    BY <1>1, WeightsExist
  <2>2. k \in 1..k /\ k - 1 \in 0..k /\ UnitAt(var2, k) # 0
    BY <1>1, <1>2, <1>3
  <2>3. Value(var2) >= w[k - 1]
    BY <1>1, <2>1, <2>2, AboveWeight
  <2>4. w[k - 1] \in Nat /\ w[k - 1] > 0
    BY <1>1, <2>1, <2>2, WeightFacts
  <2> QED BY <1>4, <2>3, <2>4
<1> QED BY <1>1, <1>2, <1>3, <1>4, <1>5

\* The buffer holds Units, and the part in use lies within it.
LEMMA BufferType ==
  ASSUME TypeInv
  PROVE  /\ var1 \in Units /\ var1 \in Seq(Unit) /\ Len(var1) \in Nat
         /\ var1units \in Nat /\ var1units >= 1 /\ var1units <= Len(var1)
         /\ \A i \in 1..Len(var1) : var1[i] \in Unit /\ var1[i] \in Nat
         /\ Shift \in Int
<1>1. var1 \in Seq(Unit) /\ Len(var1) \in Nat
  BY DEF TypeInv, Units
<1>2. Shift \in Int
  <2>1. Len(var2) \in Nat
    BY DivisorFacts
  <2> QED BY <2>1 DEF TypeInv, Shift
<1>3. ASSUME NEW i \in 1..Len(var1) PROVE var1[i] \in Unit /\ var1[i] \in Nat
  <2>1. var1[i] \in Unit
    BY <1>1
  <2> QED BY <2>1, UnitFacts
<1> QED BY <1>1, <1>2, <1>3 DEF TypeInv

\* InUse is the place of the top Unit that is not zero.
LEMMA InUseFacts ==
  ASSUME TypeInv
  PROVE  /\ InUse \in 1..var1units
         /\ InUse > 1 => var1[InUse] # 0
         /\ \A i \in 1..var1units : i > InUse => var1[i] = 0
<1> DEFINE T == { 1 } \cup { i \in 1..var1units : var1[i] # 0 }
<1>1. var1units \in Nat /\ var1units >= 1
  BY BufferType
<1>2. T \subseteq 1..var1units /\ T # {}
  BY <1>1
<1>3. InUse = Max(T)
  BY DEF InUse
<1>4. \A i \in 1..var1units : var1[i] # 0 => i \in T
  OBVIOUS
<1>5. \A i \in T : i > 1 => var1[i] # 0
  BY <1>1
<1> HIDE DEF T
<1>6. InUse \in T /\ \A y \in T : y <= InUse
  BY <1>1, <1>2, <1>3, Greatest
<1> QED BY <1>1, <1>2, <1>4, <1>5, <1>6

\* The Units of var1 from the divisor's place up.
Taken == SubSeq(var1, Shift + 1, InUse)

\* What is left of the dividend, Unit by Unit.
LEMMA LeftFacts ==
  ASSUME TypeInv
  PROVE  LET left == SubSeq(var1, 1, var1units)
         IN  /\ left \in Units /\ left \in Arrays
             /\ \A i \in Nat : i # 0 => UnitAt(left, i) = IF i <= InUse THEN var1[i] ELSE 0
<1> DEFINE left == SubSeq(var1, 1, var1units)
<1>1. left \in Seq(Unit) /\ Len(left) = var1units
      /\ \A i \in 1..var1units : left[i] = var1[i]
  BY BufferType
<1>2. left \in Units /\ left \in Arrays
  BY <1>1, UnitsAreNatural DEF Units
<1> HIDE DEF left
<1>3. ASSUME NEW i \in Nat, i # 0
      PROVE  UnitAt(left, i) = IF i <= InUse THEN var1[i] ELSE 0
  BY <1>1, <1>3, InUseFacts, BufferType DEF UnitAt
<1> QED BY <1>2, <1>3 DEF left

\* The Units the divisor is compared with and subtracted from.
LEMMA TakenFacts ==
  ASSUME TypeInv, Shift >= 0, InUse > Shift
  PROVE  /\ Taken \in Units /\ Len(Taken) = InUse - Shift
         /\ \A i \in Nat : i # 0 =>
              UnitAt(Taken, i) = IF i <= InUse - Shift THEN var1[i + Shift] ELSE 0
         /\ Value(Taken) = Window
<1>1. /\ InUse \in Nat /\ InUse >= 1 /\ InUse <= Len(var1) /\ Shift \in Nat
      /\ var1 \in Seq(Unit)
  BY InUseFacts, BufferType
<1>2. /\ Taken \in Seq(Unit) /\ Len(Taken) = InUse - Shift
      /\ \A i \in 1..(InUse - Shift) : Taken[i] = var1[i + Shift]
  BY <1>1 DEF Taken
<1>3. Taken \in Units /\ Taken \in Arrays
  BY <1>2, UnitsAreNatural DEF Units
<1>4. ASSUME NEW i \in Nat, i # 0
      PROVE  UnitAt(Taken, i) = IF i <= InUse - Shift THEN var1[i + Shift] ELSE 0
  BY <1>1, <1>2, <1>4 DEF UnitAt
<1> DEFINE left == SubSeq(var1, 1, var1units)
<1>5. /\ left \in Arrays
      /\ \A i \in Nat : i # 0 => UnitAt(left, i) = IF i <= InUse THEN var1[i] ELSE 0
  BY LeftFacts
<1> HIDE DEF left
<1>6. ASSUME NEW j \in Nat, j >= 1
      PROVE  UnitAt(Taken, j) = UnitAt(left, j + Shift)
  <2>1. j + Shift \in Nat /\ j + Shift # 0 /\ j # 0
        /\ (j <= InUse - Shift <=> j + Shift <= InUse)
    BY <1>1, <1>6
  <2> QED BY <1>4, <1>5, <2>1
<1>7. ValueFrom(Taken, 1) = ValueFrom(left, 1 + Shift)
  <2>1. 1 \in Nat /\ 1 # 0
    OBVIOUS
  <2> QED BY <1>1, <1>3, <1>5, <1>6, <2>1, SameUnits
<1>8. 1 + Shift = Shift + 1
  BY <1>1
<1> QED BY <1>2, <1>3, <1>4, <1>7, <1>8 DEF Value, Window, left

\* Above the last Unit in use there is nothing to divide.
LEMMA EmptyWindow ==
  ASSUME TypeInv, Shift >= 0, InUse <= Shift
  PROVE  Window = 0
<1> DEFINE left == SubSeq(var1, 1, var1units)
           i == Shift + 1
           n == Len(left)
<1>1. /\ left \in Arrays
      /\ \A j \in Nat : j # 0 => UnitAt(left, j) = IF j <= InUse THEN var1[j] ELSE 0
  BY LeftFacts
<1>2. i \in Nat /\ i # 0 /\ i > InUse /\ InUse \in Nat
  BY InUseFacts, BufferType
<1>3. n \in Nat
  BY <1>1 DEF Arrays
<1> HIDE DEF left, i, n
<1>4. ASSUME NEW j \in Nat, j >= i
      PROVE  UnitAt(left, j) = UnitAt(left, j + n)
  <2>1. j # 0 /\ j + n \in Nat /\ j + n # 0 /\ ~(j <= InUse) /\ ~(j + n <= InUse)
    BY <1>2, <1>3, <1>4
  <2> QED BY <1>1, <2>1
<1>5. ValueFrom(left, i) = ValueFrom(left, i + n)
  BY <1>1, <1>2, <1>3, <1>4, SameUnits
<1>6. i + n \in Nat /\ i + n # 0 /\ i + n > Len(left)
  BY <1>2, <1>3 DEF n
<1>7. ValueFrom(left, i + n) = 0
  BY <1>1, <1>6, FromStep
<1> QED BY <1>5, <1>7 DEF Window, left, i

\* Where the Units differ first, from the top down.
LEMMA DifferFacts ==
  ASSUME TypeInv, Shift >= 0, Differ # {}
  PROVE  LET j == Max(Differ)
         IN  /\ j \in 1..InUse /\ var1[j] # Divisor(j)
             /\ \A i \in 1..InUse : i > j => var1[i] = Divisor(i)
<1> DEFINE j == Max(Differ)
<1>1. InUse \in Nat /\ Differ \subseteq 1..InUse
  BY InUseFacts, BufferType DEF Differ
<1>2. j \in Differ /\ \A y \in Differ : y <= j
  BY <1>1, Greatest
<1>3. j \in 1..InUse /\ var1[j] # Divisor(j)
  BY <1>2 DEF Differ
<1> HIDE DEF j
<1>4. ASSUME NEW i \in 1..InUse, i > j PROVE var1[i] = Divisor(i)
  <2>1. i \notin Differ
    BY <1>1, <1>2, <1>3, <1>4
  <2> QED BY <2>1 DEF Differ
<1> QED BY <1>3, <1>4 DEF j

\* Lengths being equal, Units that agree above a place agree in both arrays.
LEMMA AgreeAbove ==
  ASSUME TypeInv, Shift >= 0, InUse = var2ulen,
         NEW j \in Int, j >= Shift,
         \A i \in 1..InUse : i > j => var1[i] = Divisor(i)
  PROVE  \A m \in Nat : m > j - Shift => UnitAt(Taken, m) = UnitAt(var2, m)
<1>1. Shift \in Nat /\ InUse = Shift + Len(var2) /\ Len(var2) \in Nat /\ Len(var2) >= 1
      /\ InUse \in Nat
  BY InUseFacts, DivisorFacts, BufferType DEF Shift, TypeInv
<1> TAKE m \in Nat
<1> HAVE m > j - Shift
<1>2. m # 0 /\ m + Shift > j /\ (m + Shift) - Shift = m
  BY <1>1
<1>3. UnitAt(Taken, m) = IF m <= InUse - Shift THEN var1[m + Shift] ELSE 0
  BY <1>1, <1>2, TakenFacts
<1>4. CASE m <= Len(var2)
  <2>1. m + Shift \in 1..InUse
    BY <1>1, <1>2, <1>4
  <2>2. var1[m + Shift] = Divisor(m + Shift)
    BY <1>2, <2>1
  <2>3. Divisor(m + Shift) = UnitAt(var2, m)
    BY <1>2 DEF Divisor, Shift
  <2> QED BY <1>1, <1>3, <1>4, <2>2, <2>3
<1>5. CASE m > Len(var2)
  BY <1>1, <1>3, <1>5 DEF UnitAt
<1> QED BY <1>1, <1>4, <1>5

\* Equal arrays are equal numbers.
LEMMA EqualWindow ==
  ASSUME TypeInv, Shift >= 0, InUse = var2ulen,
         NEW j \in Int, j <= Shift,
         \A i \in 1..InUse : i > j => var1[i] = Divisor(i)
  PROVE  Window = Value(var2)
<1>1. Shift \in Nat /\ InUse > Shift /\ InUse \in Nat /\ Shift >= Shift
  BY InUseFacts, DivisorFacts, BufferType DEF Shift, TypeInv
<1>2. \A i \in 1..InUse : i > Shift => var1[i] = Divisor(i)
  BY <1>1
<1>3. \A m \in Nat : m > Shift - Shift => UnitAt(Taken, m) = UnitAt(var2, m)
  BY <1>1, <1>2, AgreeAbove
<1>4. \A m \in Nat : m >= 1 => UnitAt(Taken, m) = UnitAt(var2, m + 0)
  BY <1>1, <1>3
<1>5. Taken \in Arrays /\ var2 \in Arrays /\ Value(Taken) = Window
  BY <1>1, TakenFacts, DivisorFacts, UnitsAreNatural
<1>6. ValueFrom(Taken, 1) = ValueFrom(var2, 1 + 0)
  BY <1>4, <1>5, 1 \in Nat, 1 # 0, 0 \in Nat, SameUnits
<1> QED BY <1>5, <1>6 DEF Value

\* decDivideOp's comparison is that of the numbers the arrays stand for.
LEMMA LowerIsLess ==
  ASSUME TypeInv, Shift >= 0, IsLower
  PROVE  Window < Value(var2)
<1> DEFINE k == Len(var2)
<1>1. /\ Shift \in Nat /\ var2ulen = Shift + k /\ k \in Nat /\ k >= 1
      /\ InUse \in Nat /\ InUse >= 1
      /\ var2 \in Units /\ Value(var2) >= 1
  BY InUseFacts, DivisorFacts, BufferType DEF Shift, TypeInv
<1> HIDE DEF k
<1>2. CASE InUse <= Shift
  BY <1>1, <1>2, EmptyWindow, DivisorFacts
<1>3. CASE InUse < var2ulen /\ InUse > Shift
  <2>1. Taken \in Units /\ Len(Taken) = InUse - Shift /\ Value(Taken) = Window
    BY <1>3, TakenFacts
  <2>2. PICK w : Weights(w, k)
    BY <1>1, WeightsExist
  <2>3. k - 1 \in 0..k /\ k \in 1..k /\ k - 1 >= Len(Taken)
    BY <1>1, <1>3, <2>1
  <2>4. Window < w[k - 1]
    BY <1>1, <2>1, <2>2, <2>3, BelowWeight
  <2>5. UnitAt(var2, k) # 0
    BY DivisorFacts DEF k
  <2>6. Value(var2) >= w[k - 1]
    BY <1>1, <2>2, <2>3, <2>5, AboveWeight
  <2>7. w[k - 1] \in Nat /\ Value(var2) \in Nat /\ Window \in Int
    <3>1. Window \in Nat
      BY <2>1, UnitsAreNatural, FromStep DEF Value
    <3> QED BY <1>1, <2>2, <2>3, <3>1, WeightFacts, DivisorFacts
  <2> QED BY <2>4, <2>6, <2>7
<1>4. CASE InUse = var2ulen /\ Differ # {} /\ var1[Max(Differ)] < Divisor(Max(Differ))
  <2> DEFINE j == Max(Differ)
  <2>1. /\ j \in 1..InUse /\ var1[j] < Divisor(j)
        /\ \A i \in 1..InUse : i > j => var1[i] = Divisor(i)
    BY <1>4, DifferFacts
  <2> HIDE DEF j
  <2>2. Divisor(j) = UnitAt(var2, j - Shift)
    BY DEF Divisor, Shift
  <2>3. var1[j] \in Nat
    BY <1>1, <2>1, InUseFacts, BufferType
  <2>4. j > Shift
    <3>1. ASSUME ~(j > Shift) PROVE FALSE
      <4>1. UnitAt(var2, j - Shift) = 0
        BY <1>1, <2>1, <3>1 DEF UnitAt
      <4> QED BY <2>1, <2>2, <2>3, <4>1
    <3> QED BY <3>1
  <2>5. InUse > Shift
    BY <1>1, <1>4
  <2>6. j - Shift \in Nat /\ j - Shift # 0 /\ j >= Shift /\ j \in Int
        /\ (j - Shift) + Shift = j /\ j - Shift <= InUse - Shift
    BY <1>1, <2>1, <2>4
  <2>7. UnitAt(Taken, j - Shift) = var1[j]
    BY <2>5, <2>6, TakenFacts
  <2>8. \A m \in Nat : m > j - Shift => UnitAt(Taken, m) = UnitAt(var2, m)
    BY <1>4, <2>1, <2>6, AgreeAbove
  <2>9. Taken \in Units /\ Value(Taken) = Window
    BY <2>5, TakenFacts
  <2>10. Value(Taken) < Value(var2)
    BY <1>1, <2>1, <2>2, <2>6, <2>7, <2>8, <2>9, CompareUnits
  <2> QED BY <2>9, <2>10
<1> QED BY <1>1, <1>2, <1>3, <1>4 DEF IsLower

\* The comparison of the code finds equality only where it is.
LEMMA EqualIsEqual ==
  ASSUME TypeInv, Shift >= 0, IsEqual
  PROVE  Window = Value(var2)
<1>1. InUse = var2ulen /\ \A i \in 1..InUse : var1[i] = Divisor(i)
  BY DEF IsEqual, Differ
<1>2. 0 \in Int /\ 0 <= Shift
  OBVIOUS
<1> QED BY <1>1, <1>2, EqualWindow

\* Neither lower nor equal: the divisor can be subtracted.
LEMMA OtherIsMore ==
  ASSUME TypeInv, Shift >= 0, ~IsLower, ~IsEqual
  PROVE  /\ InUse >= var2ulen /\ InUse > Shift
         /\ Window >= Value(var2)
<1> DEFINE k == Len(var2)
<1>1. /\ Shift \in Nat /\ var2ulen = Shift + k /\ k \in Nat /\ k >= 1
      /\ InUse \in Nat /\ InUse >= 1
      /\ var2 \in Units /\ Value(var2) \in Nat
  BY InUseFacts, DivisorFacts, BufferType DEF Shift, TypeInv
<1> HIDE DEF k
<1>2. InUse >= var2ulen /\ InUse > Shift
  BY <1>1 DEF IsLower
<1>3. /\ Taken \in Units /\ Len(Taken) = InUse - Shift /\ Value(Taken) = Window
      /\ \A i \in Nat : i # 0 =>
           UnitAt(Taken, i) = IF i <= InUse - Shift THEN var1[i + Shift] ELSE 0
  BY <1>2, TakenFacts
<1>4. Window \in Nat
  BY <1>3, UnitsAreNatural, FromStep DEF Value
<1>5. CASE InUse > var2ulen
  <2> DEFINE h == InUse - Shift
  <2>1. h \in Nat /\ h # 0 /\ h \in 1..h /\ h - 1 \in 0..h /\ h - 1 >= k /\ h + Shift = InUse
    BY <1>1, <1>5
  <2> HIDE DEF h
  <2>2. PICK w : Weights(w, h)
    BY <2>1, WeightsExist
  <2>3. UnitAt(Taken, h) # 0
    <3>1. var1[InUse] # 0
      BY <1>1, <1>5, InUseFacts
    <3>2. h <= InUse - Shift
      BY <1>1 DEF h
    <3> QED BY <1>3, <2>1, <3>1, <3>2
  <2>4. Window >= w[h - 1]
    BY <1>3, <2>1, <2>2, <2>3, AboveWeight
  <2>5. h - 1 >= Len(var2)
    BY <2>1 DEF k
  <2>6. Value(var2) < w[h - 1]
    BY <1>1, <2>1, <2>2, <2>5, BelowWeight
  <2>7. w[h - 1] \in Nat
    BY <2>1, <2>2, WeightFacts
  <2> QED BY <1>1, <1>2, <1>4, <2>4, <2>6, <2>7
<1>6. CASE InUse = var2ulen
  <2> DEFINE j == Max(Differ)
  <2>1. Differ # {} /\ ~(var1[j] < Divisor(j))
    BY <1>6 DEF IsLower, IsEqual
  <2>2. /\ j \in 1..InUse /\ var1[j] # Divisor(j)
        /\ \A i \in 1..InUse : i > j => var1[i] = Divisor(i)
    BY <2>1, DifferFacts
  <2> HIDE DEF j
  <2>3. Divisor(j) = UnitAt(var2, j - Shift)
    BY DEF Divisor, Shift
  <2>4. var1[j] \in Nat /\ Divisor(j) \in Nat /\ j \in Int
    <3>1. j - Shift \in Int
      BY <1>1, <2>2
    <3>2. UnitAt(var2, j - Shift) \in Nat
      BY <1>1, <3>1, UnitsAreNatural, UnitFacts
    <3> QED BY <1>1, <2>2, <2>3, <3>2, InUseFacts, BufferType
  <2>5. Divisor(j) < var1[j]
    BY <2>1, <2>2, <2>4
  <2>6. CASE j <= Shift
    <3>1. Window = Value(var2)
      BY <1>6, <2>2, <2>4, <2>6, EqualWindow
    <3> QED BY <1>1, <1>2, <3>1
  <2>7. CASE j > Shift
    <3>1. j - Shift \in Nat /\ j - Shift # 0 /\ j >= Shift
          /\ (j - Shift) + Shift = j /\ j - Shift <= InUse - Shift
      BY <1>1, <2>2, <2>7
    <3>2. UnitAt(Taken, j - Shift) = var1[j]
      BY <1>3, <3>1
    <3>3. \A m \in Nat : m > j - Shift => UnitAt(Taken, m) = UnitAt(var2, m)
      BY <1>6, <2>2, <2>4, <3>1, AgreeAbove
    <3>4. \A m \in Nat : m > j - Shift => UnitAt(var2, m) = UnitAt(Taken, m)
      BY <3>3
    <3>5. Value(var2) < Value(Taken)
      BY <1>1, <1>3, <2>3, <2>5, <3>1, <3>2, <3>4, CompareUnits
    <3> QED BY <1>1, <1>2, <1>3, <1>4, <3>5
  <2> QED BY <1>1, <2>4, <2>6, <2>7
<1> QED BY <1>1, <1>2, <1>5, <1>6 DEF TypeInv

----------------------------------------------------------------------------
(* The multiple that is subtracted.                                        *)

\* The estimate is the quotient of the tops, or one.
LEMMA SafeMultipleFacts ==
  ASSUME NEW tops \in Nat, NEW top \in Nat, top > 0
  PROVE  /\ SafeMultiple(tops, top) \in Nat /\ SafeMultiple(tops, top) >= 1
         /\ \/ SafeMultiple(tops, top) = 1
            \/ SafeMultiple(tops, top) * top <= tops
         /\ tops < (SafeMultiple(tops, top) + 1) * top
<1> DEFINE q == tops \div top
<1>1. q \in Nat /\ q * top <= tops /\ tops < (q + 1) * top
  OBVIOUS
<1>2. SafeMultiple(tops, top) = IF q = 0 THEN 1 ELSE q
  BY DEF SafeMultiple
<1> HIDE DEF q
<1>3. CASE q = 0
  BY <1>1, <1>2, <1>3
<1>4. CASE q # 0
  BY <1>1, <1>2, <1>4
<1> QED BY <1>3, <1>4

\* The top Unit, and the two topmost ones, of an array.
LEMMA LastUnits ==
  ASSUME NEW u \in Arrays, NEW k \in Nat, k >= 1, Len(u) = k
  PROVE  /\ ValueFrom(u, k) = UnitAt(u, k)
         /\ k >= 2 => ValueFrom(u, k - 1) = UnitAt(u, k) * UnitBase + UnitAt(u, k - 1)
<1>1. k # 0 /\ k + 1 \in Nat /\ k + 1 # 0 /\ k + 1 > Len(u)
  OBVIOUS
<1>2. ValueFrom(u, k + 1) = 0
  BY <1>1, FromStep
<1>3. ValueFrom(u, k) = UnitAt(u, k) + UnitBase * ValueFrom(u, k + 1) /\ UnitAt(u, k) \in Nat
  BY <1>1, FromStep
<1>4. ValueFrom(u, k) = UnitAt(u, k)
  BY <1>2, <1>3, UnitFacts
<1>5. ASSUME k >= 2
      PROVE  ValueFrom(u, k - 1) = UnitAt(u, k) * UnitBase + UnitAt(u, k - 1)
  <2>1. k - 1 \in Nat /\ k - 1 # 0 /\ (k - 1) + 1 = k
    BY <1>5
  <2>2. /\ ValueFrom(u, k - 1) = UnitAt(u, k - 1) + UnitBase * ValueFrom(u, k)
        /\ UnitAt(u, k - 1) \in Nat
    BY <2>1, FromStep
  <2> QED BY <1>3, <1>4, <2>2, UnitFacts
<1> QED BY <1>4, <1>5

\* Nothing is in use more than one Unit above the divisor.
LEMMA OneAbove ==
  ASSUME TypeInv, Shift >= 0, ~IsLower, ~IsEqual,
         Window < UnitBase * Value(var2)
  PROVE  InUse = var2ulen \/ InUse = var2ulen + 1
<1> DEFINE k == Len(var2)
           h == InUse - Shift
<1>1. /\ Shift \in Nat /\ var2ulen = Shift + k /\ k \in Nat /\ k >= 1
      /\ InUse \in Nat /\ InUse >= 1
      /\ var2 \in Units /\ Value(var2) \in Nat
      /\ InUse >= var2ulen /\ InUse > Shift
  BY InUseFacts, DivisorFacts, BufferType, OtherIsMore DEF Shift, TypeInv
<1>2. /\ Taken \in Units /\ Len(Taken) = h /\ Value(Taken) = Window
      /\ \A i \in Nat : i # 0 =>
           UnitAt(Taken, i) = IF i <= InUse - Shift THEN var1[i + Shift] ELSE 0
  BY <1>1, TakenFacts
<1>3. SUFFICES ASSUME InUse > var2ulen + 1 PROVE FALSE
  BY <1>1 DEF TypeInv
<1>4. /\ h \in Nat /\ h # 0 /\ h \in 1..h /\ h - 1 \in 1..h /\ h - 1 \in 0..h
      /\ h - 2 \in 0..h /\ h - 2 >= k /\ h + Shift = InUse /\ (h - 1) - 1 = h - 2
      /\ h <= InUse - Shift
  BY <1>1, <1>3
<1>5. var1[InUse] # 0
  <2>1. InUse > 1
    BY <1>1, <1>3
  <2> QED BY <2>1, InUseFacts
<1>6. UnitAt(Taken, h) # 0
  BY <1>2, <1>4, <1>5
<1> HIDE DEF h, k
<1>7. PICK w : Weights(w, h)
  BY <1>4, WeightsExist
<1>8. Window >= w[h - 1]
  BY <1>2, <1>4, <1>6, <1>7, AboveWeight
<1>9. Value(var2) < w[h - 2]
  BY <1>1, <1>4, <1>7, BelowWeight DEF k
<1>10. w[h - 1] = UnitBase * w[h - 2]
  BY <1>4, <1>7, WeightFacts
<1>11. w[h - 2] \in Nat /\ w[h - 1] \in Nat
  BY <1>4, <1>7, WeightFacts
<1>12. Window \in Nat
  BY <1>2, UnitsAreNatural, FromStep DEF Value
<1>13. UnitBase * Value(var2) <= UnitBase * w[h - 2]
  BY <1>1, <1>9, <1>11, UnitFacts
<1>14. UnitBase * Value(var2) \in Nat
  BY <1>1, UnitFacts
<1> QED BY <1>8, <1>10, <1>11, <1>12, <1>13, <1>14

\* The estimate from the top Units is at least one and never too large; for a
\* divisor of one Unit it is exact.
LEMMA MultiplierIsSafe ==
  ASSUME TypeInv, Shift >= 0, ~IsLower, ~IsEqual, InUse >= 2,
         Window < UnitBase * Value(var2)
  PROVE  /\ Multiplier \in Nat /\ Multiplier >= 1
         /\ Multiplier * Value(var2) <= Window
         /\ Len(var2) = 1 /\ Shift = 0 =>
              Window < (Multiplier + 1) * Value(var2)
<1> DEFINE k == Len(var2)
           h == InUse - Shift
           by == Value(var2)
           tops == var1[InUse] * UnitBase + var1[InUse - 1]
<1>1. /\ Shift \in Nat /\ var2ulen = Shift + k /\ k \in Nat /\ k >= 1
      /\ InUse \in Nat /\ InUse >= 2
      /\ var2 \in Units /\ var2 \in Arrays /\ by \in Nat /\ by >= 1
      /\ InUse >= var2ulen /\ InUse > Shift /\ Window >= by
      /\ Msu2 \in Nat /\ Msu2 >= 1 /\ UnitAt(var2, k) = Msu2
  BY InUseFacts, DivisorFacts, BufferType, OtherIsMore, UnitsAreNatural DEF Shift, TypeInv
<1>2. /\ Taken \in Units /\ Taken \in Arrays /\ Len(Taken) = h /\ Value(Taken) = Window
      /\ \A i \in Nat : i # 0 =>
           UnitAt(Taken, i) = IF i <= InUse - Shift THEN var1[i + Shift] ELSE 0
  BY <1>1, TakenFacts, UnitsAreNatural
<1>3. InUse = var2ulen \/ InUse = var2ulen + 1
  BY OneAbove
<1>4. /\ var1[InUse] \in Nat /\ var1[InUse - 1] \in Nat /\ var1[InUse - 1] < UnitBase
  <2>1. InUse \in 1..Len(var1) /\ InUse - 1 \in 1..Len(var1)
    BY <1>1, InUseFacts, BufferType
  <2> QED BY <2>1, BufferType, UnitFacts DEF Unit
<1>5. tops \in Nat
  BY <1>4, UnitFacts
<1>6. Window \in Nat
  BY <1>2, UnitsAreNatural, FromStep DEF Value
<1>7. /\ h >= 1 => ValueFrom(Taken, h) = var1[InUse]
      /\ h >= 2 => ValueFrom(Taken, h - 1) = tops
  <2>1. h \in Nat /\ h >= 1 /\ h # 0 /\ h + Shift = InUse /\ h <= InUse - Shift
    BY <1>1
  <2>2. UnitAt(Taken, h) = var1[InUse]
    BY <1>2, <2>1
  <2>3. h >= 2 => UnitAt(Taken, h - 1) = var1[InUse - 1]
    <3> HAVE h >= 2
    <3>1. h - 1 \in Nat /\ h - 1 # 0 /\ (h - 1) + Shift = InUse - 1 /\ h - 1 <= InUse - Shift
      BY <1>1
    <3> QED BY <1>2, <3>1
  <2> HIDE DEF h
  <2> QED BY <1>2, <2>1, <2>2, <2>3, LastUnits
<1>8. PICK w : Weights(w, k)
  BY <1>1, WeightsExist
<1>9. /\ w[0] = 1 /\ k - 1 \in 0..k
      /\ \A i \in 0..k : w[i] \in Nat /\ w[i] > 0
  BY <1>1, <1>8, WeightFacts
<1>10. ValueFrom(var2, k) = Msu2
  BY <1>1, LastUnits
<1>11. k = 1 => by = Msu2
  BY <1>10 DEF Value
<1> HIDE DEF h, k, by, tops
<1>12. CASE InUse = var2ulen + 1
  <2>1. Multiplier = SafeMultiple(tops, Msu2Plus)
    <3>1. InUse # var2ulen
      BY <1>1, <1>12
    <3> QED BY <3>1 DEF Multiplier, tops
  <2>2. /\ Msu2Plus = (IF k > 1 THEN Msu2 + 1 ELSE Msu2)
        /\ Msu2Plus \in Nat /\ Msu2Plus > 0
    BY <1>1 DEF Msu2Plus, k
  <2>3. h = k + 1 /\ h >= 2 /\ h - 1 = k
    BY <1>1, <1>12 DEF h
  <2>4. PICK low \in 0..(w[k - 1] - 1) : Window = low + w[k - 1] * tops
    <3>0. k \in Nat /\ k - 1 \in 0..k /\ Taken \in Units
      BY <1>1, <1>2, <1>9
    <3>1. PICK low \in 0..(w[k - 1] - 1) :
                 Value(Taken) = low + w[k - 1] * ValueFrom(Taken, (k - 1) + 1)
      BY <3>0, <1>8, SplitValue
    <3>2. ValueFrom(Taken, (k - 1) + 1) = tops
      BY <1>1, <1>7, <2>3
    <3> QED BY <1>2, <3>1, <3>2
  <2>5. by <= Msu2Plus * w[k - 1]
    <3>1. PICK lov \in 0..(w[k - 1] - 1) :
                 by = lov + w[k - 1] * ValueFrom(var2, (k - 1) + 1)
      BY <1>1, <1>8, <1>9, SplitValue DEF by
    <3>2. ValueFrom(var2, (k - 1) + 1) = Msu2
      BY <1>1, <1>10
    <3>3. CASE k = 1
      BY <1>1, <1>9, <1>11, <2>2, <3>3
    <3>4. CASE k > 1
      <4>1. w[k - 1] \in Nat /\ by = lov + w[k - 1] * Msu2
        BY <1>9, <3>1, <3>2
      <4>2. (Msu2 + 1) * w[k - 1] = w[k - 1] * Msu2 + w[k - 1] /\ w[k - 1] * Msu2 \in Nat
        BY <1>1, <4>1
      <4> QED BY <2>2, <3>1, <3>4, <4>1, <4>2
    <3> QED BY <1>1, <3>3, <3>4
  <2>6. Multiplier \in Nat /\ Multiplier >= 1
    BY <1>5, <2>1, <2>2, SafeMultipleFacts
  <2>7. Multiplier * by <= Window
    <3> DEFINE weight == w[k - 1]
    <3>1. weight \in Nat /\ weight > 0 /\ low \in 0..(weight - 1)
          /\ Window = tops * weight + low
      <4>1. weight \in Nat /\ weight > 0
        BY <1>9
      <4> QED BY <1>5, <2>4, <4>1
    <3> HIDE DEF weight
    <3>2. by <= Msu2Plus * weight /\ by <= tops * weight + low
      BY <1>1, <2>5, <3>1 DEF weight
    <3>3. SafeMultiple(tops, Msu2Plus) * by <= tops * weight + low
      BY <1>1, <1>5, <2>2, <3>1, <3>2, MultipleIsSafe
    <3> QED BY <2>1, <3>1, <3>3
  <2>8. ASSUME k = 1 PROVE Window < (Multiplier + 1) * by
    <3>1. by = Msu2 /\ Msu2Plus = Msu2
      BY <1>11, <2>2, <2>8
    <3>2. Window = tops
      <4>1. w[k - 1] = 1
        BY <1>9, <2>8
      <4> QED BY <1>5, <2>4, <4>1
    <3>3. tops < (SafeMultiple(tops, Msu2) + 1) * Msu2
      BY <1>1, <1>5, SafeMultipleFacts
    <3> QED BY <2>1, <3>1, <3>2, <3>3
  <2> QED BY <2>6, <2>7, <2>8 DEF by, k
<1>13. CASE InUse = var2ulen
  <2>1. Multiplier = SafeMultiple(tops, Msu2Pair)
    BY <1>13 DEF Multiplier, tops
  <2> DEFINE low2 == IF k > 1 THEN var2[k - 1] ELSE 0
  <2>2. /\ Msu2Pair = Msu2 * UnitBase + low2 + (IF k > 2 THEN 1 ELSE 0)
        /\ low2 \in Nat /\ (k > 1 => low2 = UnitAt(var2, k - 1))
    <3>1. k > 1 => var2[k - 1] = UnitAt(var2, k - 1) /\ UnitAt(var2, k - 1) \in Nat
      <4> HAVE k > 1
      <4>1. k - 1 \in 1..Len(var2) /\ k - 1 \in Int
        BY <1>1 DEF k
      <4>2. UnitAt(var2, k - 1) \in Unit
        BY <1>1, <4>1, UnitsAreNatural
      <4> QED BY <4>1, <4>2, UnitFacts DEF UnitAt
    <3> QED BY <1>1, <3>1 DEF Msu2Pair, k
  <2> HIDE DEF low2
  <2>3. Msu2Pair \in Nat /\ Msu2Pair > 0 /\ Msu2 * UnitBase \in Nat
    <3>1. Msu2 * UnitBase \in Nat /\ Msu2 * UnitBase > 0
      BY <1>1, UnitFacts
    <3> QED BY <2>2, <3>1
  <2>4. Multiplier \in Nat /\ Multiplier >= 1
    BY <1>5, <2>1, <2>3, SafeMultipleFacts
  <2>5. h = k
    BY <1>1, <1>13 DEF h
  <2>6. CASE k = 1
    <3>1. by = Msu2 /\ Msu2Pair = Msu2 * UnitBase
      BY <1>11, <2>2, <2>3, <2>6 DEF low2
    <3>2. Window = var1[InUse]
      <4>1. ValueFrom(Taken, 1) = var1[InUse]
        BY <1>7, <2>5, <2>6
      <4> QED BY <1>2, <4>1 DEF Value
    <3>3. \/ Multiplier = 1
          \/ Multiplier * Msu2Pair <= tops
      BY <1>5, <2>1, <2>3, SafeMultipleFacts
    <3>4. ASSUME Multiplier * Msu2Pair <= tops
          PROVE  Multiplier * by <= Window
      <4> DEFINE x == Multiplier * by
      <4>1. x \in Nat
        BY <1>1, <2>4
      <4>2. Multiplier * Msu2Pair = x * UnitBase
        BY <1>1, <2>4, <3>1, UnitFacts
      <4> HIDE DEF x
      <4>3. x * UnitBase < (Window + 1) * UnitBase
        <5>1. tops < (Window + 1) * UnitBase
          BY <1>4, <3>2, UnitFacts DEF tops
        <5>2. x * UnitBase \in Nat /\ (Window + 1) * UnitBase \in Nat
          BY <1>6, <4>1, UnitFacts
        <5> QED BY <1>5, <3>4, <4>2, <5>1, <5>2
      <4>4. x < Window + 1
        BY <1>6, <4>1, <4>3, UnitFacts
      <4> QED BY <1>6, <4>1, <4>4 DEF x
    <3>5. Multiplier * by <= Window
      BY <1>1, <3>3, <3>4
    <3>6. Shift # 0
      BY <1>1, <1>13, <2>6
    <3> QED BY <2>4, <3>5, <3>6 DEF by
  <2>7. CASE k > 1
    <3>1. k - 2 \in 0..k /\ (k - 2) + 1 = k - 1 /\ k >= 2 /\ h >= 2 /\ h - 1 = k - 1
      BY <1>1, <2>5, <2>7
    <3> DEFINE weight == w[k - 2]
    <3>2. PICK low \in 0..(weight - 1) : Window = low + weight * tops
      <4>0. k \in Nat /\ k - 2 \in 0..k /\ Taken \in Units
        BY <1>1, <1>2, <3>1
      <4>1. PICK low \in 0..(weight - 1) :
                   Value(Taken) = low + weight * ValueFrom(Taken, (k - 2) + 1)
        BY <4>0, <1>8, SplitValue
      <4>2. ValueFrom(Taken, (k - 2) + 1) = tops
        BY <1>7, <3>1
      <4> QED BY <1>2, <4>1, <4>2
    <3>3. weight \in Nat /\ weight > 0
      BY <1>9, <3>1
    <3> DEFINE pair == Msu2 * UnitBase + low2
    <3>4. PICK lov \in 0..(weight - 1) : by = lov + weight * pair
      <4>1. PICK lov \in 0..(weight - 1) :
                   by = lov + weight * ValueFrom(var2, (k - 2) + 1)
        BY <1>1, <1>8, <3>1, SplitValue DEF by
      <4>2. ValueFrom(var2, k - 1) = UnitAt(var2, k) * UnitBase + UnitAt(var2, k - 1)
        BY <1>1, <3>1, LastUnits DEF k
      <4> QED BY <1>1, <2>2, <2>7, <3>1, <4>1, <4>2
    <3>5. pair \in Nat /\ Msu2Pair = (IF k > 2 THEN pair + 1 ELSE pair)
      BY <2>2, <2>3
    <3>6. k = 2 => weight = 1
      <4> HAVE k = 2
      <4>1. k - 2 = 0
        OBVIOUS
      <4> QED BY <1>9, <4>1
    <3> HIDE DEF weight, pair
    <3>7. by <= Msu2Pair * weight
      <4>1. CASE k = 2
        BY <3>3, <3>4, <3>5, <3>6, <4>1
      <4>2. CASE k > 2
        <5>1. (pair + 1) * weight = weight * pair + weight /\ weight * pair \in Nat
          BY <3>3, <3>5
        <5> QED BY <3>3, <3>4, <3>5, <4>2, <5>1
      <4> QED BY <1>1, <2>7, <4>1, <4>2
    <3>8. Window = tops * weight + low /\ tops * weight \in Nat
      BY <1>5, <3>2, <3>3
    <3>9. by <= tops * weight + low
      BY <1>1, <3>8
    <3>10. SafeMultiple(tops, Msu2Pair) * by <= tops * weight + low
      BY <1>1, <1>5, <2>3, <3>2, <3>3, <3>7, <3>9, MultipleIsSafe
    <3>11. Multiplier * by <= Window /\ k # 1
      BY <2>1, <2>7, <3>8, <3>10
    <3> QED BY <2>4, <3>11 DEF by, k
  <2> QED BY <1>1, <2>6, <2>7
<1> QED BY <1>3, <1>12, <1>13

\* With what has been subtracted before, the multiple is still a Unit.
LEMMA MultiplierFits ==
  ASSUME TypeInv, Shift >= 0, ~IsLower, ~IsEqual, InUse >= 2,
         thisunit * Value(var2) + Window < UnitBase * Value(var2)
  PROVE  /\ Window \in Nat /\ Window < UnitBase * Value(var2)
         /\ Multiplier \in Nat /\ Multiplier >= 1
         /\ Multiplier * Value(var2) <= Window
         /\ thisunit + Multiplier <= UnitBase - 1
         /\ -Multiplier \in Carry
<1> DEFINE by == Value(var2)
<1>1. by \in Nat /\ by >= 1 /\ thisunit \in Nat /\ UnitBase \in Nat
  BY DivisorFacts, UnitFacts DEF TypeInv
<1>2. Window \in Nat
  <2>1. SubSeq(var1, 1, var1units) \in Arrays /\ Shift + 1 \in Nat /\ Shift + 1 # 0
    BY LeftFacts, BufferType
  <2> QED BY <2>1, FromStep DEF Window
<1>3. thisunit * by \in Nat /\ UnitBase * by \in Nat
  BY <1>1
<1>4. thisunit * by + Window < UnitBase * by
  OBVIOUS
<1>5. Window < UnitBase * by
  <2> HIDE DEF by
  <2> QED BY <1>2, <1>3, <1>4
<1>6. Multiplier \in Nat /\ Multiplier >= 1 /\ Multiplier * by <= Window
  BY <1>5, MultiplierIsSafe
<1> HIDE DEF by
<1>7. thisunit + Multiplier < UnitBase
  <2>1. (thisunit + Multiplier) * by = thisunit * by + Multiplier * by
    BY <1>1, <1>6
  <2>2. Multiplier * by \in Nat
    BY <1>1, <1>6
  <2>3. (thisunit + Multiplier) * by < UnitBase * by
    BY <1>2, <1>3, <1>4, <1>6, <2>1, <2>2 DEF by
  <2> QED BY <1>1, <1>6, <2>3
<1>8. -Multiplier \in Carry
  BY <1>1, <1>6, <1>7, UnitFacts DEF Carry
<1> QED BY <1>1, <1>2, <1>5, <1>6, <1>7, <1>8 DEF by

\* The subtraction leaves no borrow, takes no more Units than before, and what
\* it leaves is what there was less the multiple.
LEMMA DifferenceFacts ==
  ASSUME TypeInv, Shift >= 0, ~IsLower, ~IsEqual, InUse >= 2,
         thisunit * Value(var2) + Window < UnitBase * Value(var2)
  PROVE  /\ ~Difference.neg
         /\ Difference.units \in Units
         /\ Len(Difference.units) = InUse - Shift
         /\ Value(Difference.units) = Window - Multiplier * Value(var2)
<1> DEFINE h == InUse - Shift
           units == Difference.units
           by == Value(var2)
<1>1. /\ Window \in Nat /\ Multiplier \in Nat /\ Multiplier >= 1
      /\ Multiplier * by <= Window /\ -Multiplier \in Carry
  BY MultiplierFits
<1>2. /\ InUse > Shift /\ InUse >= var2ulen /\ InUse \in Nat /\ Shift \in Nat
      /\ Len(var2) \in Nat /\ var2ulen = Shift + Len(var2)
      /\ var2 \in Units /\ by \in Nat
  BY OtherIsMore, InUseFacts, BufferType, DivisorFacts DEF Shift, TypeInv
<1>3. Taken \in Units /\ Len(Taken) = h /\ Value(Taken) = Window
  BY <1>2, TakenFacts
<1>4. SumLength(Taken, var2, 0) = h
  BY <1>2, <1>3 DEF SumLength
<1>5. Shifted(var2, 0) = var2
  BY <1>2, ShiftedFacts
<1>6. Difference = UnitAddSub(Taken, var2, 0, -Multiplier)
  BY DEF Difference, Taken
<1>7. /\ units \in Units
      /\ Difference.neg <=> Value(Taken) + (-Multiplier) * by < 0
      /\ Value(units) = (IF Difference.neg THEN -(Value(Taken) + (-Multiplier) * by)
                                           ELSE Value(Taken) + (-Multiplier) * by)
      /\ \/ Len(units) = h
         \/ Len(units) = h + 1 /\ units[h + 1] # 0
  <2>1. 0 \in Nat
    OBVIOUS
  <2> DEFINE result == UnitAddSub(Taken, var2, 0, -Multiplier)
             n == SumLength(Taken, var2, 0)
             sum == Value(Taken) + (-Multiplier) * Value(Shifted(var2, 0))
  <2>2. /\ result.units \in Units
        /\ result.neg <=> sum < 0
        /\ Value(result.units) = (IF result.neg THEN -sum ELSE sum)
        /\ \/ Len(result.units) = n
           \/ Len(result.units) = n + 1 /\ result.units[n + 1] # 0
    BY <1>1, <1>2, <1>3, <2>1, UnitAddSubIsExact
  <2>3. result = Difference /\ n = h /\ sum = Value(Taken) + (-Multiplier) * by
    BY <1>4, <1>5, <1>6
  <2> HIDE DEF result, n, sum, h
  <2> QED BY <2>2, <2>3
<1>8. Value(Taken) + (-Multiplier) * by = Window - Multiplier * by
      /\ Multiplier * by \in Nat
  BY SMTT(30), <1>1, <1>2, <1>3
<1> HIDE DEF units, by
<1>9. ~Difference.neg /\ Value(units) = Window - Multiplier * by
  <2>1. ~(Window - Multiplier * by < 0)
    BY <1>1, <1>8
  <2> QED BY <1>7, <1>8, <2>1
<1>10. Value(units) <= Window
  BY <1>1, <1>8, <1>9
<1>11. Len(units) = h
  <2>1. SUFFICES ASSUME Len(units) = h + 1, units[h + 1] # 0 PROVE FALSE
    BY <1>7
  <2>2. /\ h \in Nat /\ h + 1 \in Nat /\ h + 1 \in 1..(h + 1) /\ h \in 0..(h + 1)
        /\ (h + 1) - 1 = h /\ h >= Len(Taken)
    BY <1>2, <1>3
  <2>3. UnitAt(units, h + 1) # 0
    BY <2>1, <2>2 DEF UnitAt
  <2> HIDE DEF h
  <2>4. PICK w : Weights(w, h + 1)
    BY <2>2, WeightsExist
  <2>5. Value(units) >= w[h]
    BY <1>7, <2>2, <2>3, <2>4, AboveWeight
  <2>6. Window < w[h]
    BY <1>3, <2>2, <2>4, BelowWeight
  <2>7. w[h] \in Nat
    BY <2>2, <2>4, WeightFacts
  <2>8. Value(units) \in Int
    BY <1>1, <1>8, <1>9
  <2> QED BY <1>1, <1>10, <2>5, <2>6, <2>7, <2>8
<1> QED BY <1>7, <1>9, <1>11 DEF units, by

\* The buffer after the subtraction: the Units of the difference in place, the
\* others as they were.
Lowered ==
  [ i \in 1..Len(var1) |->
      IF i \in (Shift + 1)..(Shift + Len(Difference.units))
        THEN Difference.units[i - Shift] ELSE var1[i] ]

\* A subtraction takes the multiple off the window, and nothing else.
LEMMA LoweredFacts ==
  ASSUME TypeInv, Shift >= 0, ~IsLower, ~IsEqual, InUse >= 2,
         thisunit * Value(var2) + Window < UnitBase * Value(var2)
  PROVE  /\ Lowered \in Units /\ Len(Lowered) = Len(var1)
         /\ Shift >= 1 => Lowered[1] = var1[1]
         /\ ValueFrom(SubSeq(Lowered, 1, InUse), Shift + 1)
              = Window - Multiplier * Value(var2)
<1> DEFINE units == Difference.units
           h == InUse - Shift
<1>1. units \in Units /\ Len(units) = h /\ Value(units) = Window - Multiplier * Value(var2)
  BY DifferenceFacts
<1>2. /\ InUse \in Nat /\ InUse >= 2 /\ InUse > Shift /\ Shift \in Nat
      /\ var1 \in Seq(Unit) /\ Len(var1) \in Nat /\ InUse <= Len(var1)
  BY OtherIsMore, InUseFacts, BufferType
<1>3. Lowered = [ i \in 1..Len(var1) |->
                    IF i \in (Shift + 1)..InUse THEN units[i - Shift] ELSE var1[i] ]
  <2>1. Shift + Len(units) = InUse
    BY <1>1, <1>2
  <2> QED BY <2>1 DEF Lowered
<1> HIDE DEF units
<1>4. ASSUME NEW i \in (Shift + 1)..InUse
      PROVE  units[i - Shift] \in Unit
  <2>1. i - Shift \in 1..Len(units)
    BY <1>1, <1>2
  <2> QED BY <1>1, <2>1 DEF Units
<1>5. Lowered \in Seq(Unit) /\ Len(Lowered) = Len(var1)
  <2>1. ASSUME NEW i \in 1..Len(var1)
        PROVE  (IF i \in (Shift + 1)..InUse THEN units[i - Shift] ELSE var1[i]) \in Unit
    BY <1>2, <1>4
  <2> QED BY <1>2, <1>3, <2>1
<1>6. Shift >= 1 => Lowered[1] = var1[1]
  BY <1>2, <1>3
<1> DEFINE left == SubSeq(Lowered, 1, InUse)
<1>7. /\ left \in Seq(Unit) /\ Len(left) = InUse
      /\ \A i \in 1..InUse : left[i] = Lowered[i]
  BY <1>2, <1>5
<1> HIDE DEF left
<1>8. left \in Arrays /\ units \in Arrays
  BY <1>1, <1>7, UnitsAreNatural DEF Units
<1>9. ASSUME NEW j \in Nat, j >= 1
      PROVE  UnitAt(units, j) = UnitAt(left, j + Shift)
  <2>1. CASE j <= h
    <3>1. /\ j \in 1..Len(units) /\ j + Shift \in 1..InUse /\ j + Shift \in 1..Len(left)
          /\ j + Shift \in 1..Len(var1) /\ j + Shift \in (Shift + 1)..InUse
          /\ (j + Shift) - Shift = j
      BY <1>1, <1>2, <1>7, <1>9, <2>1
    <3>2. left[j + Shift] = Lowered[j + Shift] /\ Lowered[j + Shift] = units[j]
      BY <1>3, <1>7, <3>1
    <3> QED BY <3>1, <3>2 DEF UnitAt
  <2>2. CASE j > h
    <3>1. j \notin 1..Len(units) /\ j + Shift \notin 1..Len(left)
      BY <1>1, <1>2, <1>7, <1>9, <2>2
    <3> QED BY <3>1 DEF UnitAt
  <2>3. h \in Nat
    BY <1>2
  <2> QED BY <2>1, <2>2, <2>3
<1>10. ValueFrom(units, 1) = ValueFrom(left, 1 + Shift)
  BY <1>2, <1>8, <1>9, 1 \in Nat, 1 # 0, SameUnits
<1>11. 1 + Shift = Shift + 1
  BY <1>2
<1> QED BY <1>1, <1>5, <1>6, <1>10, <1>11 DEF left, units, Units, Value

\* A Unit that is in use alone is below the divisor.
LEMMA TwoInUse ==
  ASSUME TypeInv, Shift >= 0, ~IsLower, ~IsEqual,
         Len(var2) = 1 /\ Shift = 0 => Window < Value(var2) \/ Window >= UnitBase
  PROVE  InUse >= 2
<1>1. /\ InUse \in Nat /\ InUse >= 1 /\ InUse >= var2ulen /\ InUse > Shift
      /\ Window >= Value(var2) /\ Shift \in Nat
      /\ var2ulen = Shift + Len(var2) /\ Len(var2) \in Nat /\ Len(var2) >= 1
      /\ Value(var2) \in Nat
  BY OtherIsMore, InUseFacts, BufferType, DivisorFacts DEF Shift, TypeInv
<1>2. SUFFICES ASSUME InUse = 1 PROVE FALSE
  BY <1>1
<1> DEFINE k == Len(var2)
           s == Shift
<1>3. s = 0 /\ k = 1
  <2>1. s \in Nat /\ k \in Nat /\ k >= 1 /\ InUse >= s + k
    BY <1>1
  <2> HIDE DEF s, k
  <2> QED BY <1>2, <2>1
<1>4. /\ Taken \in Units /\ Len(Taken) = 1 /\ Value(Taken) = Window
      /\ UnitAt(Taken, 1) = var1[1]
  <2>1. 1 \in Nat /\ 1 # 0 /\ 1 <= InUse - Shift /\ 1 + Shift = 1 /\ InUse - Shift = 1
    BY <1>2, <1>3
  <2> QED BY <1>1, <2>1, TakenFacts
<1>5. ValueFrom(Taken, 1) = UnitAt(Taken, 1)
  <2>1. Taken \in Arrays /\ 1 \in Nat /\ 1 >= 1
    BY <1>4, UnitsAreNatural
  <2> QED BY <1>4, <2>1, LastUnits
<1>6. var1[1] \in Unit
  <2>1. 1 \in 1..Len(var1)
    BY BufferType
  <2> QED BY <2>1, BufferType
<1>7. Window < UnitBase /\ Window \in Nat
  BY <1>4, <1>5, <1>6, UnitFacts DEF Unit, Value
<1> QED BY <1>1, <1>3, <1>7, UnitFacts

----------------------------------------------------------------------------
(* The invariant holds at the start.                                       *)

\* As many Units as the divisor has are below UnitBase times the divisor.
LEMMA LevelWindow ==
  ASSUME TypeInv, Shift >= 0, InUse <= var2ulen
  PROVE  Window < UnitBase * Value(var2)
<1> DEFINE k == Len(var2)
           by == Value(var2)
<1>1. /\ Shift \in Nat /\ var2ulen = Shift + k /\ k \in Nat /\ k >= 1
      /\ InUse \in Nat /\ var2 \in Units /\ by \in Nat /\ by >= 1
      /\ UnitAt(var2, k) # 0
  BY InUseFacts, DivisorFacts, BufferType DEF Shift, TypeInv
<1>2. CASE InUse <= Shift
  <2>1. Window = 0
    BY <1>2, EmptyWindow
  <2> HIDE DEF by
  <2> QED BY <1>1, <2>1, UnitFacts DEF by
<1>3. CASE InUse > Shift
  <2>1. Taken \in Units /\ Len(Taken) <= k /\ Value(Taken) = Window
    BY <1>1, <1>3, TakenFacts
  <2> HIDE DEF k, by
  <2>2. PICK w : Weights(w, k)
    BY <1>1, WeightsExist
  <2>3. k \in 0..k /\ k \in 1..k /\ k - 1 \in 0..k
    BY <1>1
  <2>4. Value(Taken) < w[k]
    <3>1. k >= Len(Taken)
      BY <1>1, <2>1, UnitsAreNatural
    <3> QED BY <1>1, <2>1, <2>2, <2>3, <3>1, BelowWeight
  <2>5. by >= w[k - 1]
    BY <1>1, <2>2, <2>3, AboveWeight DEF by
  <2>6. w[k] = UnitBase * w[k - 1] /\ w[k - 1] \in Nat /\ w[k] \in Nat
    BY <1>1, <2>2, <2>3, WeightFacts
  <2>7. UnitBase * w[k - 1] <= UnitBase * by /\ UnitBase * by \in Nat
    BY <1>1, <2>5, <2>6, UnitFacts
  <2>8. Window \in Nat
    BY <2>1, UnitsAreNatural, FromStep DEF Value
  <2> QED BY <2>1, <2>4, <2>6, <2>7, <2>8 DEF by
<1> QED BY <1>1, <1>2, <1>3

\* UnitBase times a number is its Units moved up by one.
LEMMA MovedUp ==
  ASSUME NEW b \in Units
  PROVE  Value(Shifted(b, 1)) = UnitBase * Value(b)
<1> DEFINE s == Shifted(b, 1)
<1>1. /\ s \in Units /\ s \in Arrays /\ b \in Arrays
      /\ \A i \in Nat : UnitAt(s, i) = UnitAt(b, i - 1)
  BY 1 \in Nat, ShiftedFacts, UnitsAreNatural
<1> HIDE DEF s
<1>2. UnitAt(s, 1) = 0
  <2>1. UnitAt(s, 1) = UnitAt(b, 0)
    BY <1>1
  <2> QED BY <2>1 DEF UnitAt
<1>3. ASSUME NEW j \in Nat, j >= 1
      PROVE  UnitAt(b, j) = UnitAt(s, j + 1)
  <2>1. j + 1 \in Nat /\ (j + 1) - 1 = j
    OBVIOUS
  <2> QED BY <1>1, <2>1
<1>4. ValueFrom(b, 1) = ValueFrom(s, 1 + 1)
  BY <1>1, <1>3, 1 \in Nat, 1 # 0, SameUnits
<1>5. ValueFrom(s, 1) = UnitAt(s, 1) + UnitBase * ValueFrom(s, 1 + 1)
  BY <1>1, 1 \in Nat, 1 # 0, FromStep
<1>6. UnitBase * ValueFrom(b, 1) \in Nat
  BY SMTT(30), <1>1, 1 \in Nat, 1 # 0, FromStep, UnitFacts
<1> QED BY <1>2, <1>4, <1>5, <1>6 DEF s, Value

\* So are one more Unit than the divisor has, the top one below the divisor's.
LEMMA LowTopWindow ==
  ASSUME TypeInv, Shift >= 0, InUse = var2ulen + 1, var1[InUse] < Msu2
  PROVE  Window < UnitBase * Value(var2)
<1> DEFINE k == Len(var2)
           s == Shifted(var2, 1)
<1>1. /\ Shift \in Nat /\ var2ulen = Shift + k /\ k \in Nat /\ k >= 1
      /\ InUse \in Nat /\ var2 \in Units /\ UnitAt(var2, k) = Msu2
  BY InUseFacts, DivisorFacts, BufferType DEF Shift, TypeInv
<1>2. InUse > Shift /\ InUse - Shift = k + 1
  BY <1>1
<1>3. /\ Taken \in Units /\ Value(Taken) = Window
      /\ \A i \in Nat : i # 0 =>
           UnitAt(Taken, i) = IF i <= k + 1 THEN var1[i + Shift] ELSE 0
  BY <1>2, TakenFacts
<1>4. s \in Units /\ \A i \in Nat : UnitAt(s, i) = UnitAt(var2, i - 1)
  BY <1>1, 1 \in Nat, ShiftedFacts
<1>5. UnitAt(Taken, k + 1) < UnitAt(s, k + 1)
  <2>1. k + 1 \in Nat /\ k + 1 # 0 /\ k + 1 <= k + 1 /\ (k + 1) + Shift = InUse
        /\ (k + 1) - 1 = k
    BY <1>1, <1>2
  <2>2. UnitAt(s, k + 1) = Msu2
    BY <1>1, <1>4, <2>1
  <2>3. UnitAt(Taken, k + 1) = var1[InUse]
    BY <1>3, <2>1
  <2> QED BY <2>2, <2>3
<1>6. ASSUME NEW j \in Nat, j > k + 1
      PROVE  UnitAt(Taken, j) = UnitAt(s, j)
  <2>1. j # 0 /\ ~(j <= k + 1) /\ j - 1 \notin 1..k
    BY <1>1, <1>6
  <2>2. UnitAt(var2, j - 1) = 0
    BY <2>1 DEF UnitAt
  <2> QED BY <1>3, <1>4, <2>1, <2>2
<1>7. Value(Taken) < Value(s)
  <2>1. k + 1 \in Nat /\ k + 1 # 0
    BY <1>1
  <2> HIDE DEF k, s
  <2> QED BY <1>3, <1>4, <1>5, <1>6, <2>1, CompareUnits
<1> QED BY <1>1, <1>3, <1>7, MovedUp

\* A division starts with the invariant.
LEMMA InitInv == Init => DivisionInv
<1> SUFFICES ASSUME Init PROVE DivisionInv
  OBVIOUS
<1> DEFINE n == BufferUnits(task)
           k == Len(var2)
           skip == SkipsFirst(task)
<1>1. task \in Tasks
  BY DEF Init
<1>2. /\ n \in Nat /\ n >= k + 2
      /\ Reach(task) >= k + (task.digits - 1) \div DECDPUN + 2
      /\ k \in Nat /\ k >= 1
  <2>1. k = D2U(task.rhs.digits) /\ k \in Nat /\ k >= 1
    BY <1>1, TaskFacts, OperandFacts DEF var2
  <2>2. n \in Nat /\ n >= D2U(task.rhs.digits) + 2
        /\ Reach(task) >= D2U(task.rhs.digits) + (task.digits - 1) \div DECDPUN + 2
    BY <1>1, BufferFacts
  <2> QED BY <2>1, <2>2
<1>3. /\ var1 \in Units /\ Len(var1) = n /\ var1units = n
      /\ IsDivide(task) => var1 = LeftAligned(task)
      /\ ~Single(task) => var1[1] = 0 /\ \E i \in Reach(task)..var1units : var1[i] # 0
  BY <1>1, StartFacts DEF Init
<1>4. var2ulen = (IF skip THEN n - 1 ELSE n) /\ (skip => IsDivide(task))
  BY <1>2 DEF Init, SkipsFirst
<1>5. /\ FirstExponent(task) \in Int
      /\ AlignShift(task) \in Nat
      /\ exponent = FirstExponent(task) + AlignShift(task)
                      - (IF skip THEN DECDPUN ELSE 0)
  BY <1>1, ExponentFacts DEF Init
<1>6. thisunit = 0 /\ acc = << >> /\ accdigits = 0 /\ pc = "inner"
  BY DEF Init
<1> HIDE DEF n, k, skip
<1>7. TypeInv
  <2>1. var1units \in 1..Len(var1)
    BY <1>2, <1>3
  <2>2. var2ulen \in Int /\ exponent \in Int
    BY <1>2, <1>4, <1>5, UnitSizes
  <2>3. acc \in Units
    BY <1>6 DEF Units
  <2> QED BY <1>1, <1>3, <1>6, <2>1, <2>2, <2>3 DEF TypeInv, n
<1>8. Shift >= 1 /\ Shift \in Int
  BY <1>2, <1>4 DEF Shift, k
<1>9. Window < UnitBase * Value(var2)
  <2>1. InUse \in Nat /\ InUse <= n
    BY <1>2, <1>3, <1>7, InUseFacts
  <2>2. CASE InUse <= var2ulen
    BY <1>7, <1>8, <2>2, LevelWindow
  <2>3. CASE ~(InUse <= var2ulen)
    <3>1. skip /\ InUse = n /\ InUse = var2ulen + 1
      BY <1>2, <1>4, <2>1, <2>3
    <3>2. var1[InUse] < Msu2
      <4>1. LeftAligned(task)[n] < UnitsOf(task.rhs)[D2U(task.rhs.digits)]
        BY <3>1 DEF skip, SkipsFirst, n
      <4>2. Msu2 = UnitsOf(task.rhs)[D2U(task.rhs.digits)]
        BY <1>7, DivisorFacts DEF Msu2, var2
      <4> QED BY <1>3, <1>4, <3>1, <4>1, <4>2
    <3> QED BY <1>7, <1>8, <3>1, <3>2, LowTopWindow
  <2> QED BY <2>2, <2>3
<1>10. ValueInv
  <2>1. Value(var2) \in Nat
    BY <1>7, DivisorFacts
  <2>2. 0 * Value(var2) + Window = Window
    <3>1. Window \in Nat
      <4>1. SubSeq(var1, 1, var1units) \in Arrays /\ Shift + 1 \in Nat /\ Shift + 1 # 0
        BY <1>7, <1>8, LeftFacts
      <4> QED BY <4>1, FromStep DEF Window
    <3> QED BY <2>1, <3>1
  <2> QED BY <1>6, <1>8, <1>9, <2>2 DEF ValueInv
<1>11. PlaceInv
  <2>1. Single(task) => exponent = 0
    <3> HAVE Single(task)
    <3>1. ~skip
      BY <1>4 DEF Single
    <3>2. FirstExponent(task) + AlignShift(task) = 0
      BY <1>1, ExponentFacts
    <3> QED BY <1>5, <3>1, <3>2
  <2>2. ~IsDivide(task) => exponent >= 0 /\ exponent % DECDPUN = 0
    <3> HAVE ~IsDivide(task)
    <3>1. exponent = FirstExponent(task) + AlignShift(task)
      BY <1>4, <1>5
    <3>2. CASE Single(task)
      <4>1. exponent = 0
        BY <2>1, <3>2
      <4> QED BY <4>1, UnitSizes
    <3>3. CASE ~Single(task)
      BY <1>1, <3>1, <3>3, ExponentFacts
    <3> QED BY <3>2, <3>3
  <2> QED BY <1>3, <1>8, <2>1, <2>2 DEF PlaceInv
<1>12. ReachInv
  <2>1. var2ulen + Len(acc) >= Reach(task) - 1
    <3>1. Reach(task) = n - (IF IsDivide(task) THEN 0 ELSE 1)
      BY DEF Reach, n
    <3>2. Len(acc) = 0
      BY <1>6
    <3> QED BY <1>2, <1>4, <3>1, <3>2
  <2> QED BY <1>3, <1>6, <2>1 DEF ReachInv
<1>13. CountInv
  <2>1. task.digits \in Nat /\ task.digits # 0 /\ Len(acc) = 0
    BY <1>1, <1>6, TaskFacts
  <2>2. (task.digits - 1) \div DECDPUN + 1 >= 0
    BY <2>1, UnitSizes
  <2>3. D2U(task.digits + DECDPUN) >= 0
    <3>1. task.digits + DECDPUN \in Nat /\ task.digits + DECDPUN # 0
      BY <2>1, UnitSizes
    <3> QED BY <3>1, D2UFacts
  <2> QED BY <1>6, <2>1, <2>2, <2>3 DEF CountInv
<1> QED BY <1>7, <1>10, <1>11, <1>12, <1>13 DEF DivisionInv

----------------------------------------------------------------------------
(* Every step keeps the invariant.                                         *)

\* What is left is a number, and does not depend on the zero Units above it.
LEMMA WindowFacts ==
  ASSUME TypeInv, Shift >= 0
  PROVE  /\ Window \in Nat
         /\ ValueFrom(SubSeq(var1, 1, InUse), Shift + 1) = Window
<1> DEFINE left == SubSeq(var1, 1, var1units)
           used == SubSeq(var1, 1, InUse)
           s == Shift + 1
<1>1. /\ left \in Arrays
      /\ \A i \in Nat : i # 0 => UnitAt(left, i) = IF i <= InUse THEN var1[i] ELSE 0
  BY LeftFacts
<1>2. /\ InUse \in Nat /\ InUse >= 1 /\ InUse <= Len(var1) /\ s \in Nat /\ s >= 1
      /\ var1 \in Seq(Unit)
  BY InUseFacts, BufferType
<1>3. /\ used \in Seq(Unit) /\ Len(used) = InUse
      /\ \A i \in 1..InUse : used[i] = var1[i]
  BY <1>2
<1>4. used \in Arrays
  BY <1>3, UnitsAreNatural DEF Units
<1> HIDE DEF left, used, s
<1>5. ASSUME NEW j \in Nat, j >= s
      PROVE  UnitAt(used, j) = UnitAt(left, j + 0)
  <2>1. j # 0 /\ j + 0 = j
    BY <1>2, <1>5
  <2>2. UnitAt(used, j) = IF j <= InUse THEN var1[j] ELSE 0
    BY <1>2, <1>3, <2>1 DEF UnitAt
  <2> QED BY <1>1, <2>1, <2>2
<1>6. s # 0 /\ s + 0 = s
  BY <1>2
<1>7. ValueFrom(used, s) = ValueFrom(left, s + 0)
  BY <1>1, <1>2, <1>4, <1>5, <1>6, 0 \in Nat, SameUnits
<1>8. ValueFrom(left, s) \in Nat
  BY <1>1, <1>2, <1>6, FromStep
<1> QED BY <1>6, <1>7, <1>8 DEF Window, left, used, s

\* Finding the divisor too large keeps the invariant.
LEMMA TooLowInv ==
  ASSUME DivisionInv, TooLow
  PROVE  DivisionInv'
<1>1. TypeInv /\ ValueInv /\ PlaceInv /\ ReachInv /\ CountInv
  BY DEF DivisionInv
<1>2. /\ pc = "inner" /\ IsLower /\ var1units' = InUse /\ pc' = "outer"
      /\ task' = task /\ var1' = var1 /\ var2ulen' = var2ulen
      /\ exponent' = exponent /\ thisunit' = thisunit
      /\ acc' = acc /\ accdigits' = accdigits
  BY DEF TooLow
<1>3. Shift >= 0 /\ Shift \in Int
  BY <1>1, BufferType DEF PlaceInv
<1>4. InUse \in 1..Len(var1) /\ InUse \in 1..var1units
  BY <1>1, InUseFacts, BufferType
<1>5. TypeInv'
  BY <1>1, <1>2, <1>4 DEF TypeInv
<1>6. Shift' = Shift /\ var2' = var2 /\ Window' = Window
  <2>1. Shift' = Shift /\ var2' = var2
    BY <1>2 DEF Shift, var2
  <2>2. Window' = ValueFrom(SubSeq(var1, 1, InUse), Shift + 1)
    BY <1>2, <2>1 DEF Window
  <2> QED BY <1>1, <1>3, <2>1, <2>2, WindowFacts
<1>7. ValueInv'
  <2>1. thisunit * Value(var2) + Window < UnitBase * Value(var2)
    BY <1>1, <1>2 DEF ValueInv
  <2>2. Window < Value(var2)
    BY <1>1, <1>2, <1>3, LowerIsLess
  <2> QED BY <1>2, <1>6, <2>1, <2>2 DEF ValueInv
<1>8. PlaceInv'
  BY <1>1, <1>2, <1>6 DEF PlaceInv
<1>9. ReachInv'
  <2> SUFFICES ASSUME ~Single(task)
               PROVE  /\ var2ulen + Len(acc) >= Reach(task) - 1
                      /\ Untouched => \E i \in Reach(task)..InUse : var1[i] # 0
                      /\ Untouched => var2ulen >= Reach(task)
    BY <1>2 DEF ReachInv, Untouched
  <2>1. /\ var2ulen + Len(acc) >= Reach(task) - 1
        /\ Untouched => \E i \in Reach(task)..var1units : var1[i] # 0
    BY <1>1, <1>2 DEF ReachInv
  <2>2. ASSUME Untouched
        PROVE  /\ \E i \in Reach(task)..InUse : var1[i] # 0
               /\ var2ulen >= Reach(task)
    <3>1. PICK i \in Reach(task)..var1units : var1[i] # 0
      BY <2>1, <2>2
    <3>2. Reach(task) \in Int /\ Reach(task) >= 1
      <4>1. BufferUnits(task) \in Nat /\ BufferUnits(task) >= D2U(task.rhs.digits) + 2
        BY <1>1, BufferFacts DEF TypeInv
      <4>2. D2U(task.rhs.digits) \in Nat
        BY <1>1, DivisorFacts
      <4> QED BY <4>1, <4>2 DEF Reach
    <3>3. i \in 1..var1units /\ i <= InUse /\ i \in Reach(task)..InUse
      <4>1. var1units \in Nat /\ InUse \in Nat
        BY <1>1, <1>4, BufferType
      <4>2. i \in 1..var1units
        BY <3>2, <4>1
      <4>3. ~(i > InUse)
        BY <1>1, <3>1, <4>2, InUseFacts
      <4> QED BY <3>2, <4>1, <4>2, <4>3
    <3>4. InUse \in Int /\ var2ulen \in Int
      BY <1>1, InUseFacts, BufferType DEF TypeInv
    <3>5. var2ulen >= Reach(task)
      <4>1. var2ulen >= InUse
        BY <1>2, <3>4 DEF IsLower
      <4> QED BY <3>2, <3>3, <3>4, <4>1
    <3> QED BY <3>1, <3>3, <3>5
  <2> QED BY <2>1, <2>2
<1>10. CountInv'
  BY <1>1, <1>2 DEF CountInv
<1> QED BY <1>5, <1>7, <1>8, <1>9, <1>10 DEF DivisionInv

\* A single Unit of zero is zero wherever it is looked at.
LEMMA ZeroUnit ==
  ASSUME NEW u \in Units, Len(u) = 1, u[1] = 0, NEW s \in Nat, s >= 1
  PROVE  ValueFrom(u, s) = 0
<1>1. u \in Arrays /\ s # 0
  BY UnitsAreNatural
<1>2. CASE s > 1
  BY <1>1, <1>2, FromStep
<1>3. CASE s = 1
  <2>1. ValueFrom(u, 1) = UnitAt(u, 1)
    BY <1>1, 1 \in Nat, 1 >= 1, LastUnits
  <2>2. UnitAt(u, 1) = 0
    BY DEF UnitAt
  <2> QED BY <1>3, <2>1, <2>2
<1> QED BY <1>2, <1>3

\* Finding the divisor all that is left keeps the invariant.
LEMMA IdenticalInv ==
  ASSUME DivisionInv, Identical
  PROVE  DivisionInv'
<1>1. TypeInv /\ ValueInv /\ PlaceInv /\ ReachInv /\ CountInv
  BY DEF DivisionInv
<1>2. /\ pc = "inner" /\ IsEqual /\ var1units' = 1 /\ pc' = "outer"
      /\ task' = task /\ var1' = [ var1 EXCEPT ![1] = 0 ] /\ var2ulen' = var2ulen
      /\ exponent' = exponent /\ thisunit' = thisunit + 1
      /\ acc' = acc /\ accdigits' = accdigits
  BY DEF Identical
<1>3. Shift >= 0 /\ Shift \in Nat
  BY <1>1, BufferType DEF PlaceInv
<1>4. /\ var1 \in Seq(Unit) /\ Len(var1) \in Nat /\ Len(var1) >= 1
      /\ thisunit \in Nat
  BY <1>1, BufferType DEF TypeInv
<1>5. /\ var1' \in Seq(Unit) /\ Len(var1') = Len(var1) /\ var1'[1] = 0
  BY <1>2, <1>4, UnitFacts
<1>6. TypeInv'
  BY <1>1, <1>2, <1>4, <1>5 DEF TypeInv, Units
<1>7. Shift' = Shift /\ var2' = var2
  BY <1>2 DEF Shift, var2
<1>8. Window' = 0
  <2> DEFINE left == SubSeq(var1', 1, 1)
             s == Shift + 1
  <2>1. Window' = ValueFrom(left, s)
    BY <1>2, <1>7 DEF Window
  <2>2. left \in Seq(Unit) /\ Len(left) = 1 /\ left[1] = 0
    BY <1>4, <1>5
  <2>3. left \in Units
    BY <2>2 DEF Units
  <2>4. s \in Nat /\ s >= 1
    BY <1>3
  <2> HIDE DEF left, s
  <2> QED BY <2>1, <2>2, <2>3, <2>4, ZeroUnit
<1>9. ValueInv'
  <2>1. thisunit * Value(var2) + Window < UnitBase * Value(var2)
    BY <1>1, <1>2 DEF ValueInv
  <2>2. Window = Value(var2)
    BY <1>1, <1>2, <1>3, EqualIsEqual
  <2>3. Value(var2) \in Nat /\ Value(var2) >= 1
    BY <1>1, DivisorFacts
  <2>4. (thisunit + 1) * Value(var2) + 0 < UnitBase * Value(var2)
    <3>1. (thisunit + 1) * Value(var2) = thisunit * Value(var2) + Value(var2)
          /\ thisunit * Value(var2) \in Nat
      BY <1>4, <2>3
    <3> QED BY <2>1, <2>2, <2>3, <3>1
  <2> QED BY <1>2, <1>7, <1>8, <2>3, <2>4 DEF ValueInv
<1>10. PlaceInv'
  BY <1>1, <1>2, <1>5, <1>7 DEF PlaceInv
<1>11. ReachInv'
  <2>1. ~Untouched'
    BY <1>2, <1>4 DEF Untouched
  <2>2. ~Single(task) => var2ulen + Len(acc) >= Reach(task) - 1
    BY <1>1, <1>2 DEF ReachInv
  <2> QED BY <1>2, <2>1, <2>2 DEF ReachInv
<1>12. CountInv'
  BY <1>1, <1>2 DEF CountInv
<1> QED BY <1>6, <1>9, <1>10, <1>11, <1>12 DEF DivisionInv

\* Subtracting a multiple keeps the invariant.
LEMMA SubtractInv ==
  ASSUME DivisionInv, Subtract
  PROVE  DivisionInv'
<1>1. TypeInv /\ ValueInv /\ PlaceInv /\ ReachInv /\ CountInv
  BY DEF DivisionInv
<1>2. /\ pc = "inner" /\ ~IsLower /\ ~IsEqual /\ var1units' = InUse /\ pc' = "inner"
      /\ task' = task /\ var1' = Lowered /\ var2ulen' = var2ulen
      /\ exponent' = exponent /\ thisunit' = thisunit + Multiplier
      /\ acc' = acc /\ accdigits' = accdigits
  BY DEF Subtract, CanSubtract, Lowered
<1>3. Shift >= 0 /\ Shift \in Nat
  BY <1>1, BufferType DEF PlaceInv
<1>4. thisunit * Value(var2) + Window < UnitBase * Value(var2)
  BY <1>1, <1>2 DEF ValueInv
<1>5. InUse >= 2 /\ InUse \in 1..Len(var1)
  <2>1. InUse >= 2
    BY <1>1, <1>2, <1>3, TwoInUse DEF ValueInv
  <2> QED BY <1>1, <2>1, InUseFacts, BufferType
<1>6. /\ Window \in Nat /\ Window < UnitBase * Value(var2)
      /\ Multiplier \in Nat /\ Multiplier >= 1
  BY <1>1, <1>2, <1>3, <1>4, <1>5, MultiplierFits
<1>7. /\ Lowered \in Units /\ Len(Lowered) = Len(var1)
      /\ Shift >= 1 => Lowered[1] = var1[1]
      /\ ValueFrom(SubSeq(Lowered, 1, InUse), Shift + 1)
           = Window - Multiplier * Value(var2)
  BY <1>1, <1>2, <1>3, <1>4, <1>5, LoweredFacts
<1>8. thisunit \in Nat /\ thisunit' \in Nat /\ thisunit' # 0
  BY <1>1, <1>2, <1>6 DEF TypeInv
<1>9. TypeInv'
  BY <1>1, <1>2, <1>5, <1>7, <1>8 DEF TypeInv
<1>10. Shift' = Shift /\ var2' = var2
  BY <1>2 DEF Shift, var2
<1>11. Window' = Window - Multiplier * Value(var2)
  BY <1>2, <1>7, <1>10 DEF Window
<1>12. Value(var2) \in Nat
  BY <1>1, DivisorFacts
<1>13. ValueInv'
  <2>1. (thisunit + Multiplier) * Value(var2) + (Window - Multiplier * Value(var2))
          = thisunit * Value(var2) + Window
    <3>1. (thisunit + Multiplier) * Value(var2)
            = thisunit * Value(var2) + Multiplier * Value(var2)
      BY <1>6, <1>8, <1>12
    <3>2. thisunit * Value(var2) \in Nat /\ Multiplier * Value(var2) \in Nat
      BY <1>6, <1>8, <1>12
    <3> QED BY <1>6, <3>1, <3>2
  <2>2. Len(var2) = 1 /\ Shift = 0 => Window - Multiplier * Value(var2) < Value(var2)
    <3> HAVE Len(var2) = 1 /\ Shift = 0
    <3>1. Window < (Multiplier + 1) * Value(var2)
      BY <1>1, <1>2, <1>3, <1>5, <1>6, MultiplierIsSafe
    <3>2. (Multiplier + 1) * Value(var2) = Multiplier * Value(var2) + Value(var2)
          /\ Multiplier * Value(var2) \in Nat
      BY <1>6, <1>12
    <3> QED BY <1>6, <1>12, <3>1, <3>2
  <2> QED BY <1>2, <1>4, <1>10, <1>11, <2>1, <2>2 DEF ValueInv
<1>14. PlaceInv'
  BY <1>1, <1>2, <1>7, <1>10 DEF PlaceInv
<1>15. ReachInv'
  <2>1. ~Untouched'
    BY <1>8 DEF Untouched
  <2>2. ~Single(task) => var2ulen + Len(acc) >= Reach(task) - 1
    BY <1>1, <1>2 DEF ReachInv
  <2> QED BY <1>2, <2>1, <2>2 DEF ReachInv
<1>16. CountInv'
  BY <1>1, <1>2 DEF CountInv
<1> QED BY <1>9, <1>13, <1>14, <1>15, <1>16 DEF DivisionInv

\* Units for the digits of the quotient, and one more.
LEMMA LastRoom ==
  ASSUME NEW p \in Nat, p # 0
  PROVE  D2U(p + DECDPUN) = (p - 1) \div DECDPUN + 2
<1>1. CASE DECDPUN = 1
  BY <1>1 DEF D2U
<1>2. CASE DECDPUN = 2
  BY <1>2 DEF D2U
<1>3. CASE DECDPUN = 3
  BY <1>3 DEF D2U
<1>4. CASE DECDPUN = 4
  BY <1>4 DEF D2U
<1> QED BY <1>1, <1>2, <1>3, <1>4, UnitSizes

\* The count of digits is that of the Units found, the first of which may have
\* fewer; it says how many Units there can be.
LEMMA CountStep ==
  ASSUME DivisionInv, NextUnit
  PROVE  /\ CountInv'
         /\ acc' \in Units /\ accdigits' \in Int
         /\ Len(acc') = Len(acc) + (IF Kept THEN 1 ELSE 0)
<1> DEFINE P == task.digits
           D == DECDPUN
           n == Len(acc)
<1>1. TypeInv /\ ValueInv /\ PlaceInv /\ ReachInv /\ CountInv
  BY DEF DivisionInv
<1>2. /\ pc = "outer" /\ task' = task
      /\ acc' = (IF Kept THEN <<thisunit>> \o acc ELSE acc)
      /\ accdigits' = (IF Kept THEN NextDigits ELSE accdigits)
      /\ pc' = (IF Finished THEN "done" ELSE "inner")
  BY DEF NextUnit
<1>3. P \in Nat /\ P >= 1 /\ D \in 1..4 /\ n \in Nat /\ acc \in Seq(Unit) /\ accdigits \in Int
  BY <1>1, TaskFacts, UnitSizes DEF TypeInv, Units
<1>4. thisunit \in Unit
  <2>1. thisunit * Value(var2) + Window < UnitBase * Value(var2) /\ Window < Value(var2)
    BY <1>1, <1>2 DEF ValueInv
  <2>2. Value(var2) \in Nat /\ thisunit \in Nat /\ Window \in Nat
    BY <1>1, DivisorFacts, WindowFacts DEF TypeInv, PlaceInv
  <2>3. thisunit * Value(var2) < UnitBase * Value(var2)
    <3>1. thisunit * Value(var2) \in Nat /\ UnitBase * Value(var2) \in Nat
      BY <2>2, UnitFacts
    <3> QED BY <2>1, <2>2, <3>1
  <2>4. thisunit < UnitBase
    BY <2>2, <2>3, UnitFacts
  <2> QED BY <2>2, <2>4, UnitFacts DEF Unit
<1>5. acc = << >> <=> n = 0
  BY <1>3
<1>6. /\ n <= (P - 1) \div D + 1
      /\ n # 0 => accdigits >= 1 + (n - 1) * D /\ accdigits <= P
  <2>1. n <= (P - 1) \div D + 1
    BY <1>1, <1>2 DEF CountInv
  <2>2. n # 0 => accdigits \in (1 + (n - 1) * D)..P
    BY <1>1, <1>2, <1>5 DEF CountInv
  <2> QED BY <1>3, <2>1, <2>2
<1> HIDE DEF P, D, n
<1>7. D2U(P + D) = (P - 1) \div D + 2
  <2>1. P \in Nat /\ P # 0
    BY <1>3
  <2> QED BY <2>1, LastRoom DEF D
<1>8. (P - 1) \div D \in Nat
  BY <1>3
<1>9. CASE Kept
  <2>1. acc' \in Seq(Unit) /\ Len(acc') = n + 1
    BY <1>2, <1>3, <1>4, <1>9 DEF n
  <2>2. NextDigits \in Int /\ NextDigits >= 1 + n * D
    <3>1. CASE n = 0
      <4>1. NextDigits = GetDigits(thisunit)
        BY <1>5, <3>1 DEF NextDigits
      <4>2. NextDigits \in 1..D
        BY <1>4, <4>1, GetDigitsOfUnit DEF D
      <4>3. n * D = 0
        BY <1>3, <3>1
      <4> QED BY <1>3, <4>2, <4>3
    <3>2. CASE n # 0
      <4>1. NextDigits = accdigits + D
        BY <1>5, <3>2 DEF NextDigits, D
      <4>2. (n - 1) * D + D = n * D /\ (n - 1) * D \in Int
        BY <1>3
      <4> QED BY <1>3, <1>6, <3>2, <4>1, <4>2
    <3> QED BY <3>1, <3>2
  <2>3. ASSUME ~Finished
        PROVE  NextDigits <= P /\ n + 1 <= (P - 1) \div D + 1
    <3>1. NextDigits <= P
      <4>1. ~(NextDigits > P)
        BY <1>9, <2>3 DEF Finished, P
      <4> QED BY <1>3, <2>2, <4>1
    <3>2. n * D \in Nat
      BY <1>3
    <3>3. n * D <= P - 1
      BY <1>3, <2>2, <3>1, <3>2
    <3>4. n <= (P - 1) \div D
      <4>1. CASE D = 1
        BY <1>3, <3>3, <4>1
      <4>2. CASE D = 2
        BY <1>3, <3>3, <4>2
      <4>3. CASE D = 3
        BY <1>3, <3>3, <4>3
      <4>4. CASE D = 4
        BY <1>3, <3>3, <4>4
      <4> QED BY <1>3, <4>1, <4>2, <4>3, <4>4
    <3> QED BY <1>3, <1>8, <3>1, <3>4
  <2>4. /\ accdigits' = NextDigits
        /\ n + 1 <= D2U(P + D)
        /\ Len(acc') - 1 = n
    BY <1>2, <1>3, <1>6, <1>7, <1>8, <1>9, <2>1
  <2>5. /\ pc' # "done" /\ acc' # << >> =>
             accdigits' \in (1 + (Len(acc') - 1) * D)..P
        /\ pc' # "done" => Len(acc') <= (P - 1) \div D + 1
        /\ Len(acc') <= D2U(P + D)
    <3>1. pc' # "done" => ~Finished
      BY <1>2
    <3>2. n * D \in Nat
      BY <1>3
    <3> QED BY <1>3, <2>1, <2>2, <2>3, <2>4, <3>1, <3>2
  <2>6. CountInv'
    BY <1>2, <2>5 DEF CountInv, P, D
  <2> QED BY <1>9, <2>1, <2>2, <2>4, <2>6 DEF Units, n
<1>10. CASE ~Kept
  <2>1. acc' = acc /\ accdigits' = accdigits
    BY <1>2, <1>10
  <2>2. CountInv'
    BY <1>1, <1>2, <2>1 DEF CountInv
  <2> QED BY <1>3, <1>10, <2>1, <2>2 DEF Units, n
<1> QED BY <1>9, <1>10

\* A Unit of the quotient that is not the last leaves a place to the right.
LEMMA PlaceStep ==
  ASSUME DivisionInv, NextUnit, ~Finished
  PROVE  /\ ~Single(task)
         /\ Shift >= 1 /\ Shift \in Nat /\ Shift' = Shift - 1
         /\ var2ulen' + Len(acc') >= Reach(task) - 1
<1>1. TypeInv /\ ValueInv /\ PlaceInv /\ ReachInv /\ CountInv
  BY DEF DivisionInv
<1>2. pc = "outer" /\ pc' = "inner" /\ task' = task /\ var2ulen' = var2ulen - 1
  BY DEF NextUnit
<1>3. CountInv' /\ Len(acc') = Len(acc) + (IF Kept THEN 1 ELSE 0)
  BY CountStep
<1>4. ~Single(task)
  BY <1>1 DEF PlaceInv, Finished, Single
<1>5. /\ Reach(task) >= Len(var2) + (task.digits - 1) \div DECDPUN + 2
      /\ Reach(task) \in Int /\ Len(var2) \in Nat /\ var2ulen \in Int /\ Len(acc) \in Nat
      /\ (task.digits - 1) \div DECDPUN \in Nat
  <2>1. /\ task \in Tasks /\ BufferUnits(task) \in Nat
        /\ Reach(task) >= D2U(task.rhs.digits) + (task.digits - 1) \div DECDPUN + 2
    BY <1>1, BufferFacts DEF TypeInv
  <2>2. Reach(task) \in Int
    BY <2>1 DEF Reach
  <2>3. Len(var2) = D2U(task.rhs.digits) /\ Len(var2) \in Nat
    BY <1>1, DivisorFacts
  <2>4. (task.digits - 1) \div DECDPUN \in Nat
    BY <2>1, TaskFacts, UnitSizes
  <2> QED BY <1>1, <2>1, <2>2, <2>3, <2>4 DEF TypeInv, Units
<1>6. var2ulen' + Len(acc') >= Reach(task) - 1
  <2>1. var2ulen + Len(acc) >= Reach(task) - 1
    BY <1>1, <1>2, <1>4 DEF ReachInv
  <2>2. CASE Kept
    BY <1>2, <1>3, <1>5, <2>1, <2>2
  <2>3. CASE ~Kept
    <3>1. var2ulen >= Reach(task) /\ Len(acc) = 0
      BY <1>1, <1>2, <1>4, <2>3 DEF ReachInv, Untouched, Kept
    <3> QED BY <1>2, <1>3, <1>5, <2>3, <3>1
  <2> QED BY <2>2, <2>3
<1>7. Len(acc') <= (task.digits - 1) \div DECDPUN + 1 /\ Len(acc') \in Nat
  BY <1>2, <1>3, <1>5 DEF CountInv
<1>8. var2ulen - 1 >= Len(var2)
  BY <1>2, <1>5, <1>6, <1>7
<1>9. Shift >= 1 /\ Shift \in Nat
  BY <1>5, <1>8 DEF Shift
<1>10. Shift' = Shift - 1
  BY <1>2, <1>5 DEF Shift, var2
<1> QED BY <1>4, <1>6, <1>9, <1>10

\* The next place brings in one Unit from the right.
Incoming == UnitAt(SubSeq(var1, 1, var1units), Shift)

\* Going on to the next Unit brings that Unit into the window.
LEMMA WindowStep ==
  ASSUME DivisionInv, NextUnit, ~Finished
  PROVE  /\ Window \in Nat /\ Window < Value(var2)
         /\ Incoming \in Unit
         /\ Window' = Incoming + UnitBase * Window
         /\ Shift = 1 => Incoming = var1[1]
<1>1. TypeInv /\ ValueInv /\ Shift >= 1 /\ Shift \in Nat /\ Shift' = Shift - 1
  BY PlaceStep DEF DivisionInv
<1>2. pc = "outer" /\ var1' = var1 /\ var1units' = var1units
  BY DEF NextUnit
<1>3. Window \in Nat /\ Window < Value(var2)
  BY <1>1, <1>2, WindowFacts DEF ValueInv
<1> DEFINE left == SubSeq(var1, 1, var1units)
<1>4. /\ left \in Arrays
      /\ \A i \in Nat : i # 0 => UnitAt(left, i) = IF i <= InUse THEN var1[i] ELSE 0
  BY <1>1, LeftFacts
<1>5. Window' = ValueFrom(left, Shift)
  <2>1. (Shift - 1) + 1 = Shift
    BY <1>1
  <2> QED BY <1>1, <1>2, <2>1 DEF Window
<1>6. Shift \in Nat /\ Shift # 0
  BY <1>1
<1>7. ValueFrom(left, Shift) = UnitAt(left, Shift) + UnitBase * ValueFrom(left, Shift + 1)
  BY <1>4, <1>6, FromStep
<1>8. Window = ValueFrom(left, Shift + 1)
  BY DEF Window
<1>9. UnitAt(left, Shift) \in Unit
  BY <1>1, LeftFacts, UnitsAreNatural
<1>10. Shift = 1 => UnitAt(left, Shift) = var1[1]
  <2>1. 1 <= InUse /\ 1 \in Nat /\ 1 # 0
    BY <1>1, InUseFacts, BufferType
  <2> QED BY <1>4, <2>1
<1> QED BY <1>3, <1>5, <1>7, <1>8, <1>9, <1>10 DEF Incoming

\* Going on to the next Unit, or stopping, keeps the invariant.
LEMMA NextUnitInv ==
  ASSUME DivisionInv, NextUnit
  PROVE  DivisionInv'
<1>1. TypeInv /\ ValueInv /\ PlaceInv /\ ReachInv /\ CountInv
  BY DEF DivisionInv
<1>2. /\ pc = "outer" /\ task' = task /\ var1' = var1 /\ var1units' = var1units
      /\ Finished => /\ pc' = "done" /\ var2ulen' = var2ulen
                     /\ exponent' = exponent /\ thisunit' = thisunit
      /\ ~Finished => /\ pc' = "inner" /\ var2ulen' = var2ulen - 1
                      /\ exponent' = exponent - DECDPUN /\ thisunit' = 0
  BY DEF NextUnit
<1>3. CountInv' /\ acc' \in Units /\ accdigits' \in Int
  BY CountStep
<1>4. TypeInv'
  <2>1. var2ulen \in Int /\ exponent \in Int /\ thisunit \in Nat /\ DECDPUN \in Int
    BY <1>1, UnitSizes DEF TypeInv
  <2>2. /\ var2ulen' \in Int /\ exponent' \in Int /\ thisunit' \in Nat
        /\ pc' \in { "inner", "outer", "done" }
    BY <1>2, <2>1
  <2> QED BY <1>1, <1>2, <1>3, <2>2 DEF TypeInv
<1>5. var2' = var2
  BY <1>2 DEF var2
<1>6. CASE Finished
  <2>1. Shift' = Shift
    BY <1>2, <1>5, <1>6 DEF Shift
  <2>2. ValueInv' /\ ReachInv'
    BY <1>2, <1>6 DEF ValueInv, ReachInv
  <2>3. PlaceInv'
    BY <1>1, <1>2, <1>6, <2>1 DEF PlaceInv
  <2> QED BY <1>3, <1>4, <2>2, <2>3 DEF DivisionInv
<1>7. CASE ~Finished
  <2>1. /\ ~Single(task) /\ Shift >= 1 /\ Shift \in Nat /\ Shift' = Shift - 1
        /\ var2ulen' + Len(acc') >= Reach(task) - 1
    BY <1>7, PlaceStep
  <2> DEFINE u == Incoming
  <2>2. u \in Unit /\ Window' = u + UnitBase * Window /\ (Shift = 1 => u = var1[1])
    BY <1>7, WindowStep
  <2> HIDE DEF u
  <2>3. Window \in Nat /\ Window < Value(var2) /\ Value(var2) \in Nat
    BY <1>1, <1>7, WindowStep, DivisorFacts
  <2>4. pc' = "inner" /\ thisunit' = 0
    BY <1>2, <1>7
  <2>5. ValueInv'
    <3>1. u \in Nat /\ u <= UnitBase - 1 /\ UnitBase \in Nat
      BY <2>2, UnitFacts DEF Unit
    <3>2. UnitBase * Window + UnitBase <= UnitBase * Value(var2)
      <4>1. Window + 1 <= Value(var2)
        BY <2>3
      <4>2. UnitBase * (Window + 1) <= UnitBase * Value(var2)
        BY <2>3, <3>1, <4>1
      <4>3. UnitBase * (Window + 1) = UnitBase * Window + UnitBase
        BY <2>3, <3>1
      <4> QED BY <4>2, <4>3
    <3>3. UnitBase * Window \in Nat /\ UnitBase * Value(var2) \in Nat
      BY <2>3, <3>1
    <3>4. 0 * Value(var2) + Window' < UnitBase * Value(var2)
      <4>1. u + UnitBase * Window < UnitBase * Value(var2)
        BY <3>1, <3>2, <3>3
      <4>2. 0 * Value(var2) + (u + UnitBase * Window) = u + UnitBase * Window
        BY <2>3, <3>1, <3>3
      <4> QED BY <2>2, <4>1, <4>2
    <3>5. Shift' = 0 => Window' < Value(var2) \/ Window' >= UnitBase
      <4> HAVE Shift' = 0
      <4>1. Shift = 1
        BY <2>1
      <4>2. u = 0
        BY <1>1, <2>1, <2>2, <4>1 DEF PlaceInv
      <4>3. Window' = UnitBase * Window
        BY <2>2, <3>3, <4>2
      <4>4. Window = 0 \/ Window >= 1
        BY <2>3
      <4>5. Window >= 1 => UnitBase * Window >= UnitBase
        BY <2>3, <3>1
      <4>6. Window = 0 => UnitBase * Window = 0
        BY <3>1
      <4> QED BY <2>3, <4>3, <4>4, <4>5, <4>6
    <3> QED BY <1>5, <2>4, <3>4, <3>5 DEF ValueInv
  <2>6. PlaceInv'
    <3>1. Shift' >= 0 /\ (Shift' >= 1 => var1[1] = 0)
      BY <1>1, <2>1 DEF PlaceInv
    <3>2. ~IsDivide(task) => exponent' >= 0 /\ exponent' % DECDPUN = 0
      <4> HAVE ~IsDivide(task)
      <4>1. exponent >= 0 /\ exponent % DECDPUN = 0 /\ exponent # 0 /\ exponent \in Nat
            /\ exponent' = exponent - DECDPUN
        BY <1>1, <1>2, <1>7 DEF PlaceInv, Finished, TypeInv
      <4>2. CASE DECDPUN = 1
        BY <4>1, <4>2
      <4>3. CASE DECDPUN = 2
        BY <4>1, <4>3
      <4>4. CASE DECDPUN = 3
        BY <4>1, <4>4
      <4>5. CASE DECDPUN = 4
        BY <4>1, <4>5
      <4> QED BY <4>2, <4>3, <4>4, <4>5, UnitSizes
    <3> QED BY <1>2, <2>1, <3>1, <3>2 DEF PlaceInv
  <2>7. ReachInv'
    <3>1. Untouched' => Untouched
      <4> HAVE Untouched'
      <4>1. CASE Kept
        <5>1. acc' = <<thisunit>> \o acc
          BY <4>1 DEF NextUnit
        <5>2. acc \in Seq(Unit) /\ thisunit \in Nat
          BY <1>1 DEF TypeInv, Units
        <5>3. acc' # << >>
          <6>1. Len(<<thisunit>> \o acc) = 1 + Len(acc) /\ Len(acc) \in Nat
            BY <5>2
          <6>2. Len(<< >>) = 0
            OBVIOUS
          <6> QED BY <5>1, <6>1, <6>2
        <5> QED BY <5>3 DEF Untouched
      <4>2. CASE ~Kept
        BY <4>2 DEF Kept, Untouched
      <4> QED BY <4>1, <4>2
    <3>2. Untouched => \E i \in Reach(task)..var1units : var1[i] # 0
      BY <1>1, <1>2, <2>1 DEF ReachInv
    <3> QED BY <1>2, <2>1, <2>4, <3>1, <3>2 DEF ReachInv
  <2> QED BY <1>3, <1>4, <2>5, <2>6, <2>7 DEF DivisionInv
<1> QED BY <1>6, <1>7

\* The division is always where its invariant says: every Unit is a Unit, what
\* is left is below UnitBase times the divisor, and the divisor is in place.
THEOREM DivisionIsInvariant == Spec => []DivisionInv
<1>1. Init => DivisionInv
  BY InitInv
<1>2. DivisionInv /\ [Next]_vars => DivisionInv'
  <2> SUFFICES ASSUME DivisionInv, [Next]_vars PROVE DivisionInv'
    OBVIOUS
  <2>1. CASE TooLow
    BY <2>1, TooLowInv
  <2>2. CASE Identical
    BY <2>2, IdenticalInv
  <2>3. CASE Subtract
    BY <2>3, SubtractInv
  <2>4. CASE NextUnit
    BY <2>4, NextUnitInv
  <2>5. CASE UNCHANGED vars
    BY <2>5 DEF vars, DivisionInv, TypeInv, ValueInv, PlaceInv, ReachInv, CountInv,
                Window, Shift, var2, Untouched
  <2> QED BY <2>1, <2>2, <2>3, <2>4, <2>5 DEF Next
<1> QED BY <1>1, <1>2, PTL DEF Spec

\* No index leaves its buffer and every Unit holds digits only, whatever the
\* lengths of the operands, the precision and the size of a Unit.
THEOREM DivisionInBounds == Spec => []InBounds
<1>1. DivisionInv => InBounds
  <2> SUFFICES ASSUME DivisionInv PROVE InBounds
    OBVIOUS
  <2>1. TypeInv /\ ValueInv /\ PlaceInv /\ CountInv
    BY DEF DivisionInv
  <2>2. CanSubtract => InUse >= 2
    BY <2>1, TwoInUse DEF CanSubtract, ValueInv, PlaceInv
  <2>3. \A i \in 1..Len(var1) : IsUnit(var1[i])
    BY <2>1, BufferType DEF IsUnit, Unit
  <2>4. \A i \in 1..Len(acc) : IsUnit(acc[i])
    <3> TAKE i \in 1..Len(acc)
    <3>1. acc \in Seq(Unit)
      BY <2>1 DEF TypeInv, Units
    <3>2. acc[i] \in Unit
      BY <3>1
    <3> QED BY <3>2 DEF IsUnit, Unit
  <2> QED BY <2>1, <2>2, <2>3, <2>4 DEF InBounds, PlaceInv, CountInv
<1> QED BY <1>1, DivisionIsInvariant, PTL

\* The estimate from the two top Units never subtracts too much, and what is
\* subtracted in one place adds up to a single Unit of the quotient.
THEOREM DivisionEstimateIsSafe == Spec => []EstimateIsSafe
<1>1. DivisionInv => EstimateIsSafe
  <2> SUFFICES ASSUME DivisionInv, CanSubtract
               PROVE  /\ ~Difference.neg
                      /\ thisunit + Multiplier \in (thisunit + 1)..(UnitBase - 1)
                      /\ Len(Difference.units) = InUse - Shift
    BY DEF EstimateIsSafe
  <2>1. /\ TypeInv /\ Shift >= 0 /\ ~IsLower /\ ~IsEqual
        /\ thisunit * Value(var2) + Window < UnitBase * Value(var2)
    BY DEF DivisionInv, CanSubtract, PlaceInv, ValueInv
  <2>2. InUse >= 2
    BY <2>1, TwoInUse DEF DivisionInv, ValueInv, CanSubtract
  <2>3. /\ Multiplier \in Nat /\ Multiplier >= 1
        /\ thisunit + Multiplier <= UnitBase - 1
    BY <2>1, <2>2, MultiplierFits
  <2>4. ~Difference.neg /\ Len(Difference.units) = InUse - Shift
    BY <2>1, <2>2, DifferenceFacts
  <2>5. thisunit \in Nat /\ UnitBase \in Nat
    BY <2>1, UnitFacts DEF TypeInv
  <2> QED BY <2>3, <2>4, <2>5
<1> QED BY <1>1, DivisionIsInvariant, PTL

----------------------------------------------------------------------------
(* Nothing is lost: the dividend is what was found of the quotient times   *)
(* the divisor in its place, and what is left.                             *)

\* The dividend as the loop first sees it, the divisor where it is now, and
\* what is left, as numbers; the Units of the quotient found so far.
Whole == Value(ShiftToLeast(LeftAligned(task), AlignShift(task)))
Placed == Value(Shifted(var2, Shift))
Left == Value(SubSeq(var1, 1, var1units))
Found == IF pc = "done" THEN Value(acc) ELSE thisunit + UnitBase * Value(acc)

\* At the end what is left is less than the divisor where it stopped: acc is
\* the quotient of the division, and var1 the remainder.
ExactInv ==
  /\ Whole = Found * Placed + Left
  /\ pc = "done" => Left < Placed

\* The numbers the exact argument is about are naturals.
LEMMA ExactTypes ==
  ASSUME DivisionInv
  PROVE  /\ Placed \in Nat /\ Left \in Nat /\ Value(acc) \in Nat
         /\ Shift \in Nat /\ var2 \in Units
         /\ thisunit \in Nat /\ Found \in Nat
<1>1. TypeInv /\ PlaceInv
  BY DEF DivisionInv
<1>2. Shift \in Nat /\ var2 \in Units /\ acc \in Units /\ thisunit \in Nat
  BY <1>1, BufferType, DivisorFacts DEF PlaceInv, TypeInv
<1>3. Shifted(var2, Shift) \in Units
  BY <1>2, ShiftedFacts
<1>4. SubSeq(var1, 1, var1units) \in Arrays
  BY <1>1, LeftFacts
<1>5. Placed \in Nat
  BY <1>3, UnitsAreNatural, 1 \in Nat, 1 # 0, FromStep DEF Placed, Value
<1>6. Left \in Nat
  BY <1>4, 1 \in Nat, 1 # 0, FromStep DEF Left, Value
<1>7. Value(acc) \in Nat
  BY <1>2, UnitsAreNatural, 1 \in Nat, 1 # 0, FromStep DEF Value
<1>8. UnitBase * Value(acc) \in Nat
  BY <1>7, UnitFacts
<1> QED BY <1>2, <1>5, <1>6, <1>7, <1>8 DEF Found

\* What is left splits at the divisor's place into the window and less than one
\* Unit there.
LEMMA LeftSplits ==
  ASSUME TypeInv, Shift >= 0, NEW w, Weights(w, Shift)
  PROVE  \E low \in 0..(w[Shift] - 1) : Left = low + w[Shift] * Window
<1>1. Shift \in Nat /\ Shift \in 0..Shift
  BY BufferType
<1>2. SubSeq(var1, 1, var1units) \in Units
  BY LeftFacts
<1> QED BY <1>1, <1>2, SplitValue DEF Left, Window

\* Nothing is found yet, and all of the dividend is left.
LEMMA InitExact == Init => ExactInv
<1> SUFFICES ASSUME Init PROVE ExactInv
  OBVIOUS
<1>1. DivisionInv
  BY InitInv
<1>2. SubSeq(var1, 1, var1units) = var1
  <2>1. var1 \in Seq(Unit) /\ var1units = Len(var1)
    <3>1. var1 \in Seq(Unit) /\ Len(var1) = BufferUnits(task)
      BY <1>1 DEF DivisionInv, TypeInv, Units
    <3> QED BY <3>1 DEF Init
  <2> QED BY <2>1
<1>3. Left = Whole
  BY <1>2 DEF Left, Whole, Init
<1>4. Found = 0 /\ pc # "done"
  <2>1. acc = << >> /\ thisunit = 0 /\ pc = "inner"
    BY DEF Init
  <2>2. Value(acc) = 0
    <3>1. acc \in Arrays /\ Len(acc) = 0
      BY <2>1 DEF Arrays
    <3> QED BY <3>1, 1 \in Nat, 1 # 0, 1 > 0, FromStep DEF Value
  <2> QED BY <2>1, <2>2, UnitFacts DEF Found
<1>5. Found * Placed = 0
  BY <1>1, <1>4, ExactTypes
<1>6. Left \in Nat
  BY <1>1, ExactTypes
<1> QED BY <1>3, <1>4, <1>5, <1>6 DEF ExactInv

\* Finding the divisor too large loses nothing.
LEMMA TooLowExact ==
  ASSUME DivisionInv, ExactInv, TooLow
  PROVE  ExactInv'
<1>1. /\ pc = "inner" /\ var1units' = InUse /\ pc' = "outer"
      /\ task' = task /\ var1' = var1 /\ var2ulen' = var2ulen
      /\ thisunit' = thisunit /\ acc' = acc
  BY DEF TooLow
<1>2. TypeInv
  BY DEF DivisionInv
<1>3. Whole' = Whole /\ Placed' = Placed /\ Found' = Found
  BY <1>1 DEF Whole, Placed, Shift, var2, Found
<1>4. Left' = Left
  <2> DEFINE left == SubSeq(var1, 1, var1units)
             used == SubSeq(var1, 1, InUse)
  <2>1. /\ left \in Arrays
        /\ \A i \in Nat : i # 0 => UnitAt(left, i) = IF i <= InUse THEN var1[i] ELSE 0
    BY <1>2, LeftFacts
  <2>2. InUse \in Nat /\ InUse >= 1 /\ InUse <= Len(var1) /\ var1 \in Seq(Unit)
    BY <1>2, InUseFacts, BufferType
  <2>3. /\ used \in Seq(Unit) /\ Len(used) = InUse
        /\ \A i \in 1..InUse : used[i] = var1[i]
    BY <2>2
  <2>4. used \in Arrays
    BY <2>3, UnitsAreNatural DEF Units
  <2> HIDE DEF left, used
  <2>5. ASSUME NEW j \in Nat, j >= 1
        PROVE  UnitAt(used, j) = UnitAt(left, j + 0)
    <3>1. j # 0 /\ j + 0 = j
      BY <2>5
    <3>2. UnitAt(used, j) = IF j <= InUse THEN var1[j] ELSE 0
      BY <2>2, <2>3, <3>1 DEF UnitAt
    <3> QED BY <2>1, <3>1, <3>2
  <2>6. ValueFrom(used, 1) = ValueFrom(left, 1 + 0)
    BY <2>1, <2>4, <2>5, 1 \in Nat, 1 # 0, 0 \in Nat, SameUnits
  <2>7. Left' = Value(used)
    BY <1>1 DEF Left, used
  <2> QED BY <2>6, <2>7 DEF Left, Value, left
<1> QED BY <1>1, <1>3, <1>4 DEF ExactInv

\* Finding the divisor all that is left loses nothing.
LEMMA IdenticalExact ==
  ASSUME DivisionInv, ExactInv, Identical
  PROVE  ExactInv'
<1>1. /\ pc = "inner" /\ IsEqual /\ var1units' = 1 /\ pc' = "outer"
      /\ task' = task /\ var1' = [ var1 EXCEPT ![1] = 0 ] /\ var2ulen' = var2ulen
      /\ thisunit' = thisunit + 1 /\ acc' = acc
  BY DEF Identical
<1>2. TypeInv /\ Shift \in Nat /\ Shift >= 0
  BY BufferType DEF DivisionInv, PlaceInv
<1>3. Whole' = Whole /\ Placed' = Placed
  BY <1>1 DEF Whole, Placed, Shift, var2
<1>4. Left' = 0
  <2> DEFINE left == SubSeq(var1', 1, 1)
  <2>1. var1 \in Seq(Unit) /\ Len(var1) \in Nat /\ Len(var1) >= 1
    BY <1>2, BufferType
  <2>2. /\ var1' \in Seq(Unit) /\ Len(var1') = Len(var1) /\ var1'[1] = 0
    BY <1>1, <2>1, UnitFacts
  <2>3. left \in Seq(Unit) /\ Len(left) = 1 /\ left[1] = 0
    BY <2>1, <2>2
  <2>4. left \in Units
    BY <2>3 DEF Units
  <2>5. Left' = Value(left)
    BY <1>1 DEF Left
  <2> HIDE DEF left
  <2> QED BY <2>3, <2>4, <2>5, 1 \in Nat, 1 >= 1, ZeroUnit DEF Value
<1>5. Left = Placed
  <2> DEFINE left == SubSeq(var1, 1, var1units)
             s == Shifted(var2, Shift)
             k == Len(var2)
  <2>1. /\ left \in Arrays
        /\ \A i \in Nat : i # 0 => UnitAt(left, i) = IF i <= InUse THEN var1[i] ELSE 0
    BY <1>2, LeftFacts
  <2>2. /\ var2 \in Units /\ k \in Nat /\ var2ulen = Shift + k
        /\ InUse \in Nat /\ InUse >= 1
    BY <1>2, DivisorFacts, InUseFacts, BufferType DEF Shift, TypeInv
  <2>3. InUse = var2ulen /\ \A i \in 1..InUse : var1[i] = Divisor(i)
    BY <1>1 DEF IsEqual, Differ
  <2>4. s \in Arrays /\ \A i \in Nat : UnitAt(s, i) = UnitAt(var2, i - Shift)
    BY <1>2, <2>2, ShiftedFacts, UnitsAreNatural
  <2> HIDE DEF left, s
  <2>5. ASSUME NEW j \in Nat, j >= 1
        PROVE  UnitAt(left, j) = UnitAt(s, j + 0)
    <3>1. j # 0 /\ j + 0 = j
      BY <2>5
    <3>2. CASE j <= InUse
      <4>1. UnitAt(left, j) = Divisor(j)
        BY <2>1, <2>2, <2>3, <2>5, <3>1, <3>2
      <4>2. Divisor(j) = UnitAt(var2, j - Shift)
        BY DEF Divisor, Shift
      <4> QED BY <2>4, <3>1, <4>1, <4>2
    <3>3. CASE ~(j <= InUse)
      <4>1. UnitAt(left, j) = 0
        BY <2>1, <3>1, <3>3
      <4>2. j - Shift \notin 1..Len(var2)
        BY <1>2, <2>2, <2>3, <3>3
      <4>3. UnitAt(var2, j - Shift) = 0
        BY <4>2 DEF UnitAt
      <4> QED BY <2>4, <3>1, <4>1, <4>3
    <3> QED BY <3>2, <3>3
  <2>6. ValueFrom(left, 1) = ValueFrom(s, 1 + 0)
    BY <2>1, <2>4, <2>5, 1 \in Nat, 1 # 0, 0 \in Nat, SameUnits
  <2> QED BY <2>6 DEF Left, Placed, Value, left, s
<1>6. Found' = Found + 1
  BY <1>1, ExactTypes, UnitFacts DEF Found
<1>7. Found \in Nat /\ Placed \in Nat /\ Whole = Found * Placed + Left
  BY ExactTypes DEF ExactInv
<1>8. (Found + 1) * Placed = Found * Placed + Placed
  BY <1>7
<1>9. (Found + 1) * Placed \in Nat
  BY <1>7
<1>10. Whole' = Found' * Placed' + Left'
  BY <1>3, <1>4, <1>5, <1>6, <1>7, <1>8, <1>9
<1> QED BY <1>1, <1>10 DEF ExactInv

\* What a subtraction takes off, it adds to the quotient.
LEMMA SubtractExact ==
  ASSUME DivisionInv, ExactInv, Subtract
  PROVE  ExactInv'
<1>1. /\ pc = "inner" /\ ~IsLower /\ ~IsEqual /\ var1units' = InUse /\ pc' = "inner"
      /\ task' = task /\ var1' = Lowered /\ var2ulen' = var2ulen
      /\ thisunit' = thisunit + Multiplier /\ acc' = acc
  BY DEF Subtract, CanSubtract, Lowered
<1>2. TypeInv /\ Shift \in Nat /\ Shift >= 0 /\ var2 \in Units
  BY BufferType, DivisorFacts DEF DivisionInv, PlaceInv
<1>3. thisunit * Value(var2) + Window < UnitBase * Value(var2)
  BY <1>1 DEF DivisionInv, ValueInv
<1>4. InUse >= 2 /\ InUse > Shift
  BY <1>1, <1>2, TwoInUse, OtherIsMore DEF DivisionInv, ValueInv
<1>5. /\ Window \in Nat /\ Multiplier \in Nat
      /\ Multiplier * Value(var2) <= Window
  BY <1>1, <1>2, <1>3, <1>4, MultiplierFits
<1>6. Value(var2) \in Nat
  BY <1>2, DivisorFacts
<1> DEFINE left == SubSeq(var1, 1, var1units)
           rest == SubSeq(Lowered, 1, InUse)
           high == ValueFrom(rest, Shift + 1)
<1>7. high = Window - Multiplier * Value(var2)
  BY <1>1, <1>2, <1>3, <1>4, LoweredFacts
<1>8. /\ InUse \in Nat /\ InUse <= Len(var1) /\ Len(var1) \in Nat
      /\ var1 \in Seq(Unit)
  BY <1>2, InUseFacts, BufferType
<1>9. /\ rest \in Units /\ Len(rest) = InUse
      /\ \A i \in 1..InUse : rest[i] = Lowered[i]
  <2>1. Lowered \in Seq(Unit) /\ Len(Lowered) = Len(var1)
    BY <1>1, <1>2, <1>3, <1>4, LoweredFacts DEF Units
  <2> QED BY <1>8, <2>1 DEF Units
<1>10. /\ left \in Units
       /\ \A i \in Nat : i # 0 => UnitAt(left, i) = IF i <= InUse THEN var1[i] ELSE 0
  BY <1>2, LeftFacts
<1>11. ASSUME NEW j \in 1..Shift PROVE UnitAt(rest, j) = UnitAt(left, j)
  <2>1. j \in Nat /\ j # 0 /\ j <= InUse /\ j \in 1..InUse /\ j \in 1..Len(var1)
        /\ j < Shift + 1
    BY <1>2, <1>4, <1>8
  <2>2. Lowered[j] = var1[j]
    <3>1. j \notin (Shift + 1)..(Shift + Len(Difference.units))
      BY <1>2, <2>1
    <3> QED BY <2>1, <3>1 DEF Lowered
  <2> HIDE DEF left, rest
  <2> QED BY <1>9, <1>10, <2>1, <2>2 DEF UnitAt
<1>12. PICK w : Weights(w, Shift)
  BY <1>2, WeightsExist
<1>13. Value(rest) - w[Shift] * high = Value(left) - w[Shift] * Window
  <2>1. Shift \in 0..Shift
    BY <1>2
  <2>2. Window = ValueFrom(left, Shift + 1)
    BY DEF Window
  <2> HIDE DEF left, rest
  <2> QED BY <1>2, <1>9, <1>10, <1>11, <1>12, <2>1, <2>2, LowPart
<1>14. Placed = w[Shift] * Value(var2) /\ w[Shift] \in Nat
  <2>1. Shift \in 0..Shift
    BY <1>2
  <2> QED BY <1>2, <1>12, <2>1, ShiftedValue, WeightFacts DEF Placed
<1>15. Value(rest) \in Nat /\ Value(left) \in Nat
  BY <1>9, <1>10, UnitsAreNatural, 1 \in Nat, 1 # 0, FromStep DEF Value
<1>16. Left = Value(left) /\ Left' = Value(rest)
  BY <1>1 DEF Left
<1> HIDE DEF left, rest, high
<1>17. Left' = Left - Multiplier * Placed
  <2> DEFINE size == w[Shift]
             by == Value(var2)
  <2>1. size \in Nat /\ by \in Nat
    BY <1>6, <1>14
  <2> HIDE DEF size, by
  <2>2. size * (Window - Multiplier * by) = size * Window - Multiplier * (size * by)
    <3>1. size * (Window - Multiplier * by) = size * Window - size * (Multiplier * by)
      BY <1>5, <2>1
    <3>2. size * (Multiplier * by) = Multiplier * (size * by)
      BY <1>5, <2>1
    <3> QED BY <3>1, <3>2
  <2>3. size * Window \in Nat /\ Multiplier * (size * by) \in Nat
    <3>1. size * by \in Nat
      BY <2>1
    <3> QED BY <1>5, <2>1, <3>1
  <2>4. Value(rest) - size * (Window - Multiplier * by) = Value(left) - size * Window
    BY <1>7, <1>13 DEF size, by
  <2>5. Placed = size * by
    BY <1>14 DEF size, by
  <2> QED BY <1>15, <1>16, <2>2, <2>3, <2>4, <2>5
<1>18. Whole' = Whole /\ Placed' = Placed
  BY <1>1 DEF Whole, Placed, Shift, var2
<1>19. Found' = Found + Multiplier
  BY <1>1, <1>5, ExactTypes, UnitFacts DEF Found
<1>20. Found \in Nat /\ Placed \in Nat /\ Left \in Nat /\ Whole = Found * Placed + Left
  BY ExactTypes DEF ExactInv
<1>21. (Found + Multiplier) * Placed = Found * Placed + Multiplier * Placed
  BY <1>5, <1>20
<1>22. Found * Placed \in Nat /\ Multiplier * Placed \in Nat
  BY <1>5, <1>20
<1>23. Whole' = Found' * Placed' + Left'
  BY <1>17, <1>18, <1>19, <1>20, <1>21, <1>22
<1> QED BY <1>1, <1>23 DEF ExactInv

\* A finished Unit of the quotient is worth what was found at its place.
LEMMA NextUnitExact ==
  ASSUME DivisionInv, ExactInv, NextUnit
  PROVE  ExactInv'
<1>1. /\ pc = "outer" /\ task' = task /\ var1' = var1 /\ var1units' = var1units
      /\ acc' = (IF Kept THEN <<thisunit>> \o acc ELSE acc)
      /\ Finished => pc' = "done" /\ var2ulen' = var2ulen
      /\ ~Finished => pc' = "inner" /\ var2ulen' = var2ulen - 1 /\ thisunit' = 0
  BY DEF NextUnit
<1>2. TypeInv /\ Shift \in Nat /\ Shift >= 0 /\ var2 \in Units
  BY BufferType, DivisorFacts DEF DivisionInv, PlaceInv
<1>3. /\ Found \in Nat /\ Placed \in Nat /\ Left \in Nat /\ Whole = Found * Placed + Left
      /\ Value(acc) \in Nat /\ thisunit \in Nat
  BY ExactTypes DEF ExactInv
<1>4. Found = thisunit + UnitBase * Value(acc)
  BY <1>1 DEF Found
<1>5. Whole' = Whole /\ Left' = Left
  BY <1>1 DEF Whole, Left
<1>6. Value(acc') = Found
  <2>1. acc \in Units /\ acc' \in Units
    BY <1>2, CountStep DEF TypeInv
  <2>2. CASE Kept
    <3>1. acc' = <<thisunit>> \o acc /\ acc \in Seq(Unit) /\ Len(acc) \in Nat
      BY <1>1, <2>1, <2>2 DEF Units
    <3> DEFINE next == <<thisunit>> \o acc
    <3>2. /\ Len(next) = Len(acc) + 1 /\ next[1] = thisunit
          /\ \A j \in 1..Len(acc) : next[j + 1] = acc[j]
      BY <1>3, <3>1
    <3>3. next \in Arrays /\ acc \in Arrays
      BY <2>1, <3>1, UnitsAreNatural
    <3> HIDE DEF next
    <3>4. UnitAt(next, 1) = thisunit
      BY <3>1, <3>2 DEF UnitAt
    <3>5. ASSUME NEW j \in Nat, j >= 1 PROVE UnitAt(acc, j) = UnitAt(next, j + 1)
      <4>1. j \in 1..Len(acc) <=> j + 1 \in 1..Len(next)
        BY <3>1, <3>2, <3>5
      <4> QED BY <3>2, <4>1 DEF UnitAt
    <3>6. ValueFrom(acc, 1) = ValueFrom(next, 1 + 1)
      BY <3>3, <3>5, 1 \in Nat, 1 # 0, SameUnits
    <3>7. ValueFrom(next, 1) = UnitAt(next, 1) + UnitBase * ValueFrom(next, 1 + 1)
      BY <3>3, 1 \in Nat, 1 # 0, FromStep
    <3> QED BY <1>4, <3>1, <3>4, <3>6, <3>7 DEF Value, next
  <2>3. CASE ~Kept
    <3>1. acc' = << >> /\ acc = << >> /\ thisunit = 0
      BY <1>1, <2>3 DEF Kept
    <3>2. Value(acc) = 0
      <4>1. acc \in Arrays /\ Len(acc) = 0
        BY <3>1 DEF Arrays
      <4> QED BY <4>1, 1 \in Nat, 1 # 0, 1 > 0, FromStep DEF Value
    <3> QED BY <1>4, <3>1, <3>2, UnitFacts
  <2> QED BY <2>2, <2>3
<1>7. CASE Finished
  <2>1. pc' = "done" /\ Placed' = Placed
    BY <1>1, <1>7 DEF Placed, Shift, var2
  <2>2. Found' = Found
    BY <1>6, <2>1 DEF Found
  <2>3. Left < Placed
    <3>1. PICK w : Weights(w, Shift)
      BY <1>2, WeightsExist
    <3>2. Shift \in 0..Shift
      BY <1>2
    <3> DEFINE size == w[Shift]
               by == Value(var2)
    <3>3. Placed = size * by
      BY <1>2, <3>1, <3>2, ShiftedValue DEF Placed
    <3>4. size \in Nat /\ size > 0
      BY <1>2, <3>1, <3>2, WeightFacts
    <3>5. PICK low \in 0..(size - 1) : Left = low + size * Window
      BY <1>2, <3>1, LeftSplits
    <3>6. Window < by /\ Window \in Nat /\ by \in Nat
      BY <1>1, <1>2, WindowFacts, DivisorFacts DEF DivisionInv, ValueInv
    <3> HIDE DEF size, by
    <3>7. size * (Window + 1) <= size * by
      BY <3>4, <3>6
    <3>8. size * (Window + 1) = size * Window + size /\ size * Window \in Nat
      BY <3>4, <3>6
    <3>9. size * by \in Nat
      BY <3>4, <3>6
    <3> QED BY <3>3, <3>4, <3>5, <3>7, <3>8, <3>9
  <2> QED BY <1>3, <1>5, <2>1, <2>2, <2>3 DEF ExactInv
<1>8. CASE ~Finished
  <2>1. pc' = "inner" /\ thisunit' = 0
    BY <1>1, <1>8
  <2>2. Shift >= 1 /\ Shift' = Shift - 1 /\ var2' = var2
    BY <1>1, <1>8, PlaceStep DEF var2
  <2>3. PICK w : Weights(w, Shift)
    BY <1>2, WeightsExist
  <2>4. Shift - 1 \in 0..Shift /\ Shift \in 0..Shift /\ Shift \in 1..Shift
    BY <1>2, <2>2
  <2> DEFINE size == w[Shift - 1]
             by == Value(var2)
  <2>5. Placed = w[Shift] * by
    BY <1>2, <2>3, <2>4, ShiftedValue DEF Placed
  <2>6. Placed' = size * by
    <3>1. Placed' = Value(Shifted(var2, Shift - 1))
      BY <2>2 DEF Placed
    <3> QED BY <1>2, <2>3, <2>4, <3>1, ShiftedValue
  <2>7. w[Shift] = UnitBase * size /\ size \in Nat
    BY <1>2, <2>3, <2>4, WeightFacts
  <2>8. by \in Nat
    BY <1>2, DivisorFacts
  <2> HIDE DEF size, by
  <2>9. Found' = UnitBase * Found
    <3>1. UnitBase * Found \in Nat
      BY <1>3, UnitFacts
    <3> QED BY <1>6, <2>1, <3>1 DEF Found
  <2>10. Found * ((UnitBase * size) * by) = (UnitBase * Found) * (size * by)
    BY <1>3, <2>7, <2>8, UnitFacts
  <2>11. Whole' = Found' * Placed' + Left'
    BY <1>3, <1>5, <2>5, <2>6, <2>7, <2>9, <2>10
  <2> QED BY <2>1, <2>11 DEF ExactInv
<1> QED BY <1>7, <1>8

\* The division is exact: at every step the dividend is the quotient found so
\* far times the divisor in its place, and what is left in var1; and what is
\* left at the end is less than that divisor.
THEOREM DivisionIsExact == Spec => []ExactInv
<1>1. Init => DivisionInv /\ ExactInv
  BY InitInv, InitExact
<1>2. DivisionInv /\ ExactInv /\ [Next]_vars => ExactInv'
  <2> SUFFICES ASSUME DivisionInv, ExactInv, [Next]_vars PROVE ExactInv'
    OBVIOUS
  <2>1. CASE TooLow
    BY <2>1, TooLowExact
  <2>2. CASE Identical
    BY <2>2, IdenticalExact
  <2>3. CASE Subtract
    BY <2>3, SubtractExact
  <2>4. CASE NextUnit
    BY <2>4, NextUnitExact
  <2>5. CASE UNCHANGED vars
    BY <2>5 DEF vars, ExactInv, Whole, Placed, Left, Found, Shift, var2
  <2> QED BY <2>1, <2>2, <2>3, <2>4, <2>5 DEF Next
<1> QED BY <1>1, <1>2, DivisionIsInvariant, PTL DEF Spec
=============================================================================
