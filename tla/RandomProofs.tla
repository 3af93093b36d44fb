----------------------------- MODULE RandomProofs ------------------------------
(***************************************************************************)
(* drs_call returns a number all of whose Units have been written, though  *)
(* it starts from memory that was not cleared and rejects some of the bits *)
(* it draws.  The invariant says which Units are written while it draws:   *)
(* those above the next one, the partial top Unit among them as soon as    *)
(* no digits of it are left.                                               *)
(*                                                                         *)
(* lfib4_10bits hands out every bit of every word once, in order.  A       *)
(* number made of two parts, the one below a power of two and a multiple   *)
(* of it, has the bits of the one and then those of the other: this is     *)
(* used for a word that is put above what is left of the supply, and for   *)
(* the ten bits that are taken off it.                                     *)
(***************************************************************************)
EXTENDS RandomState, UnitProofs, SequenceTheorems

----------------------------------------------------------------------------
(* The bits of numbers.                                                    *)

\* The powers of two, one from the other.
LEMMA TwoToUnfold ==
  /\ TwoTo \in [0..(WordBits + 10) -> Nat]
  /\ TwoTo[0] = 1
  /\ \A i \in 1..(WordBits + 10) : TwoTo[i] = 2 * TwoTo[i - 1]
<1> DEFINE n == (WordBits + 10)
           S == Nat
           base == 1
           Val(s, i) == 2 * s
           Eq(f) == f = [ i \in 0..n |-> IF i = 0 THEN base ELSE Val(f[i - 1], i) ]
           step == [ x \in S \X (1..n) |-> Val(x[1], x[2]) ]
           g == TwoTo
<1>1. n \in Nat /\ base \in S
  BY RandomAssumption
<1>2. ASSUME NEW s \in S, NEW i \in 1..n PROVE Val(s, i) \in S
  OBVIOUS
<1>3. \A s \in S, i \in 1..n : step[<<s, i>>] = Val(s, i)
  OBVIOUS
<1>4. g = CHOOSE f : Eq(f)
  BY DEF TwoTo
<1> HIDE DEF step, n, base, Val, S, g
<1>5. PICK f : Solves(f, S, base, n, step)
  <2>1. Steps(step, S, n)
    BY <1>2, <1>3 DEF Steps
  <2> QED BY <1>1, <2>1, Recursion
<1>6. Eq(f)
  <2>1. ASSUME NEW i \in 0..n, i # 0 PROVE f[i] = Val(f[i - 1], i)
    <3>1. i \in 1..n /\ f[i - 1] \in S
      BY <1>1, <1>5, <2>1 DEF Solves
    <3> QED BY <1>3, <1>5, <3>1 DEF Solves
  <2> QED BY <1>5, <2>1 DEF Solves
<1>7. Eq(g)
  BY <1>4, <1>6
<1>8. g[0] = base /\ \A i \in 1..n : g[i] = Val(g[i - 1], i)
  BY <1>1, <1>7
<1>9. g = [ i \in 0..n |-> g[i] ]
  BY <1>7
<1> HIDE DEF Eq
<1>10. g \in [0..n -> S]
  <2>1. g[0] \in S
    BY <1>1, <1>8
  <2>2. ASSUME NEW i \in 1..n, g[i - 1] \in S PROVE g[i] \in S
    BY <1>2, <1>8, <2>2
  <2> QED BY <1>1, <1>9, <2>1, <2>2, Typed
<1> QED BY <1>8, <1>10 DEF g, n, base, Val, S

\* They multiply as their exponents add up.
LEMMA TwoToFacts ==
  /\ WordBits + 10 \in Nat
  /\ TwoTo[0] = 1
  /\ \A n \in 0..(WordBits + 10) : TwoTo[n] \in Nat /\ TwoTo[n] > 0
  /\ \A n \in 1..(WordBits + 10) : TwoTo[n] = 2 * TwoTo[n - 1]
  /\ \A a, b \in 0..(WordBits + 10) :
       a + b <= WordBits + 10 => TwoTo[a + b] = TwoTo[a] * TwoTo[b]
  /\ TwoTo[10] = 1024
<1> DEFINE n == WordBits + 10
<1>1. n \in Nat /\ 20 <= n
  BY RandomAssumption
<1>2. Powers(2, TwoTo, n)
  <2> DEFINE step == [ x \in Nat \X (1..n) |-> 2 * x[1] ]
  <2>1. ASSUME NEW i \in 1..n
        PROVE  TwoTo[i] = step[<<TwoTo[i - 1], i>>]
    <3>1. i - 1 \in 0..n
      BY <1>1
    <3>2. TwoTo[i - 1] \in Nat /\ TwoTo[i] = 2 * TwoTo[i - 1]
      BY <3>1, TwoToUnfold
    <3>3. step[<<TwoTo[i - 1], i>>] = 2 * TwoTo[i - 1]
      BY <3>2
    <3> QED BY <3>2, <3>3
  <2> HIDE DEF step
  <2> QED BY <2>1, TwoToUnfold DEF Powers, Solves, step
<1> HIDE DEF n
<1>3. /\ TwoTo[0] = 1
      /\ \A i \in 0..n : TwoTo[i] \in Nat /\ TwoTo[i] > 0
      /\ \A i \in 1..n : TwoTo[i] = 2 * TwoTo[i - 1]
  BY <1>1, <1>2, PowerFacts
<1>4. \A a, b \in 0..n : a + b <= n => TwoTo[a + b] = TwoTo[a] * TwoTo[b]
  BY <1>1, <1>2, AddedPowers
<1>5. TwoTo[10] = 1024
  <2>1. 1 \in 1..n /\ 2 \in 1..n /\ 3 \in 1..n /\ 4 \in 1..n /\ 5 \in 1..n
        /\ 6 \in 1..n /\ 7 \in 1..n /\ 8 \in 1..n /\ 9 \in 1..n /\ 10 \in 1..n
    BY <1>1
  <2>2. /\ TwoTo[1] = 2 * TwoTo[0] /\ TwoTo[2] = 2 * TwoTo[1] /\ TwoTo[3] = 2 * TwoTo[2]
        /\ TwoTo[4] = 2 * TwoTo[3] /\ TwoTo[5] = 2 * TwoTo[4]
    <3>1. \A i \in 1..n : TwoTo[i] = 2 * TwoTo[i - 1]
      BY <1>3
    <3>2. 1 - 1 = 0 /\ 2 - 1 = 1 /\ 3 - 1 = 2 /\ 4 - 1 = 3 /\ 5 - 1 = 4
      OBVIOUS
    <3> QED BY <2>1, <3>1, <3>2
  <2>3. /\ TwoTo[6] = 2 * TwoTo[5] /\ TwoTo[7] = 2 * TwoTo[6] /\ TwoTo[8] = 2 * TwoTo[7]
        /\ TwoTo[9] = 2 * TwoTo[8] /\ TwoTo[10] = 2 * TwoTo[9]
    <3>1. \A i \in 1..n : TwoTo[i] = 2 * TwoTo[i - 1]
      BY <1>3
    <3>2. 6 - 1 = 5 /\ 7 - 1 = 6 /\ 8 - 1 = 7 /\ 9 - 1 = 8 /\ 10 - 1 = 9
      OBVIOUS
    <3> QED BY <2>1, <3>1, <3>2
  <2>4. TwoTo[5] = 32
    BY <1>3, <2>2
  <2> QED BY <2>3, <2>4
<1> QED BY <1>1, <1>3, <1>4, <1>5 DEF n

\* A function on 1..n is a sequence.
LEMMA SequenceIs ==
  ASSUME NEW S, NEW n \in Nat, NEW f \in [1..n -> S]
  PROVE  f \in Seq(S) /\ Len(f) = n
  OBVIOUS

BitValues == {0, 1}

\* What makes a sequence of bits h the sequence f followed by g.
Joins(h, f, g, m, n) ==
  /\ f \in [1..m -> BitValues] /\ g \in [1..n -> BitValues]
  /\ h \in [1..(m + n) -> BitValues]
  /\ \A i \in 1..m : h[i] = f[i]
  /\ \A i \in 1..n : h[m + i] = g[i]

\* Two sequences are joined by a function that has the one and then the other.
LEMMA Concatenated ==
  ASSUME NEW m \in Nat, NEW n \in Nat, NEW f, NEW g, NEW h, Joins(h, f, g, m, n)
  PROVE  h = f \o g
<1> DEFINE S == BitValues
<1>0. /\ f \in [1..m -> S] /\ g \in [1..n -> S] /\ h \in [1..(m + n) -> S]
      /\ \A i \in 1..m : h[i] = f[i]
      /\ \A i \in 1..n : h[m + i] = g[i]
  BY DEF Joins
<1> HIDE DEF S
<1>1. /\ f \in Seq(S) /\ Len(f) = m /\ g \in Seq(S) /\ Len(g) = n
      /\ m + n \in Nat
  BY <1>0, SequenceIs
<1>2. h \in Seq(S) /\ Len(h) = m + n
  <2> DEFINE l == m + n
  <2>1. l \in Nat /\ h \in [1..l -> S]
    BY <1>0
  <2> HIDE DEF l
  <2>2. h \in Seq(S) /\ Len(h) = l
    BY <2>1, SequenceIs
  <2> QED BY <2>2 DEF l
<1>3. /\ f \o g \in Seq(S) /\ Len(f \o g) = m + n
      /\ \A i \in 1..(m + n) : (f \o g)[i] = IF i <= m THEN f[i] ELSE g[i - m]
  BY <1>1, ConcatProperties
<1> DEFINE fg == f \o g
<1> HIDE DEF fg
<1>4. ASSUME NEW i \in 1..(m + n)
      PROVE  h[i] = IF i <= m THEN f[i] ELSE g[i - m]
  <2>1. CASE i <= m
    <3>1. i \in 1..m
      BY <2>1
    <3> QED BY <1>0, <2>1, <3>1
  <2>2. CASE i > m
    <3> DEFINE j == i - m
    <3>1. j \in 1..n /\ m + j = i
      BY <2>2
    <3> HIDE DEF j
    <3>2. h[m + j] = g[j]
      BY <1>0, <3>1
    <3> QED BY <2>2, <3>1, <3>2 DEF j
  <2> QED BY <2>1, <2>2
<1>5. \A i \in 1..Len(h) : h[i] = fg[i]
  BY <1>2, <1>3, <1>4 DEF fg
<1>6. h = fg
  BY <1>2, <1>3, <1>5, SeqEqual DEF fg
<1> QED BY <1>6 DEF fg

\* What Bits returns.
LEMMA BitsType ==
  ASSUME NEW n \in Nat, NEW count \in 0..(WordBits + 10)
  PROVE  Bits(n, count) \in [1..count -> BitValues]
<1>1. ASSUME NEW k \in 0..(WordBits + 10) PROVE Bit(n, k) \in BitValues
  <2> DEFINE m == TwoTo[k]
             d == n \div m
  <2>1. m \in Nat /\ m > 0
    BY TwoToFacts
  <2> HIDE DEF m
  <2>2. d \in Nat
    BY <2>1
  <2>3. Bit(n, k) = d % 2
    BY DEF Bit, m
  <2> HIDE DEF d
  <2> QED BY <2>2, <2>3 DEF BitValues
<1>2. ASSUME NEW i \in 1..count PROVE Bit(n, i - 1) \in BitValues
  <2>1. i - 1 \in 0..(WordBits + 10)
    BY RandomAssumption
  <2> QED BY <1>1, <2>1
<1> QED BY <1>2 DEF Bits

\* Below its lowest bit a shifted number has none, and above it is the number.
LEMMA BitsJoined ==
  ASSUME NEW s \in 0..WordBits, NEW a \in 0..(TwoTo[s] - 1), NEW b \in Nat,
         NEW t \in Nat, s + t <= WordBits + 10
  PROVE  Bits(a + b * TwoTo[s], s + t) = Bits(a, s) \o Bits(b, t)
<1> DEFINE x == a + b * TwoTo[s]
<1>1. WordBits \in Nat
  BY RandomAssumption
<1>2. ASSUME NEW k \in 0..(s - 1)
      PROVE  Bit(x, k) = Bit(a, k)
  <2> DEFINE m == TwoTo[k]
             h == TwoTo[s - k - 1]
             e == b * h
  <2>1. m \in Nat /\ m > 0 /\ h \in Nat /\ e \in Nat
    <3>1. k \in 0..(WordBits + 10) /\ s - k - 1 \in 0..(WordBits + 10)
      BY <1>1
    <3>2. m \in Nat /\ m > 0 /\ h \in Nat
      BY <3>1, TwoToFacts
    <3> HIDE DEF h
    <3> QED BY <3>2
  <2>2. TwoTo[s] = m * (2 * h)
    <3>1. /\ k \in 0..(WordBits + 10) /\ s - k \in 1..(WordBits + 10)
          /\ k + (s - k) = s /\ s <= WordBits + 10 /\ (s - k) - 1 = s - k - 1
      BY <1>1
    <3>2. TwoTo[s - k] = 2 * h
      BY <3>1, TwoToFacts
    <3>3. TwoTo[k + (s - k)] = m * TwoTo[s - k]
      <4> DEFINE j == s - k
      <4>1. j \in 0..(WordBits + 10) /\ k + j <= WordBits + 10
        BY <1>1
      <4> HIDE DEF j, m
      <4>2. TwoTo[k + j] = TwoTo[k] * TwoTo[j]
        BY <3>1, <4>1, TwoToFacts
      <4> QED BY <4>2 DEF j, m
    <3> QED BY <3>1, <3>2, <3>3
  <2> HIDE DEF m, h
  <2>3. x = a + m * (2 * e)
    <3>1. b * (m * (2 * h)) = m * (2 * (b * h))
      BY <2>1
    <3> QED BY <2>2, <3>1
  <2> DEFINE y == a \div m
             z == x \div m
  <2>4. a \in Nat /\ 2 * e \in Nat
    <3>1. a \in Nat
      OBVIOUS
    <3> HIDE DEF e
    <3> QED BY <2>1, <3>1
  <2>5. y \in Nat
    BY <2>1, <2>4
  <2>6. z = y + 2 * e
    <3> DEFINE c == 2 * e
    <3>1. c \in Nat /\ x = a + m * c
      BY <2>3, <2>4
    <3> HIDE DEF c, x, e
    <3>2. (a + m * c) \div m = (a \div m) + c
      BY <2>1, <2>4, <3>1, QuotientOfSum
    <3> QED BY <3>1, <3>2 DEF c
  <2> HIDE DEF y, z, e, x
  <2>7. z % 2 = y % 2
    BY <2>1, <2>5, <2>6
  <2> QED BY <2>7 DEF Bit, y, z, m
<1>3. ASSUME NEW k \in s..(s + t - 1)
      PROVE  Bit(x, k) = Bit(b, k - s)
  <2> DEFINE j == k - s
             p == TwoTo[s]
             r == TwoTo[j]
  <2>1. /\ s \in 0..(WordBits + 10) /\ j \in 0..(WordBits + 10) /\ s + j = k
        /\ s + j <= WordBits + 10
    BY <1>1
  <2> HIDE DEF j
  <2>2. p \in Nat /\ p > 0 /\ r \in Nat /\ r > 0 /\ TwoTo[s + j] = p * r
    BY <2>1, TwoToFacts
  <2>3. TwoTo[k] = p * r
    BY <2>1, <2>2
  <2>4. a \in 0..(p - 1)
    OBVIOUS
  <2> HIDE DEF p, r
  <2>5. (a + b * p) \div (p * r) = b \div r
    BY <2>2, <2>4, QuotientOfParts
  <2> QED BY <2>3, <2>5 DEF Bit, p, r, j
<1> HIDE DEF x
<1> DEFINE u == Bits(x, s + t)
           v == Bits(a, s)
           w == Bits(b, t)
<1>4. /\ s \in Nat /\ s + t \in Nat
      /\ u \in [1..(s + t) -> BitValues] /\ v \in [1..s -> BitValues] /\ w \in [1..t -> BitValues]
  <2>1. x \in Nat /\ a \in Nat
    <3>1. s \in 0..(WordBits + 10)
      BY <1>1
    <3>2. TwoTo[s] \in Nat
      BY <3>1, TwoToFacts
    <3>3. a \in Nat
      BY <3>2
    <3>4. b * TwoTo[s] \in Nat
      BY <3>2
    <3> QED BY <3>3, <3>4 DEF x
  <2>2. s + t \in 0..(WordBits + 10) /\ s \in 0..(WordBits + 10) /\ t \in 0..(WordBits + 10)
    BY <1>1
  <2> DEFINE l == s + t
  <2>3. l \in 0..(WordBits + 10) /\ l \in Nat
    BY <2>2
  <2> HIDE DEF l
  <2>4. Bits(x, l) \in [1..l -> BitValues]
    BY <2>1, <2>3, BitsType
  <2> QED BY <2>1, <2>2, <2>3, <2>4, BitsType DEF l
<1>5. ASSUME NEW i \in 1..s PROVE u[i] = v[i]
  <2> DEFINE k == i - 1
  <2>1. k \in 0..(s - 1) /\ i \in 1..(s + t)
    BY <1>4
  <2>2. u[i] = Bit(x, k) /\ v[i] = Bit(a, k)
    BY <2>1 DEF Bits
  <2> HIDE DEF k, u, v
  <2> QED BY <1>2, <2>1, <2>2
<1>6. ASSUME NEW i \in 1..t PROVE u[s + i] = w[i]
  <2> DEFINE k == (s + i) - 1
  <2>1. k \in s..(s + t - 1) /\ s + i \in 1..(s + t) /\ k - s = i - 1
    BY <1>4
  <2>2. u[s + i] = Bit(x, k) /\ w[i] = Bit(b, i - 1)
    BY <2>1 DEF Bits
  <2> HIDE DEF k, u, w
  <2>3. Bit(x, k) = Bit(b, k - s)
    BY <1>3, <2>1
  <2> QED BY <2>1, <2>2, <2>3
<1> HIDE DEF u, v, w
<1>7. Joins(u, v, w, s, t)
  BY <1>4, <1>5, <1>6 DEF Joins
<1>8. u = v \o w
  BY <1>4, <1>7, Concatenated
<1> QED BY <1>8 DEF u, v, w, x

\* The bits of one number more.
LEMMA JoinedAppend ==
  ASSUME NEW ns \in Seq(Nat), NEW n \in Nat, NEW count \in 1..(WordBits + 10)
  PROVE  /\ Joined(ns, count) \in Seq(BitValues)
         /\ Joined(Append(ns, n), count) = Joined(ns, count) \o Bits(n, count)
<1> DEFINE l == Len(ns)
           ms == Append(ns, n)
           At(k, s) == Bit(s[k \div count + 1], k % count)
<1>1. /\ count \in Nat /\ count > 0 /\ count \in 0..(WordBits + 10) /\ l \in Nat
      /\ ms \in Seq(Nat) /\ Len(ms) = l + 1
      /\ \A i \in 1..l : ms[i] = ns[i] /\ ns[i] \in Nat
      /\ ms[l + 1] = n
  BY RandomAssumption, AppendProperties
<1> HIDE DEF ms, l
<1>2. count * l \in Nat /\ count * (l + 1) = count * l + count
  BY <1>1
<1>3. ASSUME NEW m \in Nat, NEW j \in 0..(count - 1)
      PROVE  Bit(m, j) \in BitValues /\ Bits(m, count)[j + 1] = Bit(m, j)
  <2>1. j + 1 \in 1..count /\ (j + 1) - 1 = j
    BY <1>1
  <2>2. Bits(m, count)[j + 1] = Bit(m, j)
    BY <2>1 DEF Bits
  <2>3. Bits(m, count)[j + 1] \in BitValues
    BY <1>1, <2>1, BitsType
  <2> QED BY <2>2, <2>3
<1>4. ASSUME NEW k \in 0..(count * l - 1)
      PROVE  /\ At(k, ms) = At(k, ns) /\ At(k, ns) \in BitValues
  <2> DEFINE d == k \div count
             e == k % count
  <2>0. k \in Nat
    BY <1>2
  <2>1. d \in Nat /\ e \in 0..(count - 1) /\ k = count * d + e
    BY SMTT(30), <1>1, <2>0
  <2> HIDE DEF d, e
  <2>2. d < l
    <3>1. CASE d >= l
      <4>1. count * d >= count * l
        <5> DEFINE r == d - l
        <5>1. r \in Nat /\ d = l + r
          BY <1>1, <2>1, <3>1
        <5> HIDE DEF r
        <5>2. count * (l + r) = count * l + count * r /\ count * r \in Nat
          BY <1>1, <5>1
        <5> QED BY <1>2, <5>1, <5>2
      <4>2. count * d \in Nat
        BY <1>1, <2>1
      <4> DEFINE y == count * l
                 z == count * d
      <4>3. z >= y /\ z \in Nat /\ y \in Nat /\ k = z + e /\ e \in Nat /\ k \in 0..(y - 1)
        BY <1>1, <1>2, <2>1, <4>1, <4>2
      <4> HIDE DEF y, z
      <4> QED BY <4>3
    <3> QED BY <1>1, <2>1, <3>1
  <2> DEFINE i == d + 1
  <2>3. i \in 1..l
    BY <1>1, <2>1, <2>2
  <2> HIDE DEF i
  <2>4. ms[i] = ns[i] /\ ns[i] \in Nat
    BY <1>1, <2>3
  <2>5. Bit(ns[i], e) \in BitValues
    BY <1>3, <2>1, <2>4
  <2> QED BY <2>4, <2>5 DEF d, e, i
<1>5. ASSUME NEW j \in 0..(count - 1)
      PROVE  At(count * l + j, ms) = Bit(n, j)
  <2> DEFINE k == count * l + j
  <2>1. k = count * l + j
    OBVIOUS
  <2> HIDE DEF k
  <2>2. k \div count = l /\ k % count = j
    BY ZenonT(40), <1>1, <2>1, QuotientIs
  <2> QED BY <1>1, <2>1, <2>2
<1> DEFINE f == Joined(ns, count)
           g == Bits(n, count)
           h == Joined(ms, count)
           c == count * l
<1>6. /\ f = [ i \in 1..c |-> At(i - 1, ns) ]
      /\ h = [ i \in 1..(count * (l + 1)) |-> At(i - 1, ms) ]
  BY <1>1 DEF Joined, l
<1>7. h = [ i \in 1..(c + count) |-> At(i - 1, ms) ] /\ c \in Nat
  BY <1>2, <1>6
<1>8. ASSUME NEW i \in 1..c PROVE h[i] = f[i] /\ f[i] \in BitValues
  <2> DEFINE k == i - 1
  <2>1. k \in 0..(count * l - 1) /\ i \in 1..(c + count)
    BY <1>1, <1>7
  <2>2. f[i] = At(k, ns) /\ h[i] = At(k, ms)
    BY <1>6, <1>7, <2>1
  <2> HIDE DEF k, At, f, h
  <2> QED BY <1>4, <2>1, <2>2
<1>9. ASSUME NEW i \in 1..count PROVE h[c + i] = g[i] /\ g[i] \in BitValues
  <2> DEFINE j == i - 1
  <2>1. /\ j \in 0..(count - 1) /\ j + 1 = i /\ c + i \in 1..(c + count)
        /\ (c + i) - 1 = count * l + j
    <3>1. c \in Nat /\ count * l = c
      BY <1>2
    <3> HIDE DEF c
    <3>2. (c + i) - 1 = c + j
      BY <1>1, <3>1
    <3> QED BY <1>1, <3>1, <3>2
  <2>2. h[c + i] = At((c + i) - 1, ms)
    BY <1>7, <2>1
  <2>3. h[c + i] = At(count * l + j, ms)
    BY <2>1, <2>2
  <2> HIDE DEF j, At, h
  <2>4. Bits(n, count)[j + 1] = Bit(n, j) /\ Bit(n, j) \in BitValues
    BY <1>3, <2>1
  <2>5. At(count * l + j, ms) = Bit(n, j)
    BY <1>5, <2>1
  <2> QED BY <2>1, <2>3, <2>4, <2>5
<1>10. /\ f \in [1..c -> BitValues] /\ g \in [1..count -> BitValues]
       /\ h \in [1..(c + count) -> BitValues]
  <2>1. f = [ i \in 1..c |-> f[i] ]
    BY <1>6
  <2>2. g = [ i \in 1..count |-> g[i] ]
    BY DEF Bits
  <2>3. h = [ i \in 1..(c + count) |-> h[i] ]
    BY <1>7
  <2>4. ASSUME NEW i \in 1..(c + count) PROVE h[i] \in BitValues
    <3>1. CASE i <= c
      <4>1. i \in 1..c
        BY <3>1, <1>7
      <4> QED BY <1>8, <4>1
    <3>2. CASE i > c
      <4> DEFINE j == i - c
      <4>1. j \in 1..count /\ c + j = i
        BY <3>2, <1>1, <1>7
      <4> HIDE DEF j, h, g, c
      <4>2. h[c + j] \in BitValues
        BY <1>9, <4>1
      <4> QED BY <4>1, <4>2
    <3> QED BY <1>7, <3>1, <3>2
  <2> HIDE DEF f, g, h, c
  <2> QED BY <1>8, <1>9, <2>1, <2>2, <2>3, <2>4
<1> HIDE DEF f, g, h, c
<1>11. h = f \o g
  <2>1. Joins(h, f, g, c, count)
    BY <1>8, <1>9, <1>10 DEF Joins
  <2> QED BY <1>1, <1>7, <2>1, Concatenated
<1>12. f \in Seq(BitValues)
  BY <1>7, <1>10, SequenceIs
<1> QED BY <1>11, <1>12 DEF f, g, h, ms

----------------------------------------------------------------------------
(* The supply and the number in the making.                                *)

\* The supply holds less than a word, and its bits are what is left of the
\* words after the chunks.
SupplyInv ==
  /\ words \in Seq(Nat) /\ chunks \in Seq(Nat)
  /\ supplyBits \in 0..(WordBits - 1) /\ supply \in 0..(TwoTo[supplyBits] - 1)
  /\ BitsUsedOnce

\* The Units of a number, and the digits of a partial top Unit.
Length(digits) == (digits + 2) \div 3
Partial(digits) == digits % 3

RandomTypes ==
  /\ ring \in [ 0..(RingSize - 1) -> Int ] /\ index \in 0..(RingSize - 1)
  /\ SupplyInv
  /\ phase \in {"idle", "drawing", "made"}
  /\ number.lsu \in [ 1..NumUnits -> Int ]
  /\ number = [ digits |-> number.digits, exponent |-> number.exponent,
                lsu |-> number.lsu ]

\* The Units of a number from one of them on are three digits each.
WrittenFrom(made, i) == \A j \in i..Length(made.digits) : made.lsu[j] \in 0..999

\* The top Unit of a number with a partial one has no more digits than that.
TopFits(made) ==
  Partial(made.digits) # 0 =>
    made.lsu[Length(made.digits)] < 10^Partial(made.digits)

\* The Units written of a number in the making, with so many whole Units and
\* digits of the partial one still to come.
Written(made, units, digits, stage) ==
  stage # "idle" =>
    /\ made.digits \in 1..NUMDIGITS
    /\ units \in 0..(made.digits \div 3)
    /\ IF digits = 0
         THEN /\ WrittenFrom(made, units + 1)
              /\ TopFits(made)
         ELSE units = made.digits \div 3 /\ digits = Partial(made.digits)
    /\ stage = "made" => units = 0 /\ digits = 0

\* What a number in the making says of its Units, and what says that it is one.
LEMMA WrittenSays ==
  ASSUME NEW made, NEW units, NEW digits, NEW stage,
         Written(made, units, digits, stage), stage # "idle"
  PROVE  /\ made.digits \in 1..NUMDIGITS
         /\ units \in 0..(made.digits \div 3)
         /\ digits = 0 =>
              /\ WrittenFrom(made, units + 1)
              /\ TopFits(made)
         /\ digits # 0 => units = made.digits \div 3 /\ digits = Partial(made.digits)
         /\ stage = "made" => units = 0 /\ digits = 0
  BY Zenon DEF Written

LEMMA WrittenIf ==
  ASSUME NEW made, NEW units, NEW digits, NEW stage,
         made.digits \in 1..NUMDIGITS, units \in 0..(made.digits \div 3),
         digits = 0 =>
           /\ WrittenFrom(made, units + 1)
           /\ TopFits(made),
         digits # 0 => units = made.digits \div 3 /\ digits = Partial(made.digits),
         stage = "made" => units = 0 /\ digits = 0
  PROVE  Written(made, units, digits, stage)
  BY Zenon DEF Written

\* One of the Units written.
LEMMA UnitOf ==
  ASSUME NEW made, NEW from, WrittenFrom(made, from), NEW i \in from..Length(made.digits)
  PROVE  made.lsu[i] \in 0..999
  BY DEF WrittenFrom

UnitsWritten == Written(number, q, rest, phase)

RandomInv == RandomTypes /\ UnitsWritten

\* A number's Units: the whole ones and the partial one.
LEMMA Lengths ==
  ASSUME NEW d \in 1..NUMDIGITS
  PROVE  /\ NumUnits \in Nat /\ Length(d) \in 1..NumUnits /\ d \div 3 \in Nat
         /\ Partial(d) \in 0..2
         /\ d = 3 * (d \div 3) + Partial(d)
         /\ Partial(d) = 0 => Length(d) = d \div 3
         /\ Partial(d) # 0 => Length(d) = d \div 3 + 1
  BY RandomAssumption DEF Length, Partial, NumUnits, UnitDigits3

LEMMA ModRange ==
  ASSUME NEW x \in Int, NEW m \in Nat \ {0}
  PROVE  x % m \in 0..(m - 1)
  OBVIOUS

\* What only concerns other variables leaves the supply as it is.
LEMMA SupplyUnchanged ==
  ASSUME SupplyInv, UNCHANGED <<supply, supplyBits, words, chunks>>
  PROVE  SupplyInv'
  BY DEF SupplyInv, BitsUsedOnce

\* What only concerns other variables leaves the Units as they are.
LEMMA UnitsUnchanged ==
  ASSUME UnitsWritten, UNCHANGED <<number, q, rest, phase>>
  PROVE  UnitsWritten'
  BY DEF UnitsWritten

\* The words of the ring, the next one included.
LEMMA NextWordType ==
  ASSUME RandomInv
  PROVE  /\ NextIndex \in 0..(RingSize - 1)
         /\ NextWord \in 0..(TwoTo[WordBits] - 1)
<1>1. /\ ring \in [ 0..(RingSize - 1) -> Int ] /\ index \in 0..(RingSize - 1)
      /\ RingSize \in Nat \ {0} /\ WordBits \in Nat
      /\ Lag1 \in Nat /\ Lag2 \in Nat /\ Lag3 \in Nat
  BY RandomAssumption DEF RandomInv, RandomTypes
<1>2. NextIndex \in 0..(RingSize - 1)
  BY <1>1, ModRange DEF NextIndex
<1>3. ASSUME NEW lag \in Nat
      PROVE  Ahead(lag) \in Int
  <2>1. NextIndex + lag \in Int
    BY <1>1, <1>2
  <2>2. (NextIndex + lag) % RingSize \in 0..(RingSize - 1)
    BY <1>1, <2>1, ModRange
  <2> QED BY <1>1, <2>2 DEF Ahead
<1>4. NextWord \in 0..(TwoTo[WordBits] - 1)
  <2>1. /\ ring[NextIndex] \in Int /\ Ahead(Lag1) \in Int /\ Ahead(Lag2) \in Int
        /\ Ahead(Lag3) \in Int
    BY <1>1, <1>2, <1>3
  <2> DEFINE sum == ring[NextIndex] + Ahead(Lag1) + Ahead(Lag2) + Ahead(Lag3)
             m == TwoTo[WordBits]
  <2>2. sum \in Int
    BY <2>1
  <2>3. NextWord = sum % m
    BY DEF NextWord
  <2>4. m \in Nat \ {0}
    <3>1. WordBits \in 0..(WordBits + 10)
      BY <1>1
    <3> QED BY <3>1, TwoToFacts
  <2> HIDE DEF sum, m
  <2>5. sum % m \in 0..(m - 1)
    BY <2>2, <2>4, ModRange
  <2> QED BY <2>3, <2>5 DEF m
<1> QED BY <1>2, <1>4

\* The supply, stocked up, has ten bits, and its bits are still what is left
\* of the words.
LEMMA StockFacts ==
  ASSUME RandomInv, TakeTenBits
  PROVE  /\ words' \in Seq(Nat)
         /\ Stock.count \in 10..(WordBits + 9)
         /\ Stock.bits \in 0..(TwoTo[Stock.count] - 1)
         /\ Joined(words', WordBits) = Joined(chunks, 10) \o Bits(Stock.bits, Stock.count)
<1>1. /\ WordBits \in Nat /\ WordBits >= 10
      /\ words \in Seq(Nat) /\ chunks \in Seq(Nat)
      /\ supplyBits \in 0..(WordBits - 1) /\ supply \in 0..(TwoTo[supplyBits] - 1)
      /\ Joined(words, WordBits) = Joined(chunks, 10) \o Bits(supply, supplyBits)
  BY RandomAssumption DEF RandomInv, RandomTypes, SupplyInv, BitsUsedOnce
<1>2. CASE supplyBits < 10
  <2> DEFINE w == NextWord
             s == supplyBits
             p == TwoTo[s]
             x == supply + w * p
             n == s + WordBits
  <2>1. /\ words' = Append(words, w) /\ w \in 0..(TwoTo[WordBits] - 1)
        /\ Stock.bits = x /\ Stock.count = n
    BY <1>2, NextWordType DEF TakeTenBits, Stock, Stocked
  <2> HIDE DEF w
  <2>2. /\ s \in 0..WordBits /\ s \in 0..(WordBits + 10)
        /\ WordBits \in 0..(WordBits + 10) /\ WordBits \in 1..(WordBits + 10)
        /\ n <= WordBits + 10 /\ n \in 10..(WordBits + 9)
    BY <1>1, <1>2
  <2>3. /\ p \in Nat /\ p > 0 /\ TwoTo[WordBits] \in Nat
        /\ TwoTo[n] = p * TwoTo[WordBits]
    BY <2>2, TwoToFacts
  <2>4. w \in Nat /\ supply \in 0..(p - 1)
    BY <1>1, <2>1, <2>3
  <2>5. words' \in Seq(Nat)
    BY <1>1, <2>1, <2>4, AppendProperties
  <2>6. Bits(x, n) = Bits(supply, s) \o Bits(w, WordBits)
    BY <1>1, <2>2, <2>4, BitsJoined
  <2>7. Joined(words', WordBits) = Joined(words, WordBits) \o Bits(w, WordBits)
    BY <1>1, <2>1, <2>2, <2>4, JoinedAppend
  <2>8. /\ Joined(chunks, 10) \in Seq(BitValues)
        /\ Bits(supply, s) \in Seq(BitValues) /\ Bits(w, WordBits) \in Seq(BitValues)
    <3>1. 10 \in 1..(WordBits + 10) /\ supply \in Nat /\ s \in Nat
      BY <1>1, <2>2, <2>4
    <3>2. Joined(chunks, 10) \in Seq(BitValues)
      BY <1>1, <3>1, JoinedAppend
    <3>3. /\ Bits(supply, s) \in [1..s -> BitValues]
          /\ Bits(w, WordBits) \in [1..WordBits -> BitValues]
      BY <2>2, <2>4, <3>1, BitsType
    <3> QED BY <1>1, <3>1, <3>2, <3>3, SequenceIs
  <2>9. Joined(words', WordBits) = Joined(chunks, 10) \o Bits(x, n)
    <3> DEFINE f == Joined(chunks, 10)
               g == Bits(supply, s)
               h == Bits(w, WordBits)
    <3>1. (f \o g) \o h = f \o (g \o h)
      <4>1. f \in Seq(BitValues) /\ g \in Seq(BitValues) /\ h \in Seq(BitValues)
        BY <2>8
      <4> HIDE DEF f, g, h
      <4> QED BY <4>1, ConcatAssociative
    <3> QED BY <1>1, <2>6, <2>7, <3>1
  <2>10. x \in 0..(TwoTo[n] - 1)
    <3> DEFINE m == TwoTo[WordBits]
    <3>1. m \in Nat /\ w + 1 <= m
      BY <2>1, <2>3
    <3>2. (w + 1) * p <= m * p /\ m * p = p * m
      BY <2>3, <2>4, <3>1
    <3>3. (w + 1) * p = w * p + p /\ w * p \in Nat
      BY <2>3, <2>4
    <3>4. TwoTo[n] = p * m
      BY <2>3
    <3> DEFINE y == w * p
               z == p * m
    <3>5. y \in Nat /\ z \in Int /\ y + p <= z /\ x = supply + y
      BY <2>3, <3>1, <3>2, <3>3
    <3> HIDE DEF y, z, p, m, x, n
    <3> QED BY <2>3, <2>4, <3>4, <3>5 DEF z
  <2> HIDE DEF x, n
  <2> QED BY <2>1, <2>2, <2>5, <2>9, <2>10
<1>3. CASE ~(supplyBits < 10)
  <2>1. words' = words /\ Stock = [ bits |-> supply, count |-> supplyBits ]
    BY <1>3 DEF TakeTenBits, Stock
  <2>2. Stock.bits = supply /\ Stock.count = supplyBits
    BY <2>1
  <2>3. supplyBits \in 10..(WordBits + 9)
    BY <1>1, <1>3
  <2> QED BY <1>1, <2>1, <2>2, <2>3
<1> QED BY <1>2, <1>3

\* The ten bits taken are a number below 1024; they and the bits left are
\* those of the supply.
LEMMA SupplyNext ==
  ASSUME RandomInv, TakeTenBits
  PROVE  NextTenBits \in 0..1023 /\ SupplyInv'
<1> DEFINE bits == Stock.bits
           n == Stock.count - 10
           left == bits \div 1024
           chunk == bits % 1024
<1>1. /\ WordBits \in Nat /\ WordBits >= 10 /\ words' \in Seq(Nat)
      /\ chunks \in Seq(Nat) /\ Stock.count \in 10..(WordBits + 9)
      /\ bits \in 0..(TwoTo[Stock.count] - 1)
      /\ Joined(words', WordBits) = Joined(chunks, 10) \o Bits(bits, Stock.count)
  BY StockFacts, RandomAssumption DEF RandomInv, RandomTypes, SupplyInv
<1>2. /\ supply' = left /\ supplyBits' = n /\ NextTenBits = chunk
      /\ chunks' = Append(chunks, chunk)
  BY DEF TakeTenBits, NextTenBits
<1>3. /\ n \in 0..(WordBits - 1) /\ 10 + n = Stock.count /\ n \in 0..(WordBits + 10)
      /\ n \in Nat /\ 10 + n <= WordBits + 10 /\ 10 \in 0..(WordBits + 10)
      /\ 10 \in 1..(WordBits + 10) /\ 10 \in 0..WordBits
  BY <1>1
<1> HIDE DEF n
<1>4. /\ TwoTo[n] \in Nat /\ TwoTo[10] = 1024
      /\ TwoTo[10 + n] = 1024 * TwoTo[n]
  BY <1>3, TwoToFacts
<1>5. bits \in 0..(1024 * TwoTo[n] - 1)
  BY <1>1, <1>3, <1>4
<1> HIDE DEF bits
<1>6. bits \in Nat
  BY <1>4, <1>5
<1>7. left \in Nat /\ chunk \in 0..1023 /\ bits = chunk + left * 1024
  BY <1>6
<1> HIDE DEF left, chunk
<1>8. left \in 0..(TwoTo[n] - 1)
  BY <1>4, <1>5, <1>7
<1>9. chunk \in Nat /\ chunk \in 0..(TwoTo[10] - 1)
  BY <1>4, <1>7
<1>10. Bits(bits, 10 + n) = Bits(chunk, 10) \o Bits(left, n)
  <2> DEFINE ten == 10
  <2>1. /\ ten \in 0..WordBits /\ chunk \in 0..(TwoTo[ten] - 1) /\ ten + n <= WordBits + 10
        /\ bits = chunk + left * TwoTo[ten]
    BY <1>3, <1>4, <1>7, <1>9
  <2>2. n \in Nat /\ left \in Nat
    BY <1>3, <1>7
  <2> HIDE DEF ten
  <2>3. Bits(chunk + left * TwoTo[ten], ten + n) = Bits(chunk, ten) \o Bits(left, n)
    BY <2>1, <2>2, BitsJoined
  <2> QED BY <2>1, <2>3 DEF ten
<1>11. /\ Joined(chunks, 10) \in Seq(BitValues)
       /\ Joined(chunks', 10) = Joined(chunks, 10) \o Bits(chunk, 10)
  BY <1>1, <1>2, <1>3, <1>9, JoinedAppend
<1>12. chunks' \in Seq(Nat)
  BY <1>1, <1>2, <1>9, AppendProperties
<1>13. Bits(chunk, 10) \in Seq(BitValues) /\ Bits(left, n) \in Seq(BitValues)
  <2>1. Bits(chunk, 10) \in [1..10 -> BitValues] /\ Bits(left, n) \in [1..n -> BitValues]
    BY <1>3, <1>7, <1>9, BitsType
  <2> QED BY <1>3, <2>1, SequenceIs
<1>14. Joined(words', WordBits) = Joined(chunks', 10) \o Bits(left, n)
  <2> DEFINE f == Joined(chunks, 10)
             g == Bits(chunk, 10)
             h == Bits(left, n)
  <2>1. f \o (g \o h) = (f \o g) \o h
    <3>1. f \in Seq(BitValues) /\ g \in Seq(BitValues) /\ h \in Seq(BitValues)
      BY <1>11, <1>13
    <3> HIDE DEF f, g, h
    <3> QED BY <3>1, ConcatAssociative
  <2> QED BY <1>1, <1>3, <1>10, <1>11, <2>1
<1>15. BitsUsedOnce'
  BY <1>2, <1>14 DEF BitsUsedOnce
<1> QED BY <1>1, <1>2, <1>3, <1>7, <1>8, <1>12, <1>15 DEF SupplyInv

\* Ten bits are a number below 1024, and taking them leaves a ring of words.
LEMMA TenBits ==
  ASSUME RandomInv, TakeTenBits
  PROVE  /\ NextTenBits \in 0..1023
         /\ ring' \in [ 0..(RingSize - 1) -> Int ] /\ index' \in 0..(RingSize - 1)
         /\ SupplyInv'
<1>1. NextWord \in Int
  <2>1. WordBits \in 0..(WordBits + 10)
    BY RandomAssumption
  <2>2. TwoTo[WordBits] \in Nat
    BY <2>1, TwoToFacts
  <2> QED BY <2>2, NextWordType
<1>2. ring' \in [ 0..(RingSize - 1) -> Int ] /\ index' \in 0..(RingSize - 1)
  BY <1>1, NextWordType DEF TakeTenBits, RandomInv, RandomTypes
<1> QED BY <1>2, SupplyNext

LEMMA RandomInitInv == RandomInit => RandomInv
<1> SUFFICES ASSUME RandomInit PROVE RandomInv
  OBVIOUS
<1>1. /\ WordBits \in Nat /\ WordBits >= 10 /\ RingSize \in Nat \ {0} /\ NUMDIGITS \in Nat
  BY RandomAssumption
<1>2. SupplyInv
  <2>1. /\ words = << >> /\ chunks = << >> /\ supply = 0 /\ supplyBits = 0
    BY DEF RandomInit
  <2>2. supply \in 0..(TwoTo[supplyBits] - 1)
    BY <2>1, TwoToFacts
  <2>3. Joined(<< >>, WordBits) = << >> /\ Joined(<< >>, 10) = << >>
    BY <1>1 DEF Joined
  <2>4. Bits(0, 0) = << >>
    BY DEF Bits
  <2>5. << >> \o << >> = << >>
    OBVIOUS
  <2>6. BitsUsedOnce
    BY <2>1, <2>3, <2>4, <2>5 DEF BitsUsedOnce
  <2>7. << >> \in Seq(Nat) /\ 0 \in 0..(WordBits - 1)
    BY <1>1
  <2> QED BY <2>1, <2>2, <2>6, <2>7 DEF SupplyInv
<1>3. ring \in [ 0..(RingSize - 1) -> Int ]
  <2>1. WordBits \in 0..(WordBits + 10)
    BY <1>1
  <2>2. Words \subseteq Int
    BY <2>1, TwoToFacts, RandomAssumption
  <2> QED BY <2>2 DEF RandomInit
<1> QED BY <1>1, <1>2, <1>3 DEF RandomInit, RandomInv, RandomTypes, UnitsWritten, Written, Unwritten

\* The partial top Unit is written with no more digits than are left for it.
LEMMA DrawTopInv ==
  ASSUME RandomInv, DrawTop
  PROVE  RandomInv'
<1>1. /\ number.digits \in 1..NUMDIGITS /\ q = number.digits \div 3 /\ q \in Nat
      /\ rest = Partial(number.digits) /\ rest # 0 /\ phase = "drawing"
      /\ q' = q /\ phase' = phase
  <2>1. /\ phase = "drawing" /\ phase # "idle" /\ rest # 0
        /\ q' = q /\ phase' = phase
    BY DEF DrawTop
  <2>2. Written(number, q, rest, phase)
    BY DEF RandomInv, UnitsWritten
  <2>3. /\ number.digits \in 1..NUMDIGITS
        /\ q = number.digits \div 3 /\ rest = Partial(number.digits)
    BY <2>1, <2>2, WrittenSays
  <2> QED BY <2>1, <2>3, Lengths
<1>2. rest \in {1, 2} /\ Length(number.digits) = q + 1 /\ q + 1 \in 1..NumUnits
  BY <1>1, Lengths
<1>3. TakeTenBits
  BY DEF DrawTop
<1>4. CASE NextTenBits < 1000
  <2>1. number' = [ number EXCEPT !.lsu[q + 1] = TopUnit(NextTenBits) ] /\ rest' = 0
    BY <1>4 DEF DrawTop
  <2>2. TopUnit(NextTenBits) \in 0..99 /\ TopUnit(NextTenBits) < 10^rest
    <3>1. NextTenBits \in 0..1023
      BY <1>3, TenBits
    <3>2. CASE rest = 1
      BY <3>1, <3>2 DEF TopUnit
    <3>3. CASE rest = 2
      BY <3>1, <3>3 DEF TopUnit
    <3> QED BY <1>2, <3>2, <3>3
  <2>3. /\ number'.digits = number.digits
        /\ number'.lsu = [ number.lsu EXCEPT ![q + 1] = TopUnit(NextTenBits) ]
        /\ number' = [ digits |-> number'.digits, exponent |-> number'.exponent,
                       lsu |-> number'.lsu ]
    BY <2>1 DEF RandomInv, RandomTypes
  <2>4. /\ number'.lsu \in [ 1..NumUnits -> Int ]
        /\ number'.lsu[q + 1] = TopUnit(NextTenBits)
    <3>1. number.lsu \in [ 1..NumUnits -> Int ]
      BY DEF RandomInv, RandomTypes
    <3>2. TopUnit(NextTenBits) \in Int
      BY <2>2
    <3> HIDE DEF RandomInv
    <3> QED BY <1>2, <2>3, <3>1, <3>2
  <2>5. RandomTypes'
    BY <1>1, <1>3, <2>3, <2>4, TenBits DEF RandomTypes
  <2>6. WrittenFrom(number', q + 1)
    <3>1. ASSUME NEW i \in (q + 1)..Length(number.digits) PROVE i = q + 1
      BY <1>1, <1>2
    <3>2. number'.lsu[q + 1] \in 0..999
      <4>1. 0..99 \subseteq 0..999
        OBVIOUS
      <4> QED BY <2>2, <2>4, <4>1
    <3>3. ASSUME NEW i \in (q + 1)..Length(number'.digits)
          PROVE  number'.lsu[i] \in 0..999
      <4>1. i = q + 1
        BY <2>3, <3>1
      <4> QED BY <3>2, <4>1
    <3> QED BY <3>3, Zenon DEF WrittenFrom
  <2>7. number'.lsu[Length(number.digits)] < 10^Partial(number.digits)
    <3>1. Length(number.digits) = q + 1 /\ Partial(number.digits) = rest
      BY <1>1, <1>2
    <3>2. number'.lsu[q + 1] < 10^rest
      BY <2>2, <2>4, Zenon
    <3> QED BY <3>1, <3>2, Zenon
  <2>8. UnitsWritten'
    <3>1. q' \in 0..(number'.digits \div 3) /\ number'.digits \in 1..NUMDIGITS
      BY <1>1, <2>3
    <3>2. TopFits(number')
      BY <2>3, <2>7 DEF TopFits
    <3>3. /\ rest' = 0 /\ phase' # "made" /\ q' = q
          /\ number'.digits = number.digits
      BY <1>1, <2>1, <2>3
    <3>4. WrittenFrom(number', q' + 1)
      BY <2>6, <3>3, Zenon
    <3>5. Written(number', q', rest', phase')
      BY <3>1, <3>2, <3>3, <3>4, WrittenIf, Zenon
    <3> QED BY <3>5 DEF UnitsWritten
  <2> QED BY <2>5, <2>8 DEF RandomInv
<1>5. CASE ~(NextTenBits < 1000)
  <2>1. UNCHANGED <<number, q, rest, phase>>
    BY <1>5 DEF DrawTop
  <2>2. RandomTypes'
    BY <1>3, <2>1, TenBits DEF RandomInv, RandomTypes
  <2>3. UnitsWritten'
    BY <2>1, UnitsUnchanged DEF RandomInv
  <2> QED BY <2>2, <2>3 DEF RandomInv
<1> QED BY <1>4, <1>5

\* A whole Unit is written below those that are.
LEMMA DrawUnitInv ==
  ASSUME RandomInv, DrawUnit
  PROVE  RandomInv'
<1>1. /\ number.digits \in 1..NUMDIGITS /\ q \in 1..(number.digits \div 3)
      /\ rest = 0 /\ rest' = 0 /\ phase = "drawing" /\ phase' = phase
      /\ WrittenFrom(number, q + 1) /\ TopFits(number)
  <2>1. /\ phase = "drawing" /\ phase # "idle" /\ rest = 0 /\ q # 0 /\ rest' = 0
        /\ phase' = phase
    BY DEF DrawUnit
  <2>2. Written(number, q, rest, phase)
    BY DEF RandomInv, UnitsWritten
  <2>3. /\ number.digits \in 1..NUMDIGITS /\ q \in 0..(number.digits \div 3)
        /\ WrittenFrom(number, q + 1) /\ TopFits(number)
    BY <2>1, <2>2, WrittenSays
  <2>4. q \in 1..(number.digits \div 3)
    BY <2>1, <2>3
  <2> QED BY <2>1, <2>3, <2>4
<1>2. /\ q \in 1..NumUnits /\ q <= Length(number.digits)
      /\ Length(number.digits) \in 1..NumUnits
      /\ Partial(number.digits) # 0 => q < Length(number.digits)
  BY <1>1, Lengths
<1>3. TakeTenBits
  BY DEF DrawUnit
<1>4. CASE NextTenBits < 1000
  <2>1. number' = [ number EXCEPT !.lsu[q] = NextTenBits ] /\ q' = q - 1
    BY <1>4 DEF DrawUnit
  <2>2. NextTenBits \in 0..999
    <3>1. NextTenBits \in 0..1023
      BY <1>3, TenBits
    <3> QED BY <1>4, <3>1
  <2>3. /\ number'.digits = number.digits
        /\ number'.lsu = [ number.lsu EXCEPT ![q] = NextTenBits ]
        /\ number' = [ digits |-> number'.digits, exponent |-> number'.exponent,
                       lsu |-> number'.lsu ]
    BY <2>1 DEF RandomInv, RandomTypes
  <2>4. /\ number'.lsu \in [ 1..NumUnits -> Int ]
        /\ \A i \in 1..NumUnits :
             number'.lsu[i] = IF i = q THEN NextTenBits ELSE number.lsu[i]
    <3>1. number.lsu \in [ 1..NumUnits -> Int ]
      BY DEF RandomInv, RandomTypes
    <3>2. NextTenBits \in Int
      BY <2>2
    <3> QED BY <1>2, <2>3, <3>1, <3>2
  <2>5. RandomTypes'
    BY <1>1, <1>3, <2>3, <2>4, TenBits DEF RandomTypes
  <2>6. \A i \in q..Length(number.digits) : number'.lsu[i] \in 0..999
    <3> SUFFICES ASSUME NEW i \in q..Length(number.digits)
                 PROVE  number'.lsu[i] \in 0..999
      BY Zenon
    <3>1. i \in 1..NumUnits
      BY <1>1, <1>2, Lengths
    <3>2. CASE i = q
      <4>1. number'.lsu[i] = NextTenBits
        BY <2>4, <3>1, <3>2
      <4> QED BY <2>2, <4>1
    <3>3. CASE i # q
      <4>1. number'.lsu[i] = number.lsu[i]
        BY <2>4, <3>1, <3>3
      <4>2. i \in (q + 1)..Length(number.digits)
        BY <1>1, <1>2, <3>3
      <4>3. WrittenFrom(number, q + 1)
        BY <1>1
      <4>4. number.lsu[i] \in 0..999
        <5> DEFINE one == number
        <5>1. WrittenFrom(one, q + 1) /\ i \in (q + 1)..Length(one.digits)
          BY <4>2, <4>3
        <5> HIDE DEF one
        <5>2. one.lsu[i] \in 0..999
          BY <5>1, UnitOf
        <5> QED BY <5>2 DEF one
      <4> QED BY <4>1, <4>4
    <3> QED BY <3>2, <3>3
  <2>7. TopFits(number')
    <3>1. CASE Partial(number.digits) # 0
      <4>1. number'.lsu[Length(number.digits)] = number.lsu[Length(number.digits)]
        BY <1>2, <2>4, <3>1
      <4> QED BY <1>1, <2>3, <4>1 DEF TopFits
    <3>2. CASE Partial(number.digits) = 0
      BY <2>3, <3>2 DEF TopFits
    <3> QED BY <3>1, <3>2
  <2>8. UnitsWritten'
    <3>1. q' \in 0..(number'.digits \div 3) /\ q' + 1 = q
      BY <1>1, <2>1, <2>3, Lengths
    <3>2. number'.digits = number.digits /\ number'.digits \in 1..NUMDIGITS
      BY <1>1, <2>3
    <3>4. rest' = 0 /\ phase' # "made"
      BY <1>1
    <3>3. WrittenFrom(number', q' + 1)
      <4>1. q' + 1 = q /\ number'.digits = number.digits
        BY <3>1, <3>2
      <4>2. \A i \in (q' + 1)..Length(number'.digits) : number'.lsu[i] \in 0..999
        BY <2>6, <4>1, SMTT(30)
      <4> QED BY <4>2, Zenon DEF WrittenFrom
    <3>5. Written(number', q', rest', phase')
      BY <2>7, <3>1, <3>2, <3>3, <3>4, WrittenIf, Zenon
    <3> QED BY <3>5 DEF UnitsWritten
  <2> QED BY <2>5, <2>8 DEF RandomInv
<1>5. CASE ~(NextTenBits < 1000)
  <2>1. UNCHANGED <<number, q, rest, phase>>
    BY <1>5 DEF DrawUnit
  <2>2. RandomTypes'
    BY <1>3, <2>1, TenBits DEF RandomInv, RandomTypes
  <2>3. UnitsWritten'
    BY <2>1, UnitsUnchanged DEF RandomInv
  <2> QED BY <2>2, <2>3 DEF RandomInv
<1> QED BY <1>4, <1>5

\* Nothing is written yet.
LEMMA CallStartsInv ==
  ASSUME RandomInv, CallStarts
  PROVE  RandomInv'
<1>1. PICK request \in Requests :
        /\ request[1] \in 1..NUMDIGITS
        /\ number' = [ Unwritten EXCEPT !.digits = request[1],
                                        !.exponent = request[2] ]
        /\ q' = request[1] \div 3 /\ rest' = request[1] % 3
  BY DEF CallStarts, Acceptable, UnitDigits3
<1>2. /\ number'.digits = request[1]
      /\ number'.lsu = [ i \in 1..NumUnits |-> -1 ]
      /\ number' = [ digits |-> number'.digits, exponent |-> number'.exponent,
                     lsu |-> number'.lsu ]
  BY <1>1 DEF Unwritten
<1>3. RandomTypes'
  BY <1>2, SupplyUnchanged DEF RandomInv, RandomTypes, CallStarts
<1>4. UnitsWritten'
  <2>1. /\ request[1] \div 3 \in Nat /\ Partial(request[1]) = request[1] % 3
        /\ Partial(request[1]) = 0 => Length(request[1]) = request[1] \div 3
    BY <1>1, Lengths DEF Partial
  <2>2. phase' = "drawing"
    BY DEF CallStarts
  <2>3. Written(number', q', rest', phase')
    <3>1. number'.digits \in 1..NUMDIGITS /\ number'.digits = request[1]
      BY <1>1, <1>2
    <3>2. q' = number'.digits \div 3 /\ rest' = Partial(number'.digits)
      BY <1>1, <2>1, <3>1
    <3>3. q' \in 0..(number'.digits \div 3)
      BY <2>1, <3>1, <3>2
    <3>4. rest' = 0 =>
            WrittenFrom(number', q' + 1) /\ TopFits(number')
      <4>1. rest' = 0 => Partial(number'.digits) = 0 /\ Length(number'.digits) = q'
        BY <2>1, <3>1, <3>2
      <4>2. (q' + 1)..q' = {}
        BY <2>1, <3>1, <3>2
      <4>3. rest' = 0 => WrittenFrom(number', q' + 1)
        BY <4>1, <4>2, Zenon DEF WrittenFrom
      <4> QED BY <4>1, <4>3, Zenon DEF TopFits
    <3>5. phase' # "made"
      BY <2>2
    <3> QED BY <3>1, <3>2, <3>3, <3>4, <3>5, WrittenIf, Zenon
  <2> QED BY <2>3 DEF UnitsWritten
<1> QED BY <1>3, <1>4 DEF RandomInv

LEMMA RandomNextInv ==
  ASSUME RandomInv, [RandomNext]_randomVars
  PROVE  RandomInv'
<1>1. CASE CallFails
  <2>1. RandomTypes'
    BY <1>1, RandomAssumption, SupplyUnchanged
       DEF RandomInv, RandomTypes, CallFails, Unwritten
  <2>2. UnitsWritten'
    BY <1>1 DEF CallFails, UnitsWritten, Written
  <2> QED BY <2>1, <2>2 DEF RandomInv
<1>2. CASE CallStarts
  BY <1>2, CallStartsInv
<1>3. CASE DrawTop
  BY <1>3, DrawTopInv
<1>4. CASE DrawUnit
  BY <1>4, DrawUnitInv
<1>5. CASE CallReturns
  <2>1. RandomTypes'
    BY <1>5, SupplyUnchanged DEF RandomInv, RandomTypes, CallReturns
  <2>2. UnitsWritten'
    <3>1. /\ phase # "idle" /\ rest = 0 /\ q = 0
          /\ number' = number /\ q' = q /\ rest' = rest
      BY <1>5 DEF CallReturns
    <3>2. Written(number, q, rest, phase)
      BY DEF RandomInv, UnitsWritten
    <3>3. /\ number.digits \in 1..NUMDIGITS /\ q \in 0..(number.digits \div 3)
          /\ WrittenFrom(number, q + 1) /\ TopFits(number)
      BY <3>1, <3>2, WrittenSays
    <3>4. Written(number, q, rest, phase')
      BY <3>1, <3>3, WrittenIf
    <3> QED BY <3>1, <3>4, Zenon DEF UnitsWritten
  <2> QED BY <2>1, <2>2 DEF RandomInv
<1>6. CASE UNCHANGED randomVars
  <2>1. UnitsWritten'
    BY <1>6, UnitsUnchanged DEF RandomInv, randomVars
  <2>2. RandomTypes'
    BY <1>6, SupplyUnchanged DEF RandomInv, RandomTypes, randomVars
  <2> QED BY <2>1, <2>2 DEF RandomInv
<1> QED BY <1>1, <1>2, <1>3, <1>4, <1>5, <1>6 DEF RandomNext

\* For any ring, any words and any precision: the numbers drs_call returns
\* have every Unit written, and no digit beyond those they say.
THEOREM RandomNumbersAreComplete == RandomSpec => []RandomIsComplete
<1>1. RandomInv => RandomIsComplete
  <2> SUFFICES ASSUME RandomInv, phase = "made"
               PROVE  LET length == (number.digits + UnitDigits3 - 1) \div UnitDigits3
                          top    == number.digits - (length - 1) * UnitDigits3
                      IN  /\ length <= NumUnits
                          /\ \A i \in 1..length : number.lsu[i] \in 0..999
                          /\ number.lsu[length] < 10^top
    BY Zenon DEF RandomIsComplete
  <2> DEFINE length == Length(number.digits)
  <2>1. /\ number.digits \in 1..NUMDIGITS
        /\ \A i \in 1..length : number.lsu[i] \in 0..999
        /\ Partial(number.digits) # 0 =>
             number.lsu[length] < 10^Partial(number.digits)
    <3>1. /\ number.digits \in 1..NUMDIGITS
          /\ \A i \in 1..length : number.lsu[i] \in 0..999
          /\ TopFits(number)
      <4>1. Written(number, q, rest, phase)
        BY DEF RandomInv, UnitsWritten
      <4>2. /\ number.digits \in 1..NUMDIGITS /\ q = 0 /\ rest = 0
            /\ WrittenFrom(number, q + 1) /\ TopFits(number)
        <5>1. phase # "idle"
          OBVIOUS
        <5> QED BY <4>1, <5>1, WrittenSays
      <4>3. WrittenFrom(number, 1)
        <5>1. q + 1 = 1
          BY <4>2
        <5> QED BY <4>2, <5>1
      <4> QED BY <4>2, <4>3, Zenon DEF WrittenFrom
    <3> QED BY <3>1 DEF TopFits
  <2>2. /\ length \in 1..NumUnits
        /\ Partial(number.digits) = 0 => number.digits - (length - 1) * 3 = 3
        /\ Partial(number.digits) # 0 =>
             number.digits - (length - 1) * 3 = Partial(number.digits)
    BY <2>1, Lengths
  <2>3. length \in 1..length
    BY <2>2, Lengths, <2>1
  <2>4. number.lsu[length] \in 0..999
    <3>1. WrittenFrom(number, 1)
      BY <2>1, Zenon DEF WrittenFrom
    <3> DEFINE one == number
    <3>2. WrittenFrom(one, 1) /\ length \in 1..Length(one.digits)
      BY <2>3, <3>1
    <3> HIDE DEF one, length
    <3>3. one.lsu[length] \in 0..999
      BY <3>2, UnitOf
    <3> QED BY <3>3 DEF one
  <2>5. 10^3 = 1000
    OBVIOUS
  <2>6. number.lsu[length] < 10^(number.digits - (length - 1) * 3)
    <3>1. CASE Partial(number.digits) = 0
      <4>1. number.digits - (length - 1) * 3 = 3
        BY <2>2, <3>1
      <4> HIDE DEF length
      <4>2. number.lsu[length] < 1000
        <5> DEFINE unit == number.lsu[length]
        <5>1. unit \in 0..999
          BY <2>4
        <5> HIDE DEF unit
        <5>2. unit < 1000
          BY <5>1
        <5> QED BY <5>2 DEF unit
      <4>3. number.lsu[length] < 10^3
        BY <2>5, <4>2, Zenon
      <4> QED BY <4>1, <4>3, Zenon
    <3>2. CASE Partial(number.digits) # 0
      <4> HIDE DEF length
      <4> QED BY <2>1, <2>2, <3>2
    <3> QED BY <3>1, <3>2
  <2>7. length <= NumUnits
    BY <2>1, <2>2, Lengths
  <2>8. (number.digits + UnitDigits3 - 1) \div UnitDigits3 = length /\ UnitDigits3 = 3
    BY <2>1 DEF Length, UnitDigits3
  <2> HIDE DEF length
  <2>9. \A i \in 1..length : number.lsu[i] \in 0..999
    BY <2>1
  <2> QED BY <2>6, <2>7, <2>8, <2>9
<1> QED BY <1>1, RandomInitInv, RandomNextInv, PTL DEF RandomSpec

\* For any ring, any words of ten bits or more and any calls: the bits of the
\* words are handed out once each, in order, ten at a time.
THEOREM BitsAreUsedOnce == RandomSpec => []BitsUsedOnce
<1>1. RandomInv => BitsUsedOnce
  BY DEF RandomInv, RandomTypes, SupplyInv
<1> QED BY <1>1, RandomInitInv, RandomNextInv, PTL DEF RandomSpec
=============================================================================
