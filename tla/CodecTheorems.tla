---------------------------- MODULE CodecTheorems --------------------------
(***************************************************************************)
(* The word conversions, the laws of the ALU and the vector table, for     *)
(* every width.                                                            *)
(***************************************************************************)
EXTENDS Codec, ALUAlgebra, VectorTable, TernaryTheorems, SequenceTheorems

\* Words are integers.
LEMMA ValueIsInt == ASSUME NEW v \in Word PROVE v \in Int
  BY MaxValue DEF Word

\* Word::from_integer followed by Word::to_integer is the identity on every
\* word of every width, and the throw after the loop of from_integer is dead.
THEOREM WordsRoundTrip == Spec => []WordRoundTrip
<1> DEFINE Inv == value \in Word
<1>1. Init => Inv
  BY DEF Init
<1>2. Inv /\ [Next]_value => Inv'
  BY DEF Next
<1>3. Inv => WordRoundTrip
  <2> SUFFICES ASSUME Inv PROVE WordRoundTrip
    OBVIOUS
  <2>1. from_integer(value) \in Trits
    BY ValueIsInt, FromIntegerIsTrits
  <2>2. to_integer(from_integer(value)) = value
    BY RoundTrip
  <2>3. Remaining(value)[WIDTH] = 0
    BY RemainingVanishes
  <2> QED BY <2>1, <2>2, <2>3 DEF WordRoundTrip
<1> QED BY <1>1, <1>2, <1>3, PTL DEF Spec

-----------------------------------------------------------------------------
(* The two halves of a word. *)

\* Products are reassociated one at a time: the provers' arithmetic is linear.
LEMMA Associates == \A a, b, c \in Int : a * (b * c) = (a * b) * c
  OBVIOUS

\* The exponents of a product add up.
LEMMA PowerAdds ==
    ASSUME NEW m \in Nat
    PROVE  \A n \in Nat : power_of_three(m + n) = power_of_three(m) * power_of_three(n)
<1> DEFINE P(n) == power_of_three(n)
           S == {n \in Nat : P(m + n) = P(m) * P(n)}
<1>0. \A n \in Nat : P(n) \in Int
  BY PowerIsNat
<1>1. 0 \in S
  BY PowerStep, <1>0
<1>2. ASSUME NEW n \in Nat, n \in S PROVE n + 1 \in S
  <2>1. P(m + n) = P(m) * P(n) /\ m + n \in Nat /\ (m + n) + 1 = m + (n + 1)
    BY <1>2
  <2>2. P((m + n) + 1) = P(m + n) * 3 /\ P(n + 1) = P(n) * 3
    BY <2>1, PowerStep
  <2> DEFINE a == P(m)
             b == P(n)
             c == P(m + n)
             d == P(n + 1)
  <2>3. a \in Int /\ b \in Int /\ c = a * b /\ d = b * 3
    BY <1>0, <2>1, <2>2
  <2> HIDE DEF a, b, c, d
  <2>4. c * 3 = a * d
    BY <2>3, Associates
  <2>5. P(m + (n + 1)) = P(m) * P(n + 1)
    BY <2>1, <2>2, <2>4 DEF a, b, c, d
  <2> QED BY <2>5
<1>3. \A n \in S : P(m + n) = P(m) * P(n)
  OBVIOUS
<1> HIDE DEF S, P
<1>4. Nat \subseteq S
  BY <1>1, <1>2, NatSetInduction
<1> QED BY <1>3, <1>4 DEF P

\* MODULUS is the number of words.
LEMMA ModulusIsPower == MODULUS = power_of_three(WIDTH) /\ MODULUS \in Nat \ {0}
<1> DEFINE b == Accumulated(Ones)
           S == {k \in 0 .. WIDTH : 2 * b[k] + 1 = power_of_three(k)}
<1>w. WIDTH \in Nat /\ WIDTH \in 0 .. WIDTH /\ 0 \in 0 .. WIDTH
  BY WidthAssumption
<1>1. /\ b \in [0 .. WIDTH -> Int] /\ b[0] = 0
      /\ \A k \in 0 .. WIDTH - 1 : b[k + 1] = b[k] * 3 + 1
  <2>1. Ones \in [TritIndex -> Int] /\ \A k \in 0 .. WIDTH - 1 : Ones[k] = 1
    BY DEF Ones, TritIndex
  <2>2. /\ b \in [0 .. WIDTH -> Int] /\ b[0] = 0
        /\ \A k \in 0 .. WIDTH - 1 : b[k + 1] = b[k] * 3 + Ones[k]
    BY <2>1, AccumulatedDef
  <2> QED BY <2>1, <2>2
<1>2. MODULUS = 2 * b[WIDTH] + 1
  BY DEF MODULUS, HALF_MODULUS, MAX_VALUE, to_integer, Ones
<1> HIDE DEF b
<1>3. 0 \in S
  BY <1>w, <1>1, PowerStep
<1>4. ASSUME NEW k \in 0 .. WIDTH - 1, k \in S PROVE k + 1 \in S
  <2>1. power_of_three(k + 1) = power_of_three(k) * 3 /\ k + 1 \in 0 .. WIDTH /\ k \in 0 .. WIDTH
    BY <1>w, PowerStep
  <2>2. 2 * b[k] + 1 = power_of_three(k) /\ b[k] \in Int
    BY <1>1, <1>4, <2>1
  <2> QED BY <1>1, <2>1, <2>2
<1>5. \A k \in S : 2 * b[k] + 1 = power_of_three(k)
  OBVIOUS
<1> HIDE DEF S
<1>6. 0 .. WIDTH \subseteq S
  BY <1>w, <1>3, <1>4, UpTo
<1> QED BY <1>2, <1>5, <1>6, <1>w, PowerIsNat

\* A word with its first k trits cleared.
LowTrits(t, k) == [i \in TritIndex |-> IF i < k THEN 0 ELSE t[i]]

\* Clearing trits leaves trits.
LEMMA LowTritsAreTrits ==
    ASSUME NEW t \in Trits, NEW k
    PROVE  LowTrits(t, k) \in Trits
  BY DEF Trits, Trit, LowTrits

\* Where the trits of two words agree from some place on, so do the sums, if they agree there.
LEMMA SumsAgree ==
    ASSUME NEW s \in Trits, NEW t \in Trits, NEW k \in 0 .. WIDTH, NEW j \in 0 .. WIDTH, NEW n \in Nat,
           k + n <= WIDTH, j + n <= WIDTH, Accumulated(s)[k] = Accumulated(t)[j],
           \A m \in 0 .. n - 1 : s[k + m] = t[j + m]
    PROVE  Accumulated(s)[k + n] = Accumulated(t)[j + n]
<1> DEFINE a == Accumulated(s)
           b == Accumulated(t)
           S == {m \in 0 .. n : a[k + m] = b[j + m]}
<1>1. /\ \A h \in 0 .. WIDTH - 1 : a[h + 1] = a[h] * 3 + s[h]
      /\ \A h \in 0 .. WIDTH - 1 : b[h + 1] = b[h] * 3 + t[h]
      /\ WIDTH \in Nat
  BY TritSums
<1>2. a[k] = b[j]
  OBVIOUS
<1> HIDE DEF a, b
<1>3. 0 \in S
  BY <1>2
<1>4. ASSUME NEW m \in 0 .. n - 1, m \in S PROVE m + 1 \in S
  <2>1. k + m \in 0 .. WIDTH - 1 /\ j + m \in 0 .. WIDTH - 1 /\ (k + m) + 1 = k + (m + 1)
        /\ (j + m) + 1 = j + (m + 1) /\ m + 1 \in 0 .. n
    BY <1>1
  <2>2. s[k + m] = t[j + m] /\ a[k + m] = b[j + m]
    BY <1>4
  <2> QED BY <1>1, <2>1, <2>2
<1>5. \A m \in S : a[k + m] = b[j + m]
  OBVIOUS
<1> HIDE DEF S
<1>6. 0 .. n \subseteq S
  BY <1>3, <1>4, UpTo
<1> QED BY <1>5, <1>6 DEF a, b

\* Only zeros sum to nothing.
LEMMA SumsToZero ==
    ASSUME NEW t \in Trits, NEW k \in 0 .. WIDTH, Accumulated(t)[k] = 0
    PROVE  \A i \in 0 .. k - 1 : t[i] = 0
<1> DEFINE a == Accumulated(t)
           S == {m \in 0 .. k : a[k - m] = 0 /\ \A i \in k - m .. k - 1 : t[i] = 0}
<1>1. /\ a \in [0 .. WIDTH -> Int] /\ \A h \in 0 .. WIDTH - 1 : a[h + 1] = a[h] * 3 + t[h]
      /\ WIDTH \in Nat /\ \A h \in 0 .. WIDTH - 1 : t[h] \in {-1, 0, 1}
  BY TritSums
<1>0. a[k] = 0
  OBVIOUS
<1> HIDE DEF a
<1>2. 0 \in S
  BY <1>0
<1>3. ASSUME NEW m \in 0 .. k - 1, m \in S PROVE m + 1 \in S
  <2> DEFINE h == k - (m + 1)
  <2>1. h \in 0 .. WIDTH - 1 /\ h \in 0 .. WIDTH /\ h + 1 = k - m /\ m + 1 \in 0 .. k
    BY <1>1
  <2>2. a[h + 1] = 0 /\ \A i \in k - m .. k - 1 : t[i] = 0
    BY <1>3, <2>1
  <2>3. \A i \in h .. k - 1 : i = h \/ i \in k - m .. k - 1
    BY <2>1
  <2> HIDE DEF h
  <2>4. a[h + 1] = a[h] * 3 + t[h] /\ a[h] \in Int /\ t[h] \in {-1, 0, 1}
    BY <1>1, <2>1
  <2>5. a[h] = 0 /\ t[h] = 0
    <3>1. \A x \in Int, y \in {-1, 0, 1} : x * 3 + y = 0 => x = 0 /\ y = 0
      OBVIOUS
    <3>2. a[h] * 3 + t[h] = 0
      BY <2>2, <2>4
    <3> QED BY <2>4, <3>1, <3>2
  <2>6. \A i \in h .. k - 1 : t[i] = 0
    BY <2>2, <2>3, <2>5
  <2> QED BY <2>1, <2>5, <2>6 DEF h
<1>4. \A m \in S : \A i \in k - m .. k - 1 : t[i] = 0
  OBVIOUS
<1>5. k \in 0 .. k /\ k - k = 0
  BY <1>1
<1> HIDE DEF S
<1>6. 0 .. k \subseteq S
  BY <1>2, <1>3, UpTo
<1> QED BY <1>4, <1>5, <1>6

\* The number of a word is that of its first k trits, a power of three times, and of
\* the others, which stay below half that power.
LEMMA Split ==
    ASSUME NEW t \in Trits, NEW k \in 0 .. WIDTH, NEW l, l = to_integer(LowTrits(t, k)),
           NEW p, p = power_of_three(WIDTH - k)
    PROVE  /\ l \in Int /\ p \in Nat \ {0} /\ Accumulated(t)[k] \in Int
           /\ to_integer(t) = Accumulated(t)[k] * p + l
           /\ 2 * l < p /\ -2 * l < p
<1> DEFINE u == LowTrits(t, k)
           a == Accumulated(t)
           b == Accumulated(u)
           n == WIDTH - k
           P(m) == power_of_three(m)
           S == {m \in 0 .. n : /\ a[k + m] = a[k] * P(m) + b[k + m]
                                /\ 2 * b[k + m] < P(m) /\ -2 * b[k + m] < P(m)}
<1>1. u \in Trits
  BY LowTritsAreTrits
<1>2. /\ a \in [0 .. WIDTH -> Int] /\ \A h \in 0 .. WIDTH - 1 : a[h + 1] = a[h] * 3 + t[h]
      /\ b \in [0 .. WIDTH -> Int] /\ \A h \in 0 .. WIDTH - 1 : b[h + 1] = b[h] * 3 + u[h]
      /\ WIDTH \in Nat /\ \A h \in 0 .. WIDTH - 1 : t[h] \in {-1, 0, 1}
      /\ TritIndex = 0 .. WIDTH - 1
  BY <1>1, TritSums
<1>0. \A i \in 0 .. WIDTH - 1 : u[i] = IF i < k THEN 0 ELSE t[i]
  BY <1>2 DEF LowTrits
<1>3. b[k] = 0
  <2>1. \A i \in 0 .. k - 1 : i \in 0 .. WIDTH - 1 /\ i < k
    BY <1>2
  <2>2. \A i \in 0 .. k - 1 : u[i] = 0
    BY <1>0, <2>1
  <2> HIDE DEF u
  <2> QED BY <1>1, <2>2, ZerosSum DEF b
<1>4. \A h \in k .. WIDTH - 1 : u[h] = t[h]
  <2>1. \A h \in k .. WIDTH - 1 : h \in 0 .. WIDTH - 1 /\ ~(h < k)
    BY <1>2
  <2> QED BY <1>0, <2>1
<1>5. /\ \A m \in Nat : P(m) \in Nat \ {0} /\ P(m + 1) = P(m) * 3
      /\ P(0) = 1
  BY PowerStep, PowerIsNat
<1>6. to_integer(t) = a[WIDTH] /\ l = b[WIDTH]
  BY DEF to_integer
<1> HIDE DEF u, a, b, P
<1>7. a[k] \in Int /\ n \in Nat /\ k + n = WIDTH
  BY <1>2
<1>8. 0 \in S
  <2>1. k + 0 = k /\ 0 \in 0 .. n
    BY <1>7
  <2>2. a[k] = a[k] * 1 + 0
    BY <1>7
  <2> QED BY <1>3, <1>5, <2>1, <2>2
<1>9. ASSUME NEW m \in 0 .. n - 1, m \in S PROVE m + 1 \in S
  <2> DEFINE h == k + m
  <2>1. h \in 0 .. WIDTH - 1 /\ h \in 0 .. WIDTH /\ h \in k .. WIDTH - 1 /\ h + 1 = k + (m + 1)
        /\ m + 1 \in 0 .. n /\ m \in Nat
    BY <1>2
  <2>2. a[h] = a[k] * P(m) + b[h] /\ 2 * b[h] < P(m) /\ -2 * b[h] < P(m)
    BY <1>9
  <2> HIDE DEF h
  <2>3. a[h + 1] = a[h] * 3 + t[h] /\ b[h + 1] = b[h] * 3 + t[h] /\ t[h] \in {-1, 0, 1}
        /\ b[h] \in Int
    BY <1>2, <1>4, <2>1
  <2>4. P(m) \in Nat \ {0} /\ P(m + 1) = P(m) * 3
    BY <1>5, <2>1
  <2> DEFINE c == a[k] * P(m)
             q == P(m)
  <2>5. c \in Int /\ q \in Int /\ a[k] * P(m + 1) = c * 3
    BY <1>7, <2>4, Associates
  <2>6. a[h] = c + b[h] /\ q \in Nat /\ P(m + 1) = q * 3 /\ 2 * b[h] < q /\ -2 * b[h] < q
    BY <2>2, <2>4
  <2> HIDE DEF c, q
  <2>7. a[h + 1] = c * 3 + b[h + 1]
    BY <2>3, <2>5, <2>6
  <2>8. 2 * b[h + 1] < q * 3 /\ -2 * b[h + 1] < q * 3
    BY <2>3, <2>6
  <2> QED BY <2>1, <2>5, <2>6, <2>7, <2>8 DEF h
<1>10. \A m \in S : /\ a[k + m] = a[k] * P(m) + b[k + m]
                    /\ 2 * b[k + m] < P(m) /\ -2 * b[k + m] < P(m)
  OBVIOUS
<1> HIDE DEF S
<1>11. 0 .. n \subseteq S
  BY <1>7, <1>8, <1>9, UpTo
<1>12. n \in S
  BY <1>7, <1>11
<1>13. /\ a[WIDTH] = a[k] * P(n) + b[WIDTH] /\ 2 * b[WIDTH] < P(n) /\ -2 * b[WIDTH] < P(n)
  BY <1>7, <1>10, <1>12
<1>14. b[WIDTH] \in Int /\ p = P(n) /\ P(n) \in Nat \ {0}
  BY <1>2, <1>5, <1>7 DEF P
<1> QED BY <1>6, <1>7, <1>13, <1>14 DEF a

-----------------------------------------------------------------------------
(* Arithmetic modulo the number of words. *)

\* The only multiple of m nearer to zero than m is zero.
LEMMA SmallMultiple ==
    ASSUME NEW m \in Nat \ {0}, NEW c \in Int, c * m < m, -m < c * m
    PROVE  c = 0
<1>1. c >= 1 => c * m >= m
  OBVIOUS
<1>2. c <= -1 => c * m <= -m
  OBVIOUS
<1> QED BY <1>1, <1>2

\* Quotient and remainder make up the number.
LEMMA DivisionSplits ==
    ASSUME NEW m \in Nat \ {0}, NEW n \in Int
    PROVE  n \div m \in Int /\ n % m \in 0 .. m - 1 /\ n = (n \div m) * m + (n % m)
<1>1. n \div m \in Int /\ n % m \in 0 .. m - 1
  OBVIOUS
<1>2. n = (n \div m) * m + (n % m)
  BY SMTT(60)
<1> QED BY <1>1, <1>2

\* Multiples leave no remainder.
LEMMA MultipleRem ==
    ASSUME NEW m \in Nat \ {0}, NEW c \in Int
    PROVE  (c * m) % m = 0
<1> DEFINE v == c * m
           q == v \div m
           r == v % m
<1>1. v \in Int
  OBVIOUS
<1> HIDE DEF v
<1>2. q \in Int /\ r \in 0 .. m - 1 /\ v = q * m + r
  BY <1>1, DivisionSplits
<1> HIDE DEF q, r
<1>3. r = (c - q) * m
  BY <1>2 DEF v
<1>4. c - q \in Int
  BY <1>2
<1>5. c - q = 0
  <2> DEFINE d == c - q
  <2>1. d \in Int /\ r = d * m
    BY <1>3, <1>4
  <2> HIDE DEF d
  <2>2. d * m < m /\ -m < d * m
    BY <1>2, <2>1
  <2>3. d = 0
    BY <2>1, <2>2, SmallMultiple
  <2> QED BY <2>3 DEF d
<1> QED BY <1>3, <1>5 DEF r, v

\* wrap takes a multiple of MODULUS away.
LEMMA WrapSubtracts ==
    ASSUME NEW v \in Int
    PROVE  \E c \in Int : v = wrap(v) + c * MODULUS
<1> DEFINE m == MODULUS
           h == HALF_MODULUS
<1>1. m \in Nat \ {0}
  BY ModulusIsPower
<1>2. wrap(v) = LET residue == CRem(v, m)
                IN  IF residue > h THEN residue - m
                    ELSE IF residue < -h THEN residue + m ELSE residue
  BY DEF wrap
<1> HIDE DEF m, h
<1>3. \A n \in Int : \E q \in Int : n = (n % m) + q * m /\ n % m \in Int
  <2> TAKE n \in Int
  <2>1. n \div m \in Int /\ n % m \in 0 .. m - 1 /\ n = (n \div m) * m + (n % m)
    BY <1>1, DivisionSplits
  <2> DEFINE q == n \div m
  <2> HIDE DEF q
  <2>2. q \in Int /\ n = (n % m) + q * m
    BY <1>1, <2>1 DEF q
  <2> QED BY <2>1, <2>2
<1>4. \E q \in Int : v = CRem(v, m) + q * m /\ CRem(v, m) \in Int
  <2>1. CASE v >= 0
    BY <2>1, <1>3 DEF CRem
  <2>2. CASE ~(v >= 0)
    <3>1. CRem(v, m) = -((-v) % m) /\ -v \in Int
      BY <2>2 DEF CRem
    <3>2. PICK q \in Int : -v = ((-v) % m) + q * m /\ (-v) % m \in Int
      BY <3>1, <1>3
    <3> DEFINE r == (-v) % m
               d == -q
               w == q * m
    <3> HIDE DEF r
    <3>3. w \in Int /\ d * m = -w
      BY <1>1
    <3>4. -v = r + w /\ r \in Int
      BY <3>2 DEF r
    <3>5. d \in Int /\ CRem(v, m) = -r
      BY <3>1 DEF r
    <3> HIDE DEF d, w
    <3>6. v = -r + d * m
      BY <3>3, <3>4
    <3> QED BY <3>4, <3>5, <3>6
  <2> QED BY <2>1, <2>2
<1>5. PICK q \in Int : v = CRem(v, m) + q * m /\ CRem(v, m) \in Int
  BY <1>4
<1> DEFINE r == CRem(v, m)
           w == q * m
<1>6. w \in Int /\ (q + 1) * m = w + m /\ (q - 1) * m = w - m /\ q + 1 \in Int /\ q - 1 \in Int
  BY <1>1
<1>7. v = r + w /\ r \in Int
  BY <1>5
<1> HIDE DEF r, w
<1>8. wrap(v) \in {r - m, r + m, r}
  BY <1>2 DEF r
<1>9. CASE wrap(v) = r - m
  <2>1. v = wrap(v) + (q + 1) * m
    BY <1>1, <1>6, <1>7, <1>9
  <2> QED BY <2>1, <1>6 DEF m
<1>10. CASE wrap(v) = r + m
  <2>1. v = wrap(v) + (q - 1) * m
    BY <1>1, <1>6, <1>7, <1>10
  <2> QED BY <2>1, <1>6 DEF m
<1>11. CASE wrap(v) = r
  <2>1. v = wrap(v) + q * m
    BY <1>7, <1>11 DEF w
  <2> QED BY <2>1 DEF m
<1> QED BY <1>8, <1>9, <1>10, <1>11

\* So a result is congruent to what it was wrapped from,
LEMMA WrapCongruent ==
    ASSUME NEW v \in Int
    PROVE  Congruent(wrap(v), v)
<1>1. wrap(v) \in Word
  BY WrapIsWord
<1>2. PICK c \in Int : v = wrap(v) + c * MODULUS
  BY WrapSubtracts
<1> DEFINE m == MODULUS
           d == -c
           w == c * m
           u == wrap(v)
<1>3. m \in Nat \ {0} /\ u \in Int
  BY <1>1, ModulusIsPower, MaxValue DEF Word
<1>4. v = u + w
  BY <1>2
<1> HIDE DEF m, u
<1>5. w \in Int /\ d * m = -w /\ d \in Int
  BY <1>3
<1> HIDE DEF w
<1>6. u - v = d * m
  BY <1>3, <1>4, <1>5
<1>7. (u - v) % m = 0
  BY <1>3, <1>5, <1>6, MultipleRem
<1> QED BY <1>1, <1>7 DEF Congruent, u, m

\* and it is the only such word.
LEMMA WrapIsOnly ==
    ASSUME NEW u \in Word, NEW c \in Int
    PROVE  wrap(u + c * MODULUS) = u
<1> DEFINE m == MODULUS
           h == HALF_MODULUS
           v == u + c * m
           w == wrap(v)
<1>1. m \in Nat \ {0} /\ m = 2 * h + 1 /\ h \in Nat /\ u \in -h .. h /\ Word = -h .. h
  BY ModulusIsPower, MaxValue DEF MODULUS, HALF_MODULUS, Word, MIN_VALUE
<1> HIDE DEF m, h
<1>2. v \in Int
  BY <1>1
<1>3. w \in -h .. h
  BY <1>1, <1>2, WrapIsWord
<1>4. PICK q \in Int : v = w + q * m
  BY <1>2, WrapSubtracts DEF m
<1> DEFINE a == c * m
           b == q * m
<1>5. a \in Int /\ b \in Int /\ (q - c) * m = b - a /\ q - c \in Int
  BY <1>1
<1>6. u + a = w + b
  BY <1>4
<1> HIDE DEF a, b, w, v
<1>7. (q - c) * m < m /\ -m < (q - c) * m
  BY <1>1, <1>3, <1>5, <1>6
<1>8. q - c = 0
  BY <1>1, <1>5, <1>7, SmallMultiple
<1>9. (q - c) * m = 0
  BY <1>1, <1>8
<1>10. w = u
  BY <1>1, <1>3, <1>5, <1>6, <1>9
<1> QED BY <1>10 DEF w, v, m

\* Every arithmetic result of the ALU is congruent to the exact one.
LEMMA ModularLaws ==
    ASSUME NEW x \in Word, NEW y \in Word
    PROVE  /\ Congruent(add(x, y), x + y) /\ Congruent(sub(x, y), x - y)
           /\ Congruent(mul(x, y), x * y) /\ MODULUS = power_of_three(WIDTH)
<1>1. x \in Int /\ y \in Int
  BY MaxValue DEF Word
<1>2. x + y \in Int /\ x - y \in Int /\ x * y \in Int
  BY <1>1
<1> QED BY <1>2, WrapCongruent, ModulusIsPower DEF add, sub, mul

Negated(t) == [i \in TritIndex |-> -t[i]]

\* Negating every trit negates the number.
LEMMA NegatedIsTrits ==
    ASSUME NEW t \in Trits
    PROVE  Negated(t) \in Trits /\ to_integer(Negated(t)) = -to_integer(t)
<1> DEFINE u == Negated(t)
           a == Accumulated(t)
           b == Accumulated(u)
           S == {k \in 0 .. WIDTH : b[k] = -a[k]}
<1>1. \A i \in TritIndex : t[i] \in {-1, 0, 1}
  BY DEF Trits, Trit
<1>2. u \in Trits /\ \A i \in TritIndex : u[i] = -t[i]
  BY <1>1 DEF Negated, Trits, Trit
<1> HIDE DEF u
<1>3. /\ a \in [0 .. WIDTH -> Int] /\ a[0] = 0 /\ \A k \in 0 .. WIDTH - 1 : a[k + 1] = a[k] * 3 + t[k]
      /\ b[0] = 0 /\ \A k \in 0 .. WIDTH - 1 : b[k + 1] = b[k] * 3 + u[k]
      /\ WIDTH \in Nat /\ WIDTH \in 0 .. WIDTH /\ 0 \in 0 .. WIDTH /\ TritIndex = 0 .. WIDTH - 1
  BY <1>2, TritSums
<1>4. to_integer(t) = a[WIDTH] /\ to_integer(u) = b[WIDTH]
  BY DEF to_integer
<1> HIDE DEF a, b
<1>5. 0 \in S
  BY <1>3
<1>6. ASSUME NEW k \in 0 .. WIDTH - 1, k \in S PROVE k + 1 \in S
  <2>1. k + 1 \in 0 .. WIDTH /\ k \in 0 .. WIDTH /\ k \in TritIndex
    BY <1>3
  <2>2. b[k] = -a[k] /\ a[k] \in Int /\ u[k] = -t[k] /\ t[k] \in {-1, 0, 1}
    BY <1>1, <1>2, <1>3, <1>6, <2>1
  <2>3. a[k + 1] = a[k] * 3 + t[k] /\ b[k + 1] = b[k] * 3 + u[k]
    BY <1>3
  <2>4. b[k + 1] = -a[k + 1]
    BY <2>2, <2>3
  <2> QED BY <2>1, <2>4
<1>7. \A k \in S : b[k] = -a[k]
  OBVIOUS
<1> HIDE DEF S
<1>8. 0 .. WIDTH \subseteq S
  BY <1>3, <1>5, <1>6, UpTo
<1> QED BY <1>2, <1>3, <1>4, <1>7, <1>8 DEF u

\* TNOT negates the number and every trit.
LEMMA NotNegates ==
    ASSUME NEW x \in Word
    PROVE  tnot(x) = -x /\ tnot(x) \in Word /\ from_integer(tnot(x)) = Negated(from_integer(x))
<1> DEFINE t == from_integer(x)
<1>1. t \in Trits
  BY FromIntegerIsTrits, MaxValue DEF Word
<1>2. tnot(x) = to_integer(Negated(t))
  BY DEF tnot, Negated
<1>3. to_integer(t) = x
  BY RoundTrip
<1> HIDE DEF t
<1>4. tnot(x) = -x /\ from_integer(tnot(x)) = Negated(t)
  BY <1>1, <1>2, <1>3, NegatedIsTrits, TritsRoundTrip
<1> QED BY <1>4, LogicIsWord DEF t

\* TAND and TOR are each other's dual, trit by trit.
LEMMA DeMorgan ==
    ASSUME NEW x \in Word, NEW y \in Word
    PROVE  tnot(tand(x, y)) = tor(tnot(x), tnot(y))
<1> DEFINE l == from_integer(x)
           r == from_integer(y)
           a == [i \in TritIndex |-> IF l[i] < r[i] THEN l[i] ELSE r[i]]
           nl == Negated(l)
           nr == Negated(r)
           o == [i \in TritIndex |-> IF nl[i] > nr[i] THEN nl[i] ELSE nr[i]]
<1>1. \A i \in TritIndex : l[i] \in {-1, 0, 1} /\ r[i] \in {-1, 0, 1}
  BY TritsOf
<1>2. tand(x, y) = to_integer(a)
  BY DEF tand
<1>3. from_integer(tnot(x)) = nl /\ from_integer(tnot(y)) = nr
  BY NotNegates
<1>4. tor(tnot(x), tnot(y)) = to_integer(o)
  BY <1>3 DEF tor
<1> HIDE DEF l, r
<1>5. a \in Trits
  BY <1>1 DEF Trits, Trit
<1>6. \A i \in TritIndex : nl[i] = -l[i] /\ nr[i] = -r[i]
  BY DEF Negated
<1> HIDE DEF nl, nr
<1>7. ASSUME NEW i \in TritIndex PROVE -a[i] = o[i]
  <2> DEFINE p == l[i]
             q == r[i]
  <2>1. a[i] = (IF p < q THEN p ELSE q) /\ o[i] = (IF -p > -q THEN -p ELSE -q)
    BY <1>6
  <2>2. p \in {-1, 0, 1} /\ q \in {-1, 0, 1}
    BY <1>1
  <2> HIDE DEF p, q, a, o
  <2> QED BY <2>1, <2>2
<1>8. Negated(a) = o
  <2>1. Negated(a) = [i \in TritIndex |-> -a[i]] /\ o = [i \in TritIndex |-> o[i]]
    BY DEF Negated
  <2> HIDE DEF a, o
  <2> QED BY <1>7, <2>1
<1> HIDE DEF a, o
<1>9. tand(x, y) \in Word
  BY LogicIsWord
<1>10. from_integer(tand(x, y)) = a
  BY <1>2, <1>5, TritsRoundTrip
<1>11. tnot(tand(x, y)) = to_integer(Negated(a))
  <2>1. tnot(tand(x, y)) = to_integer(Negated(from_integer(tand(x, y))))
    BY DEF tnot, Negated
  <2> QED BY <2>1, <1>10
<1> QED BY <1>4, <1>8, <1>11

\* TXOR compares: it is zero on a pair of equal words and on no other.
LEMMA ExclusiveOr ==
    ASSUME NEW x \in Word, NEW y \in Word
    PROVE  txor(x, y) = txor(y, x) /\ (txor(x, y) = 0 <=> x = y)
<1> DEFINE l == from_integer(x)
           r == from_integer(y)
           a == [i \in TritIndex |-> Disagreement(l[i], r[i])]
           b == [i \in TritIndex |-> Disagreement(r[i], l[i])]
<1>1. \A i \in TritIndex : l[i] \in {-1, 0, 1} /\ r[i] \in {-1, 0, 1}
  BY TritsOf
<1>2. txor(x, y) = to_integer(a) /\ txor(y, x) = to_integer(b)
  BY DEF txor
<1>3. l \in Trits /\ r \in Trits /\ to_integer(l) = x /\ to_integer(r) = y
  BY FromIntegerIsTrits, RoundTrip, MaxValue DEF Word
<1> HIDE DEF l, r
<1>4. \A i \in TritIndex : Disagreement(l[i], r[i]) = Disagreement(r[i], l[i])
  BY <1>1 DEF Disagreement
<1>5. a = b
  BY <1>4
<1>6. a \in Trits
  BY <1>1 DEF Trits, Trit, Disagreement
<1>7. \A i \in TritIndex : a[i] = 0 <=> l[i] = r[i]
  BY <1>1 DEF Disagreement
<1>8. a = Zeros <=> \A i \in TritIndex : a[i] = 0
  BY DEF Zeros
<1> HIDE DEF a, b
<1>9. to_integer(a) = 0 <=> a = Zeros
  BY <1>6, ZerosAreZero, TritsRoundTrip
<1>10. l = r <=> \A i \in TritIndex : l[i] = r[i]
  BY <1>3 DEF Trits
<1>11. x = y <=> l = r
  BY <1>3 DEF l, r
<1> QED BY <1>2, <1>5, <1>7, <1>8, <1>9, <1>10, <1>11

\* The trits of x moved by an amount.
Moved(t, amount) == [i \in TritIndex |-> IF i + amount \in TritIndex THEN t[i + amount] ELSE 0]

\* A shift by less than a word moves the trits.
LEMMA ShiftMoves ==
    ASSUME NEW x \in Word, NEW n \in Int, NEW t, t = from_integer(x), NEW s, s = Moved(t, n)
    PROVE  /\ t \in Trits /\ s \in Trits /\ to_integer(t) = x /\ shift(x, n) = to_integer(s)
           /\ \A i \in 0 .. WIDTH - 1 :
                 s[i] = IF i + n \in 0 .. WIDTH - 1 THEN t[i + n] ELSE 0
           /\ WIDTH \in Nat
<1>1. t \in Trits /\ to_integer(t) = x
  BY FromIntegerIsTrits, RoundTrip, MaxValue DEF Word
<1>2. \A i \in TritIndex : t[i] \in {-1, 0, 1}
  BY <1>1 DEF Trits, Trit
<1>3. s \in Trits
  BY <1>2 DEF Moved, Trits, Trit
<1>4. shift(x, n) = to_integer(s)
  BY DEF shift, Moved
<1>5. WIDTH \in Nat /\ TritIndex = 0 .. WIDTH - 1
  BY WidthAssumption DEF TritIndex
<1>6. \A i \in TritIndex : s[i] = IF i + n \in TritIndex THEN t[i + n] ELSE 0
  BY DEF Moved
<1> QED BY <1>1, <1>3, <1>4, <1>5, <1>6

\* A longer shift leaves none of them.
LEMMA ShiftedOut ==
    ASSUME NEW x \in Word, NEW n \in Int, n >= WIDTH \/ n <= -WIDTH
    PROVE  shift(x, n) = 0
<1> DEFINE t == from_integer(x)
           s == Moved(t, n)
<1>1. /\ s \in Trits /\ shift(x, n) = to_integer(s) /\ WIDTH \in Nat
      /\ \A i \in 0 .. WIDTH - 1 : s[i] = IF i + n \in 0 .. WIDTH - 1 THEN t[i + n] ELSE 0
  BY ShiftMoves
<1> HIDE DEF s, t
<1>2. \A i \in 0 .. WIDTH - 1 : ~(i + n \in 0 .. WIDTH - 1)
  BY <1>1
<1>3. \A i \in 0 .. WIDTH - 1 : s[i] = 0
  BY <1>1, <1>2
<1> QED BY <1>1, <1>3, ZerosSum DEF to_integer

\* To the right: the trits kept are the quotient, the trits lost less than half of the divisor.
LEMMA ShiftRight ==
    ASSUME NEW x \in Word, NEW k \in 1 .. WIDTH - 1, NEW p, p = power_of_three(k), NEW n, n = -k
    PROVE  2 * (x - shift(x, n) * p) < p /\ -2 * (x - shift(x, n) * p) < p
<1> DEFINE t == from_integer(x)
           s == Moved(t, n)
           h == WIDTH - k
           l == to_integer(LowTrits(t, h))
<1>0. n \in Int
  OBVIOUS
<1>1. /\ s \in Trits /\ t \in Trits /\ shift(x, n) = to_integer(s) /\ WIDTH \in Nat /\ to_integer(t) = x
      /\ \A i \in 0 .. WIDTH - 1 : s[i] = IF i + n \in 0 .. WIDTH - 1 THEN t[i + n] ELSE 0
  BY <1>0, ShiftMoves
<1> HIDE DEF s, t
<1>2. h \in 0 .. WIDTH /\ k + h = WIDTH /\ WIDTH - h = k /\ h \in Nat /\ k \in 0 .. WIDTH /\ 0 \in 0 .. WIDTH
      /\ 0 + h = h /\ 0 + h <= WIDTH
  BY <1>1
<1>3. Accumulated(s)[k] = 0
  <2>1. \A i \in 0 .. k - 1 : i \in 0 .. WIDTH - 1 /\ ~(i + n \in 0 .. WIDTH - 1)
    BY <1>1
  <2>2. \A i \in 0 .. k - 1 : s[i] = 0
    BY <1>1, <2>1
  <2> QED BY <1>1, <1>2, <2>2, ZerosSum
<1>4. Accumulated(t)[0] = 0
  BY <1>1, TritSums
<1>5. \A m \in 0 .. h - 1 : s[k + m] = t[0 + m]
  <2>1. \A m \in 0 .. h - 1 : k + m \in 0 .. WIDTH - 1 /\ (k + m) + n \in 0 .. WIDTH - 1 /\ (k + m) + n = 0 + m
    BY <1>1, <1>2
  <2> QED BY <1>1, <2>1
<1> HIDE DEF h
<1>6. Accumulated(s)[k + h] = Accumulated(t)[0 + h]
  BY <1>1, <1>2, <1>3, <1>4, <1>5, SumsAgree
<1>7. shift(x, n) = Accumulated(t)[h]
  BY <1>1, <1>2, <1>6 DEF to_integer
<1>8. /\ l \in Int /\ p \in Nat \ {0} /\ Accumulated(t)[h] \in Int
      /\ x = Accumulated(t)[h] * p + l /\ 2 * l < p /\ -2 * l < p
  BY <1>1, <1>2, Split
<1> HIDE DEF l
<1> DEFINE a == Accumulated(t)[h]
           c == a * p
<1>9. c \in Int /\ x = c + l /\ shift(x, n) * p = c
  BY <1>7, <1>8
<1> HIDE DEF c
<1>10. x - shift(x, n) * p = l
  BY <1>8, <1>9
<1> QED BY <1>8, <1>10

\* To the left: the trits lost count whole multiples of MODULUS.
LEMMA ShiftLeft ==
    ASSUME NEW x \in Word, NEW k \in 0 .. WIDTH - 1
    PROVE  shift(x, k) = wrap(x * power_of_three(k))
<1> DEFINE t == from_integer(x)
           s == Moved(t, k)
           h == WIDTH - k
           l == to_integer(LowTrits(t, k))
           r == to_integer(LowTrits(s, h))
           p == power_of_three(k)
           q == power_of_three(h)
           u == LowTrits(t, k)
<1>0. k \in Int
  OBVIOUS
<1>1. /\ s \in Trits /\ t \in Trits /\ shift(x, k) = to_integer(s) /\ WIDTH \in Nat /\ to_integer(t) = x
      /\ \A i \in 0 .. WIDTH - 1 : s[i] = IF i + k \in 0 .. WIDTH - 1 THEN t[i + k] ELSE 0
  BY <1>0, ShiftMoves
<1>2. /\ h \in 0 .. WIDTH /\ k + h = WIDTH /\ h + k = WIDTH /\ WIDTH - h = k /\ h \in Nat /\ k \in 0 .. WIDTH
      /\ 0 \in 0 .. WIDTH /\ 0 + h = h /\ 0 + h <= WIDTH /\ k \in Nat /\ k + h <= WIDTH
  BY <1>1
<1> HIDE DEF s, t
<1>3. u \in Trits /\ \A i \in 0 .. WIDTH - 1 : u[i] = IF i < k THEN 0 ELSE t[i]
  <2>1. \A i \in TritIndex : u[i] = IF i < k THEN 0 ELSE t[i]
    BY DEF LowTrits
  <2> QED BY <1>1, <2>1, LowTritsAreTrits DEF TritIndex
<1>4. l = Accumulated(u)[WIDTH]
  BY DEF to_integer
<1>5. r = 0
  <2> DEFINE v == LowTrits(s, h)
  <2>1. v \in Trits /\ \A i \in 0 .. WIDTH - 1 : v[i] = IF i < h THEN 0 ELSE s[i]
    <3>1. \A i \in TritIndex : v[i] = IF i < h THEN 0 ELSE s[i]
      BY DEF LowTrits
    <3> QED BY <1>1, <3>1, LowTritsAreTrits DEF TritIndex
  <2> HIDE DEF v
  <2>2. \A i \in 0 .. WIDTH - 1 : ~(i < h) => ~(i + k \in 0 .. WIDTH - 1)
    BY <1>1, <1>2
  <2>3. \A i \in 0 .. WIDTH - 1 : v[i] = 0
    BY <1>1, <2>1, <2>2
  <2>4. WIDTH \in 0 .. WIDTH
    BY <1>1
  <2> QED BY <2>1, <2>3, <2>4, ZerosSum DEF v, to_integer
<1> HIDE DEF u, l, r
<1>6. Accumulated(u)[k] = 0 /\ Accumulated(s)[0] = 0
  <2>1. \A i \in 0 .. k - 1 : u[i] = 0
    BY <1>1, <1>2, <1>3
  <2> QED BY <1>1, <1>2, <1>3, <2>1, ZerosSum, TritSums
<1>7. \A m \in 0 .. h - 1 : s[0 + m] = u[k + m]
  <2>1. \A m \in 0 .. h - 1 : 0 + m \in 0 .. WIDTH - 1 /\ (0 + m) + k \in 0 .. WIDTH - 1
                              /\ (0 + m) + k = k + m /\ k + m \in 0 .. WIDTH - 1 /\ ~(k + m < k)
    BY <1>1, <1>2
  <2> QED BY <1>1, <1>3, <2>1
<1> HIDE DEF h
<1>8. Accumulated(s)[0 + h] = Accumulated(u)[k + h]
  BY <1>1, <1>2, <1>3, <1>6, <1>7, SumsAgree
<1>9. Accumulated(s)[h] = l
  BY <1>2, <1>4, <1>8
<1> DEFINE a == Accumulated(t)[k]
<1>10. l \in Int /\ q \in Nat \ {0} /\ a \in Int /\ x = a * q + l
  BY <1>1, <1>2, Split DEF l, u
<1>11. p \in Nat \ {0} /\ shift(x, k) = l * p
  <2>1. p \in Nat \ {0} /\ to_integer(s) = Accumulated(s)[h] * p + r
    BY <1>1, <1>2, Split DEF r
  <2> HIDE DEF p
  <2>2. l * p \in Int
    BY <1>10, <2>1
  <2> QED BY <1>1, <1>5, <1>9, <2>1, <2>2
<1>12. q * p = MODULUS
  BY <1>2, PowerAdds, ModulusIsPower
<1>13. shift(x, k) \in Word
  BY <1>1, ToIntegerIsWord
<1> HIDE DEF a, p, q
<1>14. x * p = shift(x, k) + a * MODULUS
  <2> DEFINE b == a * q
  <2>1. b \in Int /\ x = b + l /\ b * p = a * MODULUS
    BY <1>10, <1>11, <1>12, Associates
  <2> HIDE DEF b
  <2>2. \A y, z, w \in Int : (y + z) * w = z * w + y * w
    OBVIOUS
  <2> QED BY <1>10, <1>11, <2>1, <2>2
<1> QED BY <1>10, <1>13, <1>14, WrapIsOnly DEF p
-----------------------------------------------------------------------------
\* The laws hold at every pair of words.
LEMMA PairsOfWords == AlgebraSpec => [](lhs \in Word /\ rhs \in Word)
<1> DEFINE Inv == lhs \in Word /\ rhs \in Word
<1>1. AlgebraInit => Inv
  BY DEF AlgebraInit
<1>2. Inv /\ [AlgebraNext]_operands => Inv'
  BY DEF AlgebraNext, operands
<1> QED BY <1>1, <1>2, PTL DEF AlgebraSpec

\* ADD, SUB and MUL of alu.hpp return the one word congruent to the exact result:
\* one host remainder and one correction in wrap are enough for every width, and
\* from_integer never throws inside these noexcept operators.
THEOREM WrapsModulo == AlgebraSpec => []ArithmeticIsModular
<1>1. lhs \in Word /\ rhs \in Word => ArithmeticIsModular
  BY ModularLaws DEF ArithmeticIsModular
<1> QED BY <1>1, PairsOfWords, PTL

\* The trit-wise operators and the arithmetic agree at every width: TNOT negates,
\* SUB adds the inverted operand, TAND and TOR are dual, and TXOR is symmetric
\* and zero exactly on equal words.
THEOREM TritsObeyLaws == AlgebraSpec => []TritwiseLaws
<1>1. ASSUME lhs \in Word, rhs \in Word PROVE TritwiseLaws
  <2>1. tnot(rhs) = -rhs /\ tnot(lhs) = -lhs
    BY <1>1, NotNegates
  <2>2. lhs - rhs = lhs + (-rhs)
    BY <1>1, MaxValue DEF Word
  <2>3. sub(lhs, rhs) = add(lhs, tnot(rhs))
    BY <2>1, <2>2 DEF sub, add
  <2> QED BY <1>1, <2>1, <2>3, DeMorgan, ExclusiveOr DEF TritwiseLaws
<1> QED BY <1>1, PairsOfWords, PTL

\* SHF of alu.hpp, which moves trits, scales by a power of three at every width:
\* to the left modulo the number of words, to the right rounded to nearest, and
\* a distance of WIDTH or more leaves zero.
THEOREM ShiftsScale == AlgebraSpec => []ShiftIsScaling
<1>1. ASSUME lhs \in Word, rhs \in Word PROVE ShiftIsScaling
  <2>1. rhs \in Int /\ WIDTH \in Nat
    BY <1>1, MaxValue, WidthAssumption DEF Word
  <2>2. rhs >= WIDTH \/ rhs <= -WIDTH => shift(lhs, rhs) = 0
    BY <1>1, <2>1, ShiftedOut
  <2>3. rhs \in 0 .. WIDTH - 1 => shift(lhs, rhs) = wrap(lhs * power_of_three(rhs))
    BY <1>1, ShiftLeft
  <2>4. ASSUME -rhs \in 1 .. WIDTH - 1
        PROVE  /\ 2 * (lhs - shift(lhs, rhs) * power_of_three(-rhs)) < power_of_three(-rhs)
               /\ -2 * (lhs - shift(lhs, rhs) * power_of_three(-rhs)) < power_of_three(-rhs)
    <3> DEFINE k == -rhs
    <3>1. k \in 1 .. WIDTH - 1 /\ rhs = -k
      BY <2>1, <2>4
    <3> HIDE DEF k
    <3>2. /\ 2 * (lhs - shift(lhs, rhs) * power_of_three(k)) < power_of_three(k)
          /\ -2 * (lhs - shift(lhs, rhs) * power_of_three(k)) < power_of_three(k)
      BY <1>1, <3>1, ShiftRight
    <3> QED BY <3>2 DEF k
  <2> QED BY <2>2, <2>3, <2>4 DEF ShiftIsScaling
<1> QED BY <1>1, PairsOfWords, PTL

-----------------------------------------------------------------------------
(* The file's words. *)

\* The corrected host remainder is the balanced one, and what remains is what Word keeps.
LEMMA HostRemainder ==
    ASSUME NEW n \in Int
    PROVE  BalancedRemainder(n) = LowTrit(n) /\ (n - BalancedRemainder(n)) \div 3 = Shifted(n)
<1>1. BalancedRemainder(n) = LowTrit(n)
  BY DEF BalancedRemainder, LowTrit, CRem
<1>2. (n - LowTrit(n)) \div 3 = Shifted(n)
  BY DEF LowTrit, Shifted
<1> QED BY <1>1, <1>2

\* encode_word and Word::from_integer write the same trits.
LEMMA FormatIsWord ==
    ASSUME NEW v \in Int
    PROVE  encode_word(v) = from_integer(v)
<1> DEFINE Eq(f) == f = [k \in 0 .. WIDTH |-> IF k = 0 THEN v
                           ELSE (f[k - 1] - BalancedRemainder(f[k - 1])) \div 3]
           p == CHOOSE f : Eq(f)
           r == Remaining(v)
           S == {k \in 0 .. WIDTH : p[k] = r[k]}
<1>w. WIDTH \in Nat /\ 0 \in 0 .. WIDTH
  BY WidthAssumption
<1>1. /\ r \in [0 .. WIDTH -> Int] /\ r[0] = v
      /\ \A k \in 0 .. WIDTH - 1 : r[k + 1] = Shifted(r[k])
  BY RemainingDef
<1>2. encode_word(v) = [i \in TritIndex |-> BalancedRemainder(p[WIDTH - 1 - i])]
  BY DEF encode_word
<1>3. from_integer(v) = [i \in TritIndex |-> LowTrit(r[WIDTH - 1 - i])]
  BY DEF from_integer
<1> HIDE DEF r
<1>4. ASSUME NEW k \in 0 .. WIDTH, k # 0
      PROVE  r[k] = (r[k - 1] - BalancedRemainder(r[k - 1])) \div 3
  <2>1. k - 1 \in 0 .. WIDTH - 1 /\ (k - 1) + 1 = k /\ k - 1 \in 0 .. WIDTH
    BY <1>w, <1>4
  <2>2. r[k - 1] \in Int /\ r[k] = Shifted(r[k - 1])
    BY <1>1, <2>1
  <2> QED BY <2>2, HostRemainder
<1>5. Eq(r)
  BY <1>1, <1>4
<1>6. Eq(p)
  BY <1>5
<1>7. \A k \in 0 .. WIDTH : p[k] = IF k = 0 THEN v ELSE (p[k - 1] - BalancedRemainder(p[k - 1])) \div 3
  BY <1>6
<1> HIDE DEF p
<1>8. 0 \in S
  BY <1>w, <1>1, <1>7
<1>9. ASSUME NEW k \in 0 .. WIDTH - 1, k \in S PROVE k + 1 \in S
  <2>1. k + 1 \in 0 .. WIDTH /\ k + 1 # 0 /\ (k + 1) - 1 = k /\ k \in 0 .. WIDTH
    BY <1>w
  <2>2. p[k] = r[k]
    BY <1>9
  <2> QED BY <1>4, <1>7, <2>1, <2>2
<1>10. \A k \in S : p[k] = r[k]
  OBVIOUS
<1> HIDE DEF S
<1>11. 0 .. WIDTH \subseteq S
  BY <1>w, <1>8, <1>9, UpTo
<1>12. ASSUME NEW i \in TritIndex
       PROVE  BalancedRemainder(p[WIDTH - 1 - i]) = LowTrit(r[WIDTH - 1 - i])
  <2>1. WIDTH - 1 - i \in 0 .. WIDTH
    BY <1>w DEF TritIndex
  <2> QED BY <1>1, <1>10, <1>11, <2>1, HostRemainder
<1> QED BY <1>2, <1>3, <1>12
-----------------------------------------------------------------------------
(* Decoded instructions. *)

\* Each opcode of the enum has one place in its order.
LEMMA MnemonicsDiffer ==
    \A j, k \in 1 .. 27 : Mnemonics[j] = Mnemonics[k] => j = k
  BY DEF Mnemonics

\* Reading the three trits of an opcode and writing it again finds the same trits.
LEMMA OpcodeRoundTrip ==
    ASSUME NEW a \in {-1, 0, 1}, NEW b \in {-1, 0, 1}, NEW c \in {-1, 0, 1},
           NEW m, m = Mnemonics[9 * a + 3 * b + c + 14]
    PROVE  m \in Opcode /\ OpcodeTrits(m) = << a, b, c >>
<1> DEFINE k == 9 * a + 3 * b + c + 14
           j == CHOOSE h \in 1 .. 27 : Mnemonics[h] = m
           n == j - 14
<1>1. k \in 1 .. 27
  OBVIOUS
<1>2. m \in Opcode
  BY <1>1 DEF Opcode
<1>3. j \in 1 .. 27 /\ Mnemonics[j] = m
  BY <1>1
<1>4. j = k
  BY <1>1, <1>3, MnemonicsDiffer
<1>5. OpcodeTrits(m) = << LowTrit(Shifted(Shifted(n))), LowTrit(Shifted(n)), LowTrit(n) >>
  BY DEF OpcodeTrits
<1> HIDE DEF j
<1>6. n = (3 * a + b) * 3 + c
  BY <1>4
<1> HIDE DEF n
<1>7. \A x \in Int, y \in {-1, 0, 1} : LowTrit(x * 3 + y) = y /\ Shifted(x * 3 + y) = x
  BY DEF LowTrit, Shifted
<1>8. LowTrit(n) = c /\ Shifted(n) = 3 * a + b
  <2>1. 3 * a + b \in Int
    OBVIOUS
  <2> QED BY <1>6, <1>7, <2>1
<1>9. LowTrit(Shifted(n)) = b /\ Shifted(Shifted(n)) = a
  <2>1. Shifted(n) = a * 3 + b
    BY <1>8
  <2>2. a \in Int
    OBVIOUS
  <2>3. LowTrit(a * 3 + b) = b /\ Shifted(a * 3 + b) = a
    BY <1>7, <2>2
  <2> QED BY <2>1, <2>3
<1>10. LowTrit(Shifted(Shifted(n))) = a
  <2>1. LowTrit(a) = a
    BY DEF LowTrit
  <2> QED BY <1>9, <2>1
<1> QED BY <1>2, <1>5, <1>8, <1>9, <1>10

\* A decoded register has the two trits it was read from.
LEMMA RegisterRoundTrip ==
    ASSUME NEW t, NEW o, t[o] \in {-1, 0, 1}, t[o + 1] \in {-1, 0, 1}
    PROVE  /\ decode_register(t, o) \in Register
           /\ REGISTER_ENCODING[decode_register(t, o)] = << t[o], t[o + 1] >>
<1>1. \E reg \in Register : REGISTER_ENCODING[reg] = << t[o], t[o + 1] >>
  BY RegisterTableIsTotal
<1> QED BY <1>1 DEF decode_register

\* The opcode and the registers of a word, written one after the other.
HeadOf(t) == OpcodeTrits(opcode(t)) \o REGISTER_ENCODING[decode_register(t, 3)]
               \o REGISTER_ENCODING[decode_register(t, 5)] \o REGISTER_ENCODING[decode_register(t, 7)]

\* The head of an instruction is the first nine trits of its word.
LEMMA HeadTrits ==
    ASSUME NEW t \in Trits
    PROVE  /\ opcode(t) \in Opcode
           /\ \A o \in {3, 5, 7} : decode_register(t, o) \in Register
           /\ \A i \in 0 .. 8 : HeadOf(t)[i + 1] = t[i]
<1> DEFINE m == opcode(t)
           r1 == decode_register(t, 3)
           r2 == decode_register(t, 5)
           r3 == decode_register(t, 7)
<1>0. m = opcode(t) /\ r1 = decode_register(t, 3) /\ r2 = decode_register(t, 5)
      /\ r3 = decode_register(t, 7)
  OBVIOUS
<1>h. HeadOf(t) = OpcodeTrits(m) \o REGISTER_ENCODING[r1] \o REGISTER_ENCODING[r2]
                    \o REGISTER_ENCODING[r3]
  BY DEF HeadOf
<1> HIDE DEF m, r1, r2, r3
<1>1. \A i \in 0 .. 8 : t[i] \in {-1, 0, 1}
  BY WidthAssumption, FormatAssumption DEF Trits, Trit, TritIndex, CARGO_OFFSET
<1>2. m \in Opcode /\ OpcodeTrits(m) = << t[0], t[1], t[2] >>
  <2>1. t[0] \in {-1, 0, 1} /\ t[1] \in {-1, 0, 1} /\ t[2] \in {-1, 0, 1}
    BY <1>1
  <2>2. m = Mnemonics[9 * t[0] + 3 * t[1] + t[2] + 14]
    BY <1>0 DEF opcode
  <2> QED BY <2>1, <2>2, OpcodeRoundTrip
<1>3. /\ r1 \in Register /\ REGISTER_ENCODING[r1] = << t[3], t[4] >>
      /\ r2 \in Register /\ REGISTER_ENCODING[r2] = << t[5], t[6] >>
      /\ r3 \in Register /\ REGISTER_ENCODING[r3] = << t[7], t[8] >>
  <2>1. r1 \in Register /\ REGISTER_ENCODING[r1] = << t[3], t[3 + 1] >>
    BY <1>0, <1>1, RegisterRoundTrip
  <2>2. r2 \in Register /\ REGISTER_ENCODING[r2] = << t[5], t[5 + 1] >>
    BY <1>0, <1>1, RegisterRoundTrip
  <2>3. r3 \in Register /\ REGISTER_ENCODING[r3] = << t[7], t[7 + 1] >>
    BY <1>0, <1>1, RegisterRoundTrip
  <2> QED BY <2>1, <2>2, <2>3
<1> DEFINE o == OpcodeTrits(m)
           x == REGISTER_ENCODING[r1]
           y == REGISTER_ENCODING[r2]
           z == REGISTER_ENCODING[r3]
<1>4. o = << t[0], t[1], t[2] >> /\ x = << t[3], t[4] >> /\ y = << t[5], t[6] >> /\ z = << t[7], t[8] >>
  BY <1>2, <1>3
<1> DEFINE a == t[0] b == t[1] c == t[2] d == t[3] e == t[4] f == t[5] g == t[6] h == t[7] i == t[8]
<1> HIDE DEF o, x, y, z, a, b, c, d, e, f, g, h, i
<1>5. /\ Len(o) = 3 /\ o[1] = a /\ o[2] = b /\ o[3] = c /\ Len(x) = 2 /\ x[1] = d /\ x[2] = e
      /\ Len(y) = 2 /\ y[1] = f /\ y[2] = g /\ Len(z) = 2 /\ z[1] = h /\ z[2] = i
      /\ o \in Seq(Trit) /\ x \in Seq(Trit) /\ y \in Seq(Trit) /\ z \in Seq(Trit)
  <2>1. /\ a \in Trit /\ b \in Trit /\ c \in Trit /\ d \in Trit /\ e \in Trit
        /\ f \in Trit /\ g \in Trit /\ h \in Trit /\ i \in Trit
    BY <1>1 DEF Trit, a, b, c, d, e, f, g, h, i
  <2>2. o = << a, b, c >> /\ x = << d, e >> /\ y = << f, g >> /\ z = << h, i >>
    BY <1>4 DEF a, b, c, d, e, f, g, h, i
  <2> QED BY <2>1, <2>2
<1> DEFINE s == o \o x \o y \o z
<1>6. /\ s[1] = a /\ s[2] = b /\ s[3] = c /\ s[4] = d /\ s[5] = e
      /\ s[6] = f /\ s[7] = g /\ s[8] = h /\ s[9] = i
  <2> DEFINE u == o \o x
             v == u \o y
             w == v \o z
  <2>1. /\ u \in Seq(Trit) /\ Len(u) = 5
        /\ u[1] = a /\ u[2] = b /\ u[3] = c /\ u[4] = d /\ u[5] = e
    <3>1. o \in Seq(Trit) /\ x \in Seq(Trit) /\ Len(o) = 3 /\ Len(x) = 2
      BY <1>5
    <3>2. u \in Seq(Trit) /\ Len(u) = Len(o) + Len(x)
      BY <3>1, ConcatProperties
    <3>3. \A k \in 1 .. Len(o) + Len(x) :
             u[k] = IF k <= Len(o) THEN o[k] ELSE x[k - Len(o)]
      BY <3>1, ConcatProperties
    <3> HIDE DEF u
    <3>4. \A k \in 1 .. 5 : u[k] = IF k <= 3 THEN o[k] ELSE x[k - 3]
      BY <3>1, <3>3
    <3>5. /\ u[1] = o[1] /\ u[2] = o[2] /\ u[3] = o[3]
          /\ u[4] = x[1] /\ u[5] = x[2]
      BY <3>4
    <3> QED BY <3>1, <3>2, <3>5, <1>5
  <2> HIDE DEF u
  <2>2. /\ v \in Seq(Trit) /\ Len(v) = 7
        /\ v[1] = a /\ v[2] = b /\ v[3] = c /\ v[4] = d /\ v[5] = e /\ v[6] = f /\ v[7] = g
    <3>1. u \in Seq(Trit) /\ y \in Seq(Trit) /\ Len(u) = 5 /\ Len(y) = 2
      BY <1>5, <2>1
    <3>2. v \in Seq(Trit) /\ Len(v) = Len(u) + Len(y)
      BY <3>1, ConcatProperties
    <3>3. \A k \in 1 .. Len(u) + Len(y) :
             v[k] = IF k <= Len(u) THEN u[k] ELSE y[k - Len(u)]
      BY <3>1, ConcatProperties
    <3> HIDE DEF v
    <3>4. \A k \in 1 .. 7 : v[k] = IF k <= 5 THEN u[k] ELSE y[k - 5]
      BY <3>1, <3>3
    <3>5. /\ v[1] = u[1] /\ v[2] = u[2] /\ v[3] = u[3] /\ v[4] = u[4] /\ v[5] = u[5]
          /\ v[6] = y[1] /\ v[7] = y[2]
      BY <3>4
    <3> QED BY <3>1, <3>2, <3>5, <1>5, <2>1
  <2> HIDE DEF v
  <2>3. /\ w \in Seq(Trit) /\ Len(w) = 9
        /\ w[1] = a /\ w[2] = b /\ w[3] = c /\ w[4] = d /\ w[5] = e /\ w[6] = f /\ w[7] = g /\ w[8] = h /\ w[9] = i
    <3>1. v \in Seq(Trit) /\ z \in Seq(Trit) /\ Len(v) = 7 /\ Len(z) = 2
      BY <1>5, <2>2
    <3>2. w \in Seq(Trit) /\ Len(w) = Len(v) + Len(z)
      BY <3>1, ConcatProperties
    <3>3. \A k \in 1 .. Len(v) + Len(z) :
             w[k] = IF k <= Len(v) THEN v[k] ELSE z[k - Len(v)]
      BY <3>1, ConcatProperties
    <3> HIDE DEF w
    <3>4. \A k \in 1 .. 9 : w[k] = IF k <= 7 THEN v[k] ELSE z[k - 7]
      BY <3>1, <3>3
    <3>5. /\ w[1] = v[1] /\ w[2] = v[2] /\ w[3] = v[3] /\ w[4] = v[4] /\ w[5] = v[5] /\ w[6] = v[6] /\ w[7] = v[7]
          /\ w[8] = z[1] /\ w[9] = z[2]
      BY <3>4
    <3> QED BY <3>1, <3>2, <3>5, <1>5, <2>2
  <2> QED BY <2>3 DEF u, v
<1> HIDE DEF s
<1>7. \A k \in 0 .. 8 : s[k + 1] = t[k]
  <2>1. \A k \in 0 .. 8 : k \in {0, 1, 2, 3, 4, 5, 6, 7, 8}
    OBVIOUS
  <2> QED BY <2>1, <1>6 DEF a, b, c, d, e, f, g, h, i
<1>8. HeadOf(t) = s
  BY <1>h DEF s, o, x, y, z
<1> QED BY <1>0, <1>2, <1>3, <1>7, <1>8

\* Every word is the encoding of what it decodes to.
LEMMA DecodeRoundTrip ==
    ASSUME NEW w \in Word, NEW t, t = from_integer(w), NEW d, d = decode(w),
           NEW c, c = [k \in CargoIndex |-> t[CARGO_OFFSET + k]]
    PROVE  /\ d.opcode \in Opcode /\ {d.rd, d.rs1, d.rs2} \subseteq Register
           /\ encode(d.opcode, d.rd, d.rs1, d.rs2, c) = w
           /\ (w - d.immediate) % power_of_three(CARGO_WIDTH) = 0
<1>1. t \in Trits /\ to_integer(t) = w
  BY FromIntegerIsTrits, RoundTrip, MaxValue DEF Word
<1>2. CARGO_OFFSET = 9 /\ CARGO_WIDTH \in Nat /\ WIDTH = 9 + CARGO_WIDTH /\ WIDTH \in Nat
  BY WidthAssumption, FormatAssumption DEF CARGO_OFFSET, CARGO_WIDTH
<1>3. /\ d.opcode = opcode(t) /\ d.rd = decode_register(t, 3) /\ d.rs1 = decode_register(t, 5)
      /\ d.rs2 = decode_register(t, 7) /\ d.immediate = immediate(t)
  BY DEF decode, RD_OFFSET, RS1_OFFSET, RS2_OFFSET
<1> DEFINE head == HeadOf(t)
           T == [i \in TritIndex |-> IF i < CARGO_OFFSET THEN head[i + 1] ELSE c[i - CARGO_OFFSET]]
<1>4. /\ d.opcode \in Opcode /\ d.rd \in Register /\ d.rs1 \in Register /\ d.rs2 \in Register
      /\ \A i \in 0 .. 8 : head[i + 1] = t[i]
  BY <1>1, <1>3, HeadTrits
<1>5. encode(d.opcode, d.rd, d.rs1, d.rs2, c) = to_integer(T)
  BY <1>3 DEF encode, HeadOf
<1> HIDE DEF head
<1>6. T = t
  <2>1. ASSUME NEW i \in TritIndex PROVE T[i] = t[i]
    <3>1. CASE i < 9
      <4>1. i \in 0 .. 8
        BY <1>2, <3>1 DEF TritIndex
      <4> QED BY <4>1, <3>1, <1>2, <1>4
    <3>2. CASE ~(i < 9)
      <4>1. i - 9 \in CargoIndex /\ 9 + (i - 9) = i
        BY <1>2, <3>2 DEF TritIndex, CargoIndex
      <4> QED BY <4>1, <3>2, <1>2
    <3> QED BY <3>1, <3>2
  <2> QED BY <2>1, <1>1 DEF Trits
<1>7. (w - d.immediate) % power_of_three(CARGO_WIDTH) = 0
  <2> DEFINE k == CARGO_OFFSET
             l == to_integer(LowTrits(t, k))
             p == power_of_three(WIDTH - k)
             a == Accumulated(t)[k]
             q == a * p
  <2>1. immediate(t) = l
    BY DEF immediate, LowTrits
  <2>2. k \in 0 .. WIDTH /\ WIDTH - k = CARGO_WIDTH
    BY <1>2
  <2> HIDE DEF k
  <2>3. l \in Int /\ p \in Nat \ {0} /\ a \in Int /\ w = a * p + l
    BY <1>1, <2>2, Split
  <2> HIDE DEF l, p, a
  <2>4. q \in Int /\ q % p = 0 /\ w = q + l
    BY <2>3, MultipleRem
  <2> HIDE DEF q
  <2>5. w - l = q
    BY <2>3, <2>4
  <2> QED BY <1>3, <2>1, <2>2, <2>4, <2>5 DEF p
<1> QED BY <1>1, <1>4, <1>5, <1>6, <1>7

-----------------------------------------------------------------------------
(* The nine trits of a tryte. *)

\* The places of a tryte's trits.
LEMMA PlacesAre ==
    /\ power_of_three(9) = 19683
    /\ \A i \in 0 .. 8 : /\ Place(i) = power_of_three(8 - i)
                         /\ Place(i) \in {6561, 2187, 729, 243, 81, 27, 9, 3, 1}
<1> DEFINE P(n) == power_of_three(n)
<1>1. \A n \in Nat : P(n + 1) = P(n) * 3
  BY PowerStep
<1>2. P(0) = 1
  BY PowerStep
<1> HIDE DEF P
<1>3. P(1) = 3 /\ P(2) = 9 /\ P(3) = 27
  <2>1. P(0 + 1) = P(0) * 3 /\ P(1 + 1) = P(1) * 3 /\ P(2 + 1) = P(2) * 3
    BY <1>1
  <2> QED BY <1>2, <2>1
<1>4. P(4) = 81 /\ P(5) = 243 /\ P(6) = 729
  <2>1. P(3 + 1) = P(3) * 3 /\ P(4 + 1) = P(4) * 3 /\ P(5 + 1) = P(5) * 3
    BY <1>1
  <2> QED BY <1>3, <2>1
<1>5. P(7) = 2187 /\ P(8) = 6561 /\ P(9) = 19683
  <2>1. P(6 + 1) = P(6) * 3 /\ P(7 + 1) = P(7) * 3 /\ P(8 + 1) = P(8) * 3
    BY <1>1
  <2> QED BY <1>4, <2>1
<1>6. ASSUME NEW i \in 0 .. 8
      PROVE  Place(i) = P(8 - i) /\ Place(i) \in {6561, 2187, 729, 243, 81, 27, 9, 3, 1}
  <2>1. Place(i) = P(8 - i)
    BY DEF Place, TRYTE_WIDTH, P
  <2>2. 8 - i \in {0, 1, 2, 3, 4, 5, 6, 7, 8}
    OBVIOUS
  <2> QED BY <1>2, <1>3, <1>4, <1>5, <2>1, <2>2
<1> QED BY <1>5, <1>6 DEF P

\* n has the digit d at the place p, and r below it, which does not reach half the place.
HasDigit(n, p, d, r) ==
    /\ n = d * p + r /\ n \in Int /\ r \in Int
    /\ d \in {-1, 0, 1}
    /\ 2 * r < p /\ -2 * r < p

\* Tryte::from_integer finds that digit.
LEMMA GreedyFinds ==
    ASSUME NEW p \in {6561, 2187, 729, 243, 81, 27, 9, 3, 1}, NEW n, NEW d, NEW r,
           HasDigit(n, p, d, r)
    PROVE  GreedyDigit(n, p) = d
<1> USE DEF HasDigit, GreedyDigit, CRem, CDiv, Clamp
<1>1. CASE p = 6561
  BY <1>1
<1>2. CASE p = 2187
  BY <1>2
<1>3. CASE p = 729
  BY <1>3
<1>4. CASE p = 243
  BY <1>4
<1>5. CASE p = 81
  BY <1>5
<1>6. CASE p = 27
  BY <1>6
<1>7. CASE p = 9
  BY <1>7
<1>8. CASE p = 3
  BY <1>8
<1>9. CASE p = 1
  BY <1>9
<1> QED BY <1>1, <1>2, <1>3, <1>4, <1>5, <1>6, <1>7, <1>8, <1>9

\* One turn of Tryte::from_integer leaves an integer.
LEMMA GreedyIsInt ==
    ASSUME NEW i \in 0 .. 8, NEW n \in Int
    PROVE  n - GreedyDigit(n, Place(i)) * Place(i) \in Int
<1> DEFINE p == Place(i)
           g == GreedyDigit(n, p)
<1>1. p \in Nat \ {0}
  BY PlacesAre
<1> HIDE DEF p
<1>2. g \in Int
  <2>1. CDiv(n, p) \in Int
    BY <1>1 DEF CDiv
  <2> DEFINE q == CDiv(n, p)
             b == CRem(n, p) > p \div 2
             c == CRem(n, p) < -(p \div 2)
  <2>2. g = Clamp(q + (IF b THEN 1 ELSE IF c THEN -1 ELSE 0))
    BY DEF GreedyDigit
  <2> HIDE DEF q, b, c
  <2> QED BY <2>1, <2>2 DEF Clamp, q
<1> HIDE DEF g
<1>3. n - g * p \in Int
  BY <1>1, <1>2
<1> QED BY <1>3 DEF g, p

\* The loop of Tryte::from_integer.
LEMMA GreedyRemainingDef ==
    ASSUME NEW v \in Int, NEW p, p = GreedyRemaining(v)
    PROVE  /\ p[0] = v
           /\ \A k \in 0 .. 8 : p[k + 1] = p[k] - GreedyDigit(p[k], Place(k)) * Place(k)
<1> DEFINE Left(n, i) == n - GreedyDigit(n, Place(i)) * Place(i)
           Eq(f) == f = [k \in 0 .. TRYTE_WIDTH |-> IF k = 0 THEN v ELSE Left(f[k - 1], k - 1)]
           turn == [k \in 0 .. 8 |-> [x \in Int |-> Left(x, k)]]
           q == CHOOSE f : Eq(f)
<1>0. TRYTE_WIDTH = 9
  BY DEF TRYTE_WIDTH
<1>1. \A k \in 0 .. 8 : \A x \in Int : turn[k][x] = Left(x, k) /\ turn[k][x] \in Int
  BY GreedyIsInt
<1>p. p = q
  BY DEF GreedyRemaining
<1> HIDE DEF turn, Left
<1>2. PICK f : f \in [0 .. 9 -> Int] /\ f[0] = v /\ \A k \in 0 .. 8 : f[k + 1] = turn[k][f[k]]
  <2> DEFINE V == Int
             m == 9
  <2>1. v \in V /\ m \in Nat /\ \A k \in 0 .. m - 1 : \A y \in V : turn[k][y] \in V
    BY <1>1
  <2> HIDE DEF V, m
  <2>2. \E f : Trace(f, m, V, v, turn)
    BY <2>1, LoopTrace
  <2>3. PICK f : Trace(f, m, V, v, turn)
    BY <2>2
  <2> QED BY <2>3 DEF Trace, V, m
<1>3. ASSUME NEW k \in 0 .. 9, k # 0 PROVE f[k] = Left(f[k - 1], k - 1)
  <2>1. k - 1 \in 0 .. 8 /\ (k - 1) + 1 = k /\ k - 1 \in 0 .. 9
    BY <1>3
  <2>2. f[k - 1] \in Int
    BY <1>2, <2>1
  <2> QED BY <1>1, <1>2, <2>1, <2>2
<1>4. Eq(f)
  BY <1>0, <1>2, <1>3
<1>5. Eq(q)
  BY <1>4
<1>6. \A k \in 0 .. 9 : q[k] = IF k = 0 THEN v ELSE Left(q[k - 1], k - 1)
  BY <1>0, <1>5
<1> HIDE DEF q
<1>7. \A k \in 0 .. 8 : q[k + 1] = Left(q[k], k)
  <2> TAKE k \in 0 .. 8
  <2>1. k + 1 \in 0 .. 9 /\ k + 1 # 0 /\ (k + 1) - 1 = k
    OBVIOUS
  <2> QED BY <2>1, <1>6
<1>8. q[0] = v
  BY <1>6
<1> QED BY <1>p, <1>7, <1>8 DEF Left

\* The loop of Tryte::to_integer.
LEMMA TryteSumDef ==
    ASSUME NEW t, \A i \in 0 .. 8 : t[i] \in {-1, 0, 1}, NEW p, p = TryteSum(t)
    PROVE  p[0] = 0 /\ \A k \in 0 .. 8 : p[k + 1] = p[k] + t[k] * Place(k)
<1> DEFINE More(n, i) == n + t[i] * Place(i)
           Eq(f) == f = [k \in 0 .. TRYTE_WIDTH |-> IF k = 0 THEN 0 ELSE More(f[k - 1], k - 1)]
           turn == [k \in 0 .. 8 |-> [x \in Int |-> More(x, k)]]
           q == CHOOSE f : Eq(f)
<1>0. TRYTE_WIDTH = 9
  BY DEF TRYTE_WIDTH
<1>1. \A k \in 0 .. 8 : \A x \in Int : turn[k][x] = More(x, k) /\ turn[k][x] \in Int
  <2> TAKE k \in 0 .. 8
  <2>1. Place(k) \in Int /\ t[k] \in {-1, 0, 1}
    BY PlacesAre
  <2> QED BY <2>1
<1>p. p = q
  BY DEF TryteSum
<1> HIDE DEF turn, More
<1>2. PICK f : f \in [0 .. 9 -> Int] /\ f[0] = 0 /\ \A k \in 0 .. 8 : f[k + 1] = turn[k][f[k]]
  <2> DEFINE V == Int
             m == 9
             v == 0
  <2>1. v \in V /\ m \in Nat /\ \A k \in 0 .. m - 1 : \A y \in V : turn[k][y] \in V
    BY <1>1
  <2> HIDE DEF V, m, v
  <2>2. \E f : Trace(f, m, V, v, turn)
    BY <2>1, LoopTrace
  <2>3. PICK f : Trace(f, m, V, v, turn)
    BY <2>2
  <2> QED BY <2>3 DEF Trace, V, m, v
<1>3. ASSUME NEW k \in 0 .. 9, k # 0 PROVE f[k] = More(f[k - 1], k - 1)
  <2>1. k - 1 \in 0 .. 8 /\ (k - 1) + 1 = k /\ k - 1 \in 0 .. 9
    BY <1>3
  <2>2. f[k - 1] \in Int
    BY <1>2, <2>1
  <2> QED BY <1>1, <1>2, <2>1, <2>2
<1>4. Eq(f)
  BY <1>0, <1>2, <1>3
<1>5. Eq(q)
  BY <1>4
<1>6. \A k \in 0 .. 9 : q[k] = IF k = 0 THEN 0 ELSE More(q[k - 1], k - 1)
  BY <1>0, <1>5
<1> HIDE DEF q
<1>7. \A k \in 0 .. 8 : q[k + 1] = More(q[k], k)
  <2> TAKE k \in 0 .. 8
  <2>1. k + 1 \in 0 .. 9 /\ k + 1 # 0 /\ (k + 1) - 1 = k
    OBVIOUS
  <2> QED BY <2>1, <1>6
<1>8. q[0] = 0
  BY <1>6
<1> QED BY <1>p, <1>7, <1>8 DEF More

\* What is below a trit is what the next one and those below it say.
LEMMA NextTrit ==
    ASSUME NEW t \in Trits, NEW k \in 0 .. WIDTH - 1, NEW p, p = power_of_three(WIDTH - (k + 1)),
           NEW r, r = to_integer(LowTrits(t, k)), NEW l, l = to_integer(LowTrits(t, k + 1))
    PROVE  HasDigit(r, p, t[k], l)
<1> DEFINE u == LowTrits(t, k)
           h == k + 1
           a == Accumulated(u)
<1>1. u \in Trits
  BY LowTritsAreTrits
<1>2. WIDTH \in Nat /\ TritIndex = 0 .. WIDTH - 1
  BY TritSums
<1>3. h \in 0 .. WIDTH /\ k \in 0 .. WIDTH
  BY <1>2
<1>4. LowTrits(u, h) = LowTrits(t, h)
  <2>1. \A i \in TritIndex : (IF i < h THEN 0 ELSE (IF i < k THEN 0 ELSE t[i]))
                                = (IF i < h THEN 0 ELSE t[i])
    BY <1>2
  <2>2. \A i \in TritIndex : u[i] = IF i < k THEN 0 ELSE t[i]
    BY DEF LowTrits
  <2> HIDE DEF u, h
  <2> QED BY <2>1, <2>2 DEF LowTrits
<1>5. a[k] = 0
  <2>1. \A i \in 0 .. k - 1 : i \in TritIndex /\ i < k
    BY <1>2
  <2>2. \A i \in 0 .. k - 1 : u[i] = 0
    BY <2>1 DEF LowTrits
  <2> HIDE DEF u
  <2> QED BY <1>1, <1>3, <2>2, ZerosSum DEF a
<1>6. u[k] = t[k] /\ t[k] \in {-1, 0, 1}
  <2>1. k \in TritIndex /\ ~(k < k)
    BY <1>2
  <2> QED BY <2>1, TritSums DEF LowTrits, Trits, Trit
<1>r. r = to_integer(u)
  OBVIOUS
<1>l. l = to_integer(LowTrits(u, h))
  BY <1>4
<1> HIDE DEF u
<1>7. a[h] = a[k] * 3 + u[k]
  BY <1>1, TritSums
<1>8. a[h] = t[k]
  BY <1>5, <1>6, <1>7
<1>9. p = power_of_three(WIDTH - h)
  OBVIOUS
<1> HIDE DEF h
<1>10. l \in Int /\ p \in Nat \ {0} /\ to_integer(u) = a[h] * p + l /\ 2 * l < p /\ -2 * l < p
  BY <1>1, <1>3, <1>9, <1>l, Split
<1> HIDE DEF a
<1>11. r = t[k] * p + l
  BY <1>r, <1>8, <1>10
<1>12. r \in Int
  BY <1>6, <1>10, <1>11
<1> QED BY <1>6, <1>10, <1>11, <1>12 DEF HasDigit

\* A tryte's loop stands on the low trits of the word, one fewer at every turn.
LEMMA GreedyIsWord ==
    ASSUME NEW v \in Word, NEW t, t = from_integer(v), NEW k, k = WIDTH - 9,
           v = to_integer(LowTrits(t, k))
    PROVE  /\ \A i \in 0 .. 8 : tryte_from_integer(v)[i] = t[k + i]
           /\ tryte_to_integer(tryte_from_integer(v)) = v
<1> DEFINE g == GreedyRemaining(v)
           R(i) == to_integer(LowTrits(t, k + i))
           S == {i \in 0 .. 9 : g[i] = R(i)}
<1>1. v \in Int /\ t \in Trits /\ WIDTH \in Nat /\ k \in Nat /\ WIDTH = k + 9
  <2>1. v \in Int
    BY ValueIsInt
  <2>2. t \in Trits
    BY <2>1, FromIntegerIsTrits
  <2> QED BY <2>1, <2>2, FormatAssumption, WidthAssumption DEF CARGO_OFFSET
<1>2. /\ g[0] = v
      /\ \A i \in 0 .. 8 : g[i + 1] = g[i] - GreedyDigit(g[i], Place(i)) * Place(i)
  BY <1>1, GreedyRemainingDef
<1>3. ASSUME NEW i \in 0 .. 8
      PROVE  HasDigit(R(i), Place(i), t[k + i], R(i + 1))
  <2> DEFINE h == k + i
             p == Place(i)
             r == R(i)
             l == R(i + 1)
  <2>1. h \in 0 .. WIDTH - 1 /\ WIDTH - (h + 1) = 8 - i /\ k + (i + 1) = h + 1
    BY <1>1
  <2>2. p = power_of_three(WIDTH - (h + 1))
    BY <2>1, PlacesAre
  <2>3. r = to_integer(LowTrits(t, h)) /\ l = to_integer(LowTrits(t, h + 1))
    BY <2>1
  <2> HIDE DEF h, p, r, l
  <2>4. HasDigit(r, p, t[h], l)
    BY <1>1, <2>1, <2>2, <2>3, NextTrit
  <2> QED BY <2>4 DEF h, p, r, l
<1>4. ASSUME NEW i \in 0 .. 8, i \in S
      PROVE  GreedyDigit(g[i], Place(i)) = t[k + i] /\ i + 1 \in S
  <2> DEFINE p == Place(i)
             d == t[k + i]
             r == R(i)
             l == R(i + 1)
  <2>1. p \in {6561, 2187, 729, 243, 81, 27, 9, 3, 1}
    BY PlacesAre
  <2>2. HasDigit(r, p, d, l)
    BY <1>3
  <2>3. g[i] = r /\ g[i + 1] = g[i] - GreedyDigit(g[i], p) * p /\ i + 1 \in 0 .. 9
    BY <1>2, <1>4
  <2> HIDE DEF p, d, r, l
  <2>4. GreedyDigit(r, p) = d
    BY <2>1, <2>2, GreedyFinds
  <2> DEFINE c == d * p
  <2>5. c \in Int /\ r = c + l /\ l \in Int /\ g[i + 1] = r - c
    BY <2>1, <2>2, <2>3, <2>4 DEF HasDigit
  <2> HIDE DEF c
  <2>6. g[i + 1] = l
    BY <2>5
  <2> QED BY <2>3, <2>4, <2>6 DEF p, d, l
<1>5. 0 \in S
  <2>1. k + 0 = k
    BY <1>1
  <2> QED BY <1>2, <2>1
<1>6. \A i \in 0 .. 8 : tryte_from_integer(v)[i] = GreedyDigit(g[i], Place(i))
  BY DEF tryte_from_integer, TRYTE_WIDTH
<1> HIDE DEF S, g
<1>7. 0 .. 9 \subseteq S
  BY <1>4, <1>5, UpTo
<1>8. \A i \in 0 .. 8 : i \in S
  BY <1>7
<1>9. \A i \in 0 .. 8 : tryte_from_integer(v)[i] = t[k + i]
  BY <1>4, <1>6, <1>8
\* What the digits take off from the top is what they add up to.
<1> DEFINE d == tryte_from_integer(v)
           s == TryteSum(d)
<1>10. \A i \in 0 .. 8 : d[i] \in {-1, 0, 1} /\ d[i] = GreedyDigit(g[i], Place(i))
  BY <1>3, <1>6, <1>9 DEF HasDigit
<1> HIDE DEF d
<1>11. s[0] = 0 /\ \A i \in 0 .. 8 : s[i + 1] = s[i] + d[i] * Place(i)
  BY <1>10, TryteSumDef
<1>12. g[0] = v /\ \A i \in 0 .. 8 : g[i + 1] = g[i] - d[i] * Place(i)
  BY <1>2, <1>10
<1> HIDE DEF s
<1> DEFINE Z == {i \in 0 .. 9 : g[i] \in Int /\ s[i] \in Int /\ s[i] + g[i] = v}
<1>13. 0 \in Z
  BY <1>1, <1>11, <1>12
<1>14. ASSUME NEW i \in 0 .. 8, i \in Z PROVE i + 1 \in Z
  <2> DEFINE c == d[i] * Place(i)
  <2>1. c \in Int
    BY <1>10, PlacesAre
  <2>2. s[i + 1] = s[i] + c /\ g[i + 1] = g[i] - c
    BY <1>11, <1>12
  <2> HIDE DEF c
  <2> QED BY <1>14, <2>1, <2>2
<1> HIDE DEF Z
<1>15. 0 .. 9 \subseteq Z
  BY <1>13, <1>14, UpTo
<1>16. s[9] + g[9] = v /\ g[9] \in Int /\ s[9] \in Int
  BY <1>15 DEF Z
<1>17. g[9] = 0
  <2>1. Place(8) = 1
    BY PlacesAre, PowerStep
  <2>2. HasDigit(R(8), 1, t[k + 8], R(8 + 1))
    BY <1>3, <2>1
  <2>3. R(8 + 1) = 0
    <3> DEFINE l == R(8 + 1)
    <3>1. l \in Int /\ 2 * l < 1 /\ -2 * l < 1
      BY <2>2 DEF HasDigit
    <3> HIDE DEF l
    <3>2. l = 0
      BY <3>1
    <3> QED BY <3>2 DEF l
  <2>4. 9 \in S /\ 8 + 1 = 9
    BY <1>7
  <2>5. g[9] = R(9)
    BY <2>4 DEF S
  <2>6. R(9) = 0
    <3>1. R(8 + 1) = R(9)
      BY <2>4
    <3> QED BY <2>3, <3>1
  <2> QED BY <2>5, <2>6
<1>18. tryte_to_integer(d) = s[9]
  BY DEF tryte_to_integer, TRYTE_WIDTH, s
<1>19. tryte_to_integer(d) = v
  BY <1>16, <1>17, <1>18
<1> QED BY <1>9, <1>19 DEF d

\* The trits above a tryte are zero exactly on the numbers of a tryte.
LEMMA TryteRange ==
    ASSUME NEW v \in Word, NEW t, t = from_integer(v), NEW k, k = WIDTH - 9
    PROVE  /\ (\A i \in 0 .. k - 1 : t[i] = 0) <=> v \in -TRYTE_MAX_VALUE .. TRYTE_MAX_VALUE
           /\ v \in -TRYTE_MAX_VALUE .. TRYTE_MAX_VALUE => v = to_integer(LowTrits(t, k))
<1> DEFINE l == to_integer(LowTrits(t, k))
           a == Accumulated(t)[k]
           p == power_of_three(WIDTH - k)
<1>1. v \in Int /\ t \in Trits /\ WIDTH \in Nat /\ k \in 0 .. WIDTH /\ WIDTH - k = 9
  <2>1. v \in Int
    BY ValueIsInt
  <2>2. t \in Trits
    BY <2>1, FromIntegerIsTrits
  <2> QED BY <2>1, <2>2, FormatAssumption, WidthAssumption DEF CARGO_OFFSET
<1>2. p = 19683
  BY <1>1, PlacesAre
<1>3. v = to_integer(t)
  BY RoundTrip
<1>4. l \in Int /\ a \in Int /\ to_integer(t) = a * p + l /\ 2 * l < p /\ -2 * l < p
  <2> HIDE DEF p, l
  <2>1. l = to_integer(LowTrits(t, k)) /\ p = power_of_three(WIDTH - k)
    BY DEF l, p
  <2> QED BY <1>1, <2>1, Split
<1>5. (\A i \in 0 .. k - 1 : t[i] = 0) <=> a = 0
  BY <1>1, ZerosSum, SumsToZero
<1>6. v = a * 19683 + l /\ 2 * l < 19683 /\ -2 * l < 19683 /\ l \in Int /\ a \in Int
  BY <1>2, <1>3, <1>4
<1> HIDE DEF l, a, p
<1>m. TRYTE_MAX_VALUE = 9841
  BY DEF TRYTE_MAX_VALUE
<1>7. a = 0 <=> v \in -TRYTE_MAX_VALUE .. TRYTE_MAX_VALUE
  <2>1. a >= 1 => v > 9841
    BY <1>6
  <2>2. a <= -1 => v < -9841
    BY <1>6
  <2>3. a = 0 => v = l /\ v < 9842 /\ v > -9842
    BY <1>6
  <2>4. a \in Int /\ v \in Int
    BY <1>1, <1>6
  <2> DEFINE b == TRYTE_MAX_VALUE
             in == v \in -b .. b
  <2>5. b = 9841
    BY <1>m
  <2> HIDE DEF b
  <2>6. in <=> -b <= v /\ v <= b
    BY <2>4, <2>5
  <2> HIDE DEF in
  <2>7. a = 0 <=> in
    BY <2>1, <2>2, <2>3, <2>4, <2>5, <2>6
  <2> QED BY <2>7 DEF in, b
<1>8. a = 0 => v = l
  BY <1>6
<1> QED BY <1>5, <1>7, <1>8 DEF l
-----------------------------------------------------------------------------
\* Tryte::from_integer, which corrects its digits from the top, finds the trits that
\* Word::from_integer carries up from the bottom, on every number its range check
\* admits; Tryte::to_integer gives the number back; and the words whose upper trits are
\* zero are those numbers.
THEOREM TrytesAgree == Spec => []TryteAgreesWithWord
<1> DEFINE Inv == value \in Word
<1>1. Init => Inv
  BY DEF Init
<1>2. Inv /\ [Next]_value => Inv'
  BY DEF Next
<1>3. Inv => TryteAgreesWithWord
  <2> SUFFICES ASSUME Inv PROVE TryteAgreesWithWord
    OBVIOUS
  <2> DEFINE t == from_integer(value)
             k == WIDTH - 9
             A == \A i \in 0 .. k - 1 : t[i] = 0
             B == value \in -TRYTE_MAX_VALUE .. TRYTE_MAX_VALUE
             C == /\ tryte_to_integer(tryte_from_integer(value)) = value
                  /\ \A i \in 0 .. 8 : tryte_from_integer(value)[i] = t[k + i]
  <2>0. t = from_integer(value) /\ k = WIDTH - 9
    OBVIOUS
  <2>4. TryteAgreesWithWord <=> (A <=> B /\ C)
    BY DEF TryteAgreesWithWord, TryteFits, TRYTE_WIDTH
  <2> HIDE DEF t, k
  <2>1. A <=> B
    BY <2>0, TryteRange
  <2>2. ASSUME B PROVE value = to_integer(LowTrits(t, k))
    BY <2>0, <2>2, TryteRange
  <2>3. ASSUME B PROVE C
    <3>1. value \in Word
      BY DEF Inv
    <3>2. value = to_integer(LowTrits(t, k))
      BY <2>2, <2>3
    <3> HIDE DEF B, C, Inv
    <3>3. /\ tryte_to_integer(tryte_from_integer(value)) = value
          /\ \A i \in 0 .. 8 : tryte_from_integer(value)[i] = t[k + i]
      BY <2>0, <3>1, <3>2, GreedyIsWord
    <3> QED BY <3>3 DEF C
  <2> HIDE DEF A, B, C
  <2> QED BY <2>1, <2>3, <2>4
<1> QED BY <1>1, <1>2, <1>3, PTL DEF Spec

\* A word of a file is written with the trits of the word in memory: encode_word and
\* Word::from_integer never disagree about a digit.
THEOREM FormatsAgree == Spec => []FormatAgreesWithWord
<1> DEFINE Inv == value \in Word
<1>1. Init => Inv
  BY DEF Init
<1>2. Inv /\ [Next]_value => Inv'
  BY DEF Next
<1>3. Inv => FormatAgreesWithWord
  BY ValueIsInt, FormatIsWord DEF FormatAgreesWithWord
<1> QED BY <1>1, <1>2, <1>3, PTL DEF Spec

\* encode is the inverse of the accessors on every word, of every width that holds an
\* instruction's head: no trit is left out and no field overlaps another.
THEOREM EncodingIsCanonical == Spec => []CanonicalEncoding
<1> DEFINE Inv == value \in Word
<1>1. Init => Inv
  BY DEF Init
<1>2. Inv /\ [Next]_value => Inv'
  BY DEF Next
<1>3. Inv => CanonicalEncoding
  <2> SUFFICES ASSUME Inv PROVE CanonicalEncoding
    OBVIOUS
  <2> DEFINE t == from_integer(value)
             d == decode(value)
             c == [k \in CargoIndex |-> t[CARGO_OFFSET + k]]
  <2>1. t = from_integer(value) /\ d = decode(value) /\ c = [k \in CargoIndex |-> t[CARGO_OFFSET + k]]
    OBVIOUS
  <2> HIDE DEF t, d, c
  <2>2. /\ d.opcode \in Opcode /\ {d.rd, d.rs1, d.rs2} \subseteq Register
        /\ encode(d.opcode, d.rd, d.rs1, d.rs2, c) = value
        /\ (value - d.immediate) % power_of_three(CARGO_WIDTH) = 0
    BY <2>1, DecodeRoundTrip
  <2> QED BY <2>2 DEF CanonicalEncoding, t, d, c
<1> QED BY <1>1, <1>2, <1>3, PTL DEF Spec

-----------------------------------------------------------------------------
(* The vectors of the causes the architecture allows fill the table, one   *)
(* word each; an interrupt of any other cause has that of an exception.    *)

Valid == {cause \in Cause : valid_cause(cause)}

\* Every word of the table is the system-call vector or the vector of one valid
\* interrupt or exception cause, of exactly one, and the reset address is none
\* of them: no two handlers share an entry (ARCHITECTURE 36.1).
THEOREM VectorsFillTable ==
    /\ Table = {system_call_vector} \cup {interrupt_vector(c) : c \in Valid}
                                    \cup {exception_vector(c) : c \in Valid}
    /\ \A c, d \in Valid :
          /\ interrupt_vector(c) # exception_vector(d)
          /\ interrupt_vector(c) = interrupt_vector(d) => c = d
          /\ exception_vector(c) = exception_vector(d) => c = d
          /\ system_call_vector \notin {interrupt_vector(c), exception_vector(c)}
    /\ ResetAddress \notin Table
<1> USE DEF Valid, valid_cause, Cause, MaxCause, Table, ResetAddress, VectorBase,
            InterruptVectorBase, ExceptionVectorBase, InterruptVectorCount, ExceptionVectorCount,
            VectorTableWords, system_call_vector, interrupt_vector, exception_vector
<1>1. ASSUME NEW a \in Table
      PROVE  a \in {system_call_vector} \cup {interrupt_vector(c) : c \in Valid}
                                        \cup {exception_vector(c) : c \in Valid}
  <2>1. CASE a = 1
    BY <2>1
  <2>2. CASE a \in 2 .. 28
    <3>1. a - 2 \in Valid /\ a = interrupt_vector(a - 2)
      BY <2>2
    <3> QED BY <3>1
  <2>3. CASE a \in 29 .. 55
    <3>1. a - 29 \in Valid /\ a = exception_vector(a - 29)
      BY <2>3
    <3> QED BY <3>1
  <2> QED BY <2>1, <2>2, <2>3
<1>2. \A c \in Valid : interrupt_vector(c) \in Table /\ exception_vector(c) \in Table
  OBVIOUS
<1>3. system_call_vector \in Table /\ ResetAddress \notin Table
  OBVIOUS
<1>4. \A c, d \in Valid :
          /\ interrupt_vector(c) # exception_vector(d)
          /\ interrupt_vector(c) = interrupt_vector(d) => c = d
          /\ exception_vector(c) = exception_vector(d) => c = d
          /\ system_call_vector \notin {interrupt_vector(c), exception_vector(c)}
  OBVIOUS
<1> HIDE DEF Valid, Table, system_call_vector, interrupt_vector, exception_vector, ResetAddress
<1> QED BY <1>1, <1>2, <1>3, <1>4

\* What the missing test of the cause means: the vector of an interrupt is that
\* of an exception exactly 27 causes below it, so an interrupt of cause 27 would
\* enter the handler of exception 0.
THEOREM CausesCollide ==
    \A c, d \in Cause : interrupt_vector(c) = exception_vector(d) <=> c = d + InterruptVectorCount
BY DEF Cause, MaxCause, VectorBase, InterruptVectorBase, ExceptionVectorBase,
       InterruptVectorCount, interrupt_vector, exception_vector

\* No conversion of a vector to a word throws, whatever the cause, on a machine
\* whose words hold the vector of exception 255.
THEOREM VectorsAreWords ==
    ASSUME exception_vector(255) <= MAX_VALUE
    PROVE  \A c \in Cause : Fits(interrupt_vector(c)) /\ Fits(exception_vector(c))
BY MaxValue DEF Cause, VectorBase, InterruptVectorBase, ExceptionVectorBase, interrupt_vector,
       exception_vector, Fits
=============================================================================
