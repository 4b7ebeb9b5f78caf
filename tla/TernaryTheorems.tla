--------------------------- MODULE TernaryTheorems -------------------------
(***************************************************************************)
(* Facts about the conversions, the instruction format and the ALU that    *)
(* hold for every WIDTH.  Induction is induction over a set of numbers.    *)
(***************************************************************************)
EXTENDS Instruction, ALU, TLAPS, WellFoundedInduction

\* A set of natural numbers that is not empty has a least element.
LEMMA Least ==
    ASSUME NEW T \in SUBSET Nat, T # {}
    PROVE  \E x \in T : \A y \in T : x <= y
<1> DEFINE L == OpToRel(<, Nat)
<1>1. IsWellFoundedOn(L, Nat)
  BY NatLessThanWellFounded
<1> HIDE DEF L
<1>2. PICK x \in T : \A y \in T : ~ (<< y, x >> \in L)
  BY <1>1, WFMin
<1>3. ASSUME NEW y \in T, y < x PROVE FALSE
  <2>1. << y, x >> \in L
    BY <1>3 DEF L, OpToRel
  <2> QED BY <1>2, <2>1
<1> QED BY <1>3

\* Induction over the natural numbers, stated with a set.
LEMMA NatSetInduction ==
    ASSUME NEW S, 0 \in S, \A n \in Nat : n \in S => n + 1 \in S
    PROVE  Nat \subseteq S
<1> DEFINE T == Nat \ S
<1>1. SUFFICES ASSUME T # {} PROVE FALSE
  OBVIOUS
<1>2. PICK x \in T : \A y \in T : x <= y
  BY <1>1, Least
<1>3. x \in Nat /\ x # 0 /\ x - 1 \in Nat
  OBVIOUS
<1>4. x - 1 \in S
  BY <1>2, <1>3
<1> QED BY <1>3, <1>4

\* The same over an initial segment of the natural numbers.
LEMMA UpTo ==
    ASSUME NEW n \in Nat, NEW S, 0 \in S,
           \A k \in 0 .. n - 1 : k \in S => k + 1 \in S
    PROVE  0 .. n \subseteq S
<1> DEFINE T == {k \in Nat : k <= n => k \in S}
<1>1. 0 \in T
  OBVIOUS
<1>2. \A k \in Nat : k \in T => k + 1 \in T
  OBVIOUS
<1> HIDE DEF T
<1>3. Nat \subseteq T
  BY <1>1, <1>2, NatSetInduction
<1> QED BY <1>3 DEF T

\* The values of a loop of n turns over V that starts with x: turn[k][y] is what
\* turn k makes of y.
Trace(f, n, V, x, turn) ==
    /\ f \in [0 .. n -> V]
    /\ f[0] = x
    /\ \A k \in 0 .. n - 1 : f[k + 1] = turn[k][f[k]]

\* Every such loop has a trace.
LEMMA LoopTrace ==
    ASSUME NEW n \in Nat, NEW V, NEW x \in V, NEW turn,
           \A k \in 0 .. n - 1 : \A y \in V : turn[k][y] \in V
    PROVE  \E f : Trace(f, n, V, x, turn)
<1> DEFINE Tr(f, m) == Trace(f, m, V, x, turn)
           S == {m \in 0 .. n : \E f : Tr(f, m)}
<1>1. 0 \in S
  <2>1. Tr([k \in 0 .. 0 |-> x], 0)
    BY DEF Trace
  <2> HIDE DEF Tr
  <2> QED BY <2>1
<1>2. ASSUME NEW m \in 0 .. n - 1, m \in S PROVE m + 1 \in S
  <2>1. PICK f : Tr(f, m)
    BY <1>2
  <2> DEFINE g == [k \in 0 .. m + 1 |-> IF k = m + 1 THEN turn[m][f[m]] ELSE f[k]]
  <2>2. f[m] \in V /\ turn[m][f[m]] \in V
    BY <2>1 DEF Trace
  <2>3. g \in [0 .. m + 1 -> V]
    BY <2>1, <2>2 DEF Trace
  <2>4. g[0] = x
    BY <2>1 DEF Trace
  <2>5. ASSUME NEW k \in 0 .. (m + 1) - 1 PROVE g[k + 1] = turn[k][g[k]]
    <3>1. CASE k = m
      BY <3>1
    <3>2. CASE k # m
      <4>1. k \in 0 .. m - 1 /\ k + 1 \in 0 .. m /\ k + 1 # m + 1 /\ k # m + 1
        BY <3>2
      <4> QED BY <2>1, <4>1 DEF Trace
    <3> QED BY <3>1, <3>2
  <2>6. Tr(g, m + 1)
    BY <2>3, <2>4, <2>5 DEF Trace
  <2> HIDE DEF g, Tr
  <2> QED BY <2>6
<1> HIDE DEF S
<1>3. 0 .. n \subseteq S
  BY <1>1, <1>2, UpTo
<1> HIDE DEF Tr
<1>4. n \in S
  BY <1>3
<1>5. \E f : Tr(f, n)
  BY <1>4 DEF S
<1> QED BY <1>5 DEF Tr

\* A loop that adds up naturals, from a on.
Running(g, n, a, w) ==
    /\ g \in [0 .. n -> Int] /\ g[0] = a
    /\ \A k \in 1 .. n : g[k] = g[k - 1] + w[k]

\* A running sum exists for every list of numbers.
LEMMA RunningSum ==
    ASSUME NEW n \in Nat, NEW a \in Int, NEW w, \A k \in 1 .. n : w[k] \in Nat
    PROVE  \E g : Running(g, n, a, w)
<1> DEFINE turn == [k \in 0 .. n - 1 |-> [y \in Int |-> y + w[k + 1]]]
           V == Int
<1>1. \A k \in 0 .. n - 1 : \A y \in Int : turn[k][y] = y + w[k + 1] /\ turn[k][y] \in Int
  <2> TAKE k \in 0 .. n - 1
  <2> TAKE y \in Int
  <2>1. k + 1 \in 1 .. n
    OBVIOUS
  <2>2. w[k + 1] \in Nat
    BY <2>1
  <2> QED BY <2>2
<1> HIDE DEF turn
<1>2. \A k \in 0 .. n - 1 : \A y \in V : turn[k][y] \in V
  BY <1>1
<1>3. a \in V
  OBVIOUS
<1> HIDE DEF V
<1>4. PICK f : Trace(f, n, V, a, turn)
  BY <1>2, <1>3, LoopTrace
<1>5. f \in [0 .. n -> Int] /\ f[0] = a /\ \A k \in 0 .. n - 1 : f[k + 1] = turn[k][f[k]]
  BY <1>4 DEF Trace, V
<1>6. ASSUME NEW k \in 1 .. n PROVE f[k] = f[k - 1] + w[k]
  <2>1. k - 1 \in 0 .. n - 1 /\ (k - 1) + 1 = k /\ k - 1 \in 0 .. n
    OBVIOUS
  <2>2. f[k - 1] \in Int
    BY <1>5, <2>1
  <2>3. f[(k - 1) + 1] = turn[k - 1][f[k - 1]]
    BY <1>5, <2>1
  <2>4. turn[k - 1][f[k - 1]] = f[k - 1] + w[(k - 1) + 1]
    BY <1>1, <2>1, <2>2
  <2> QED BY <2>1, <2>3, <2>4
<1> QED BY <1>5, <1>6 DEF Running

\* The function Accumulated(t) exists and obeys the equations of the loop of
\* Word::to_integer.
LEMMA AccumulatedDef ==
    ASSUME NEW t \in [TritIndex -> Int]
    PROVE  /\ Accumulated(t) \in [0 .. WIDTH -> Int]
           /\ Accumulated(t)[0] = 0
           /\ \A k \in 0 .. WIDTH - 1 :
                 Accumulated(t)[k + 1] = Accumulated(t)[k] * 3 + t[k]
<1>w. WIDTH \in Nat
  BY WidthAssumption
<1> DEFINE turn == [k \in 0 .. WIDTH - 1 |-> [x \in Int |-> x * 3 + t[k]]]
           Eq(f) == f = [k \in 0 .. WIDTH |-> IF k = 0 THEN 0 ELSE f[k - 1] * 3 + t[k - 1]]
<1>1. \A k \in 0 .. WIDTH - 1, x \in Int : turn[k][x] = x * 3 + t[k]
  OBVIOUS
<1>2. turn \in [0 .. WIDTH - 1 -> [Int -> Int]]
  BY DEF TritIndex
<1> HIDE DEF turn
<1>3. PICK f \in [0 .. WIDTH -> Int] :
            /\ f[0] = 0
            /\ \A k \in 0 .. WIDTH - 1 : f[k + 1] = turn[k][f[k]]
  <2> DEFINE x == 0
             V == Int
  <2>1. x \in V /\ \A k \in 0 .. WIDTH - 1 : \A y \in V : turn[k][y] \in V
    BY <1>2
  <2> HIDE DEF x, V
  <2>2. \E f : Trace(f, WIDTH, V, x, turn)
    BY <1>w, <2>1, LoopTrace
  <2> QED BY <2>2 DEF Trace, x, V
<1>4. ASSUME NEW k \in 0 .. WIDTH - 1 PROVE f[k + 1] = f[k] * 3 + t[k]
  <2>1. f[k] \in Int
    BY <1>3, <1>w
  <2> QED BY <2>1, <1>1, <1>3
<1>5. \A k \in 0 .. WIDTH : k # 0 => f[k] = f[k - 1] * 3 + t[k - 1]
  <2>1. ASSUME NEW k \in 0 .. WIDTH, k # 0 PROVE f[k] = f[k - 1] * 3 + t[k - 1]
    <3>1. k - 1 \in 0 .. WIDTH - 1 /\ (k - 1) + 1 = k
      BY <2>1, <1>w
    <3> QED BY <3>1, <1>4
  <2> QED BY <2>1
<1>6. Eq(f)
  BY <1>3, <1>5
<1>7. Eq(Accumulated(t))
  BY <1>6 DEF Accumulated
<1> DEFINE a == Accumulated(t)
<1>8. \A k \in 0 .. WIDTH : a[k] = IF k = 0 THEN 0 ELSE a[k - 1] * 3 + t[k - 1]
  BY <1>7
<1>9. a = [k \in 0 .. WIDTH |-> a[k]]
  BY <1>7
<1> HIDE DEF a
<1>10. \A k \in 0 .. WIDTH : a[k] = f[k]
  <2> DEFINE S == {k \in 0 .. WIDTH : a[k] = f[k]}
  <2>0. 0 \in 0 .. WIDTH
    BY <1>w
  <2>1. 0 \in S
    BY <2>0, <1>3, <1>8
  <2>2. ASSUME NEW k \in 0 .. WIDTH - 1, k \in S PROVE k + 1 \in S
    <3>1. k + 1 \in 0 .. WIDTH /\ k + 1 # 0 /\ (k + 1) - 1 = k
      BY <1>w
    <3> QED BY <3>1, <2>2, <1>4, <1>8
  <2> HIDE DEF S
  <2>3. 0 .. WIDTH \subseteq S
    BY <2>1, <2>2, <1>w, UpTo
  <2> QED BY <2>3 DEF S
<1>11. a = f
  BY <1>3, <1>9, <1>10
<1> QED BY <1>3, <1>4, <1>11 DEF a

\* The same for the loop of Word::from_integer.
LEMMA RemainingDef ==
    ASSUME NEW v \in Int
    PROVE  /\ Remaining(v) \in [0 .. WIDTH -> Int]
           /\ Remaining(v)[0] = v
           /\ \A k \in 0 .. WIDTH - 1 :
                 Remaining(v)[k + 1] = Shifted(Remaining(v)[k])
<1>w. WIDTH \in Nat
  BY WidthAssumption
<1> DEFINE turn == [k \in 0 .. WIDTH - 1 |-> [x \in Int |-> Shifted(x)]]
           Eq(f) == f = [k \in 0 .. WIDTH |-> IF k = 0 THEN v ELSE Shifted(f[k - 1])]
<1>0. \A x \in Int : Shifted(x) \in Int
  BY DEF Shifted
<1>1. \A k \in 0 .. WIDTH - 1, x \in Int : turn[k][x] = Shifted(x)
  OBVIOUS
<1>2. turn \in [0 .. WIDTH - 1 -> [Int -> Int]]
  BY <1>0
<1> HIDE DEF turn
<1>3. PICK f \in [0 .. WIDTH -> Int] :
            /\ f[0] = v
            /\ \A k \in 0 .. WIDTH - 1 : f[k + 1] = turn[k][f[k]]
  <2> DEFINE V == Int
  <2>1. v \in V /\ \A k \in 0 .. WIDTH - 1 : \A y \in V : turn[k][y] \in V
    BY <1>2
  <2> HIDE DEF V
  <2>2. \E f : Trace(f, WIDTH, V, v, turn)
    BY <1>w, <2>1, LoopTrace
  <2> QED BY <2>2 DEF Trace, V
<1>4. \A k \in 0 .. WIDTH - 1 : f[k + 1] = Shifted(f[k])
  BY <1>1, <1>3, <1>w
<1>5. \A k \in 0 .. WIDTH : k # 0 => f[k] = Shifted(f[k - 1])
  <2>1. ASSUME NEW k \in 0 .. WIDTH, k # 0 PROVE f[k] = Shifted(f[k - 1])
    <3>1. k - 1 \in 0 .. WIDTH - 1 /\ (k - 1) + 1 = k
      BY <2>1, <1>w
    <3> QED BY <3>1, <1>4
  <2> QED BY <2>1
<1>6. Eq(f)
  BY <1>3, <1>5
<1>7. Eq(Remaining(v))
  BY <1>6 DEF Remaining
<1> DEFINE a == Remaining(v)
<1>8. \A k \in 0 .. WIDTH : a[k] = IF k = 0 THEN v ELSE Shifted(a[k - 1])
  BY <1>7
<1>9. a = [k \in 0 .. WIDTH |-> a[k]]
  BY <1>7
<1> HIDE DEF a
<1>10. \A k \in 0 .. WIDTH : a[k] = f[k]
  <2> DEFINE S == {k \in 0 .. WIDTH : a[k] = f[k]}
  <2>0. 0 \in 0 .. WIDTH
    BY <1>w
  <2>1. 0 \in S
    BY <2>0, <1>3, <1>8
  <2>2. ASSUME NEW k \in 0 .. WIDTH - 1, k \in S PROVE k + 1 \in S
    <3>1. k + 1 \in 0 .. WIDTH /\ k + 1 # 0 /\ (k + 1) - 1 = k
      BY <1>w
    <3> QED BY <3>1, <2>2, <1>4, <1>8
  <2> HIDE DEF S
  <2>3. 0 .. WIDTH \subseteq S
    BY <2>1, <2>2, <1>w, UpTo
  <2> QED BY <2>3 DEF S
<1>11. a = f
  BY <1>3, <1>9, <1>10
<1> QED BY <1>3, <1>4, <1>11 DEF a
-----------------------------------------------------------------------------
LEMMA TritsAreInts == Trits \subseteq [TritIndex -> Int]
  BY DEF Trits, Trit

Ones == [i \in TritIndex |-> 1]

\* No sequence of trits accumulates further from zero than all ones does.
LEMMA AccumulatedBound ==
    ASSUME NEW t \in Trits
    PROVE  \A k \in 0 .. WIDTH :
              /\ Accumulated(Ones)[k] \in Nat
              /\ Accumulated(t)[k] \in -Accumulated(Ones)[k] .. Accumulated(Ones)[k]
<1> DEFINE a == Accumulated(t)
           b == Accumulated(Ones)
           S == {k \in 0 .. WIDTH : b[k] \in Nat /\ a[k] \in -b[k] .. b[k]}
<1>w. WIDTH \in Nat /\ 0 \in 0 .. WIDTH
  BY WidthAssumption
<1>1. /\ a \in [0 .. WIDTH -> Int]
      /\ a[0] = 0
      /\ \A k \in 0 .. WIDTH - 1 : a[k + 1] = a[k] * 3 + t[k]
  BY TritsAreInts, AccumulatedDef
<1>2. /\ b[0] = 0
      /\ \A k \in 0 .. WIDTH - 1 : b[k + 1] = b[k] * 3 + Ones[k]
  BY AccumulatedDef DEF Ones
<1>3. \A k \in 0 .. WIDTH - 1 : t[k] \in {-1, 0, 1} /\ Ones[k] = 1
  BY DEF Trits, Trit, TritIndex, Ones
<1> HIDE DEF a, b
<1>4. 0 \in S
  BY <1>w, <1>1, <1>2
<1>5. ASSUME NEW k \in 0 .. WIDTH - 1, k \in S PROVE k + 1 \in S
  <2>1. k + 1 \in 0 .. WIDTH
    BY <1>w
  <2>2. b[k + 1] = b[k] * 3 + 1 /\ a[k + 1] = a[k] * 3 + t[k]
    BY <1>1, <1>2, <1>3
  <2> QED BY <1>3, <1>5, <2>1, <2>2
<1> HIDE DEF S
<1>6. 0 .. WIDTH \subseteq S
  BY <1>w, <1>4, <1>5, UpTo
<1> QED BY <1>6 DEF S, a, b

LEMMA MaxValue == MAX_VALUE \in Nat /\ MIN_VALUE = -MAX_VALUE /\ 0 \in Word
<1>1. Ones \in Trits /\ WIDTH \in 0 .. WIDTH
  BY WidthAssumption DEF Ones, Trits, Trit
<1>2. MAX_VALUE = Accumulated(Ones)[WIDTH]
  BY DEF MAX_VALUE, to_integer, Ones
<1>3. MAX_VALUE \in Nat
  BY <1>1, <1>2, AccumulatedBound
<1> QED BY <1>3 DEF MIN_VALUE, Word

\* The trits of a Word object always denote a value in range.
LEMMA ToIntegerIsWord ==
    ASSUME NEW t \in Trits
    PROVE  to_integer(t) \in Word
<1>1. WIDTH \in 0 .. WIDTH
  BY WidthAssumption
<1>2. MAX_VALUE = Accumulated(Ones)[WIDTH]
  BY DEF MAX_VALUE, to_integer, Ones
<1> QED BY <1>1, <1>2, AccumulatedBound DEF to_integer, Word, MIN_VALUE

LEMMA LowTritSplits ==
    ASSUME NEW n \in Int
    PROVE  LowTrit(n) \in Trit /\ Shifted(n) \in Int /\ n = Shifted(n) * 3 + LowTrit(n)
  BY DEF LowTrit, Shifted, Trit

-----------------------------------------------------------------------------
(* Powers of three. *)

\* f is a run of the loop of Tryte::power_of_three to its n-th turn.
Powers(f, n) ==
    /\ f \in [0 .. n -> Int] /\ f[0] = 1
    /\ \A k \in 0 .. n - 1 : f[k + 1] = f[k] * 3

\* The loops of the two exponents are the same as far as the shorter one goes.
LEMMA PowersAgree ==
    ASSUME NEW n \in Nat, NEW m \in Nat, n <= m, NEW f, Powers(f, n), NEW g, Powers(g, m)
    PROVE  f[n] = g[n]
<1> DEFINE S == {k \in 0 .. n : f[k] = g[k]}
<1>1. 0 \in S
  BY DEF Powers
<1>2. ASSUME NEW k \in 0 .. n - 1, k \in S PROVE k + 1 \in S
  <2>1. f[k + 1] = f[k] * 3 /\ g[k + 1] = g[k] * 3
    BY DEF Powers
  <2> QED BY <1>2, <2>1
<1>3. \A k \in S : f[k] = g[k]
  OBVIOUS
<1> HIDE DEF S
<1>4. 0 .. n \subseteq S
  BY <1>1, <1>2, UpTo
<1> QED BY <1>3, <1>4

\* power_of_three is the last turn of its loop.
LEMMA PowersExist ==
    ASSUME NEW n \in Nat
    PROVE  \E f : Powers(f, n) /\ power_of_three(n) = f[n]
<1> DEFINE Eq(f) == f = [k \in 0 .. n |-> IF k = 0 THEN 1 ELSE f[k - 1] * 3]
           turn == [k \in 0 .. n - 1 |-> [x \in Int |-> x * 3]]
           p == CHOOSE f : Eq(f)
<1>1. \A k \in 0 .. n - 1 : \A x \in Int : turn[k][x] = x * 3 /\ turn[k][x] \in Int
  OBVIOUS
<1> HIDE DEF turn
<1>2. PICK f : f \in [0 .. n -> Int] /\ f[0] = 1 /\ \A k \in 0 .. n - 1 : f[k + 1] = turn[k][f[k]]
  <2> DEFINE V == Int
             x == 1
  <2>1. x \in V /\ \A k \in 0 .. n - 1 : \A y \in V : turn[k][y] \in V
    BY <1>1
  <2> HIDE DEF V, x
  <2>2. \E f : Trace(f, n, V, x, turn)
    BY <2>1, LoopTrace
  <2> QED BY <2>2 DEF Trace, V, x
<1>3. ASSUME NEW k \in 0 .. n, k # 0 PROVE f[k] = f[k - 1] * 3
  <2>1. k - 1 \in 0 .. n - 1 /\ (k - 1) + 1 = k
    BY <1>3
  <2>2. f[k - 1] \in Int
    BY <1>2, <2>1
  <2> QED BY <1>1, <1>2, <2>1, <2>2
<1>4. Eq(f)
  BY <1>2, <1>3
<1>5. Eq(p)
  BY <1>4
<1>6. power_of_three(n) = p[n]
  BY DEF power_of_three
<1>7. \A k \in 0 .. n : p[k] = IF k = 0 THEN 1 ELSE p[k - 1] * 3
  BY <1>5
<1>8. p = [k \in 0 .. n |-> p[k]]
  BY <1>5
<1> HIDE DEF p
<1>9. \A k \in 0 .. n - 1 : p[k + 1] = p[k] * 3
  <2> TAKE k \in 0 .. n - 1
  <2>1. k + 1 \in 0 .. n /\ k + 1 # 0 /\ (k + 1) - 1 = k
    OBVIOUS
  <2> QED BY <2>1, <1>7
<1>10. p[0] = 1
  BY <1>7
<1> DEFINE S == {k \in 0 .. n : p[k] \in Int}
<1>11. 0 \in S
  BY <1>10
<1>12. ASSUME NEW k \in 0 .. n - 1, k \in S PROVE k + 1 \in S
  BY <1>9, <1>12
<1>13. \A k \in S : p[k] \in Int
  OBVIOUS
<1> HIDE DEF S
<1>14. 0 .. n \subseteq S
  BY <1>11, <1>12, UpTo
<1>15. p \in [0 .. n -> Int]
  BY <1>8, <1>13, <1>14
<1> QED BY <1>6, <1>9, <1>10, <1>15 DEF Powers

\* The equations of the exponent, which the text-book definition would start from.
LEMMA PowerStep ==
    /\ power_of_three(0) = 1
    /\ \A n \in Nat : power_of_three(n + 1) = power_of_three(n) * 3
<1>1. power_of_three(0) = 1
  <2>1. PICK f : Powers(f, 0) /\ power_of_three(0) = f[0]
    BY PowersExist
  <2> QED BY <2>1 DEF Powers
<1>2. ASSUME NEW n \in Nat PROVE power_of_three(n + 1) = power_of_three(n) * 3
  <2> DEFINE m == n + 1
  <2>1. m \in Nat /\ n <= m /\ n \in 0 .. m - 1
    OBVIOUS
  <2>2. PICK f : Powers(f, n) /\ power_of_three(n) = f[n]
    BY PowersExist
  <2> HIDE DEF m
  <2>3. PICK g : Powers(g, m) /\ power_of_three(m) = g[m]
    BY <2>1, PowersExist
  <2>4. f[n] = g[n]
    BY <2>1, <2>2, <2>3, PowersAgree
  <2>5. g[n + 1] = g[n] * 3
    BY <2>1, <2>3 DEF Powers
  <2> QED BY <2>2, <2>3, <2>4, <2>5 DEF m
<1> QED BY <1>1, <1>2

\* A power of three is positive.
LEMMA PowerIsNat == \A n \in Nat : power_of_three(n) \in Nat \ {0}
<1> DEFINE S == {n \in Nat : power_of_three(n) \in Nat \ {0}}
<1>1. 0 \in S
  BY PowerStep
<1>2. ASSUME NEW n \in Nat, n \in S PROVE n + 1 \in S
  <2> DEFINE a == power_of_three(n)
             b == power_of_three(n + 1)
  <2>1. a \in Nat \ {0} /\ b = a * 3
    BY <1>2, PowerStep
  <2> HIDE DEF a, b
  <2>2. b \in Nat \ {0}
    BY <2>1
  <2> QED BY <2>2 DEF b
<1>3. \A n \in S : power_of_three(n) \in Nat \ {0}
  OBVIOUS
<1> HIDE DEF S
<1>4. Nat \subseteq S
  BY <1>1, <1>2, NatSetInduction
<1> QED BY <1>3, <1>4

\* Half of a power of three, rounded down: the largest number with so many trits.
LEMMA HalfPower ==
    /\ \A n \in Nat : power_of_three(n) \div 2 \in Nat
    /\ power_of_three(0) \div 2 = 0
    /\ \A n \in Nat : power_of_three(n + 1) \div 2 = (power_of_three(n) \div 2) * 3 + 1
<1> DEFINE P(n) == power_of_three(n)
           H(n) == P(n) \div 2
           S == {n \in Nat : P(n) = H(n) * 2 + 1}
<1>0. /\ P(0) = 1 /\ \A n \in Nat : P(n + 1) = P(n) * 3
      /\ \A n \in Nat : P(n) \in Nat
  BY PowerStep, PowerIsNat
<1> HIDE DEF P
<1>1. 0 \in S
  BY <1>0
<1>2. ASSUME NEW n \in Nat, n \in S PROVE n + 1 \in S
  <2>1. P(n) = H(n) * 2 + 1 /\ P(n + 1) = P(n) * 3 /\ P(n) \in Nat
    BY <1>0, <1>2
  <2> QED BY <2>1
<1>3. \A n \in S : P(n) = H(n) * 2 + 1
  OBVIOUS
<1> HIDE DEF S
<1>4. Nat \subseteq S
  BY <1>1, <1>2, NatSetInduction
<1>5. ASSUME NEW n \in Nat PROVE H(n + 1) = H(n) * 3 + 1
  <2>1. P(n + 1) = P(n) * 3 /\ P(n) = H(n) * 2 + 1 /\ P(n) \in Nat
    BY <1>0, <1>3, <1>4
  <2> QED BY <2>1
<1>6. H(0) = 0
  BY <1>0
<1>7. \A n \in Nat : H(n) \in Nat
  BY <1>0
<1> QED BY <1>5, <1>6, <1>7 DEF P

\* The loop of Word::from_integer has nothing left after k turns exactly if the
\* number has no more than k trits.
LEMMA NothingRemains ==
    ASSUME NEW v \in Int, NEW k \in 0 .. WIDTH
    PROVE  Remaining(v)[k] = 0 <=> /\ -(power_of_three(k) \div 2) <= v
                                   /\ v <= power_of_three(k) \div 2
<1> DEFINE r == Remaining(v)
           H(n) == power_of_three(n) \div 2
           Small(j) == r[k] = 0 <=> -H(j) <= r[k - j] /\ r[k - j] <= H(j)
           S == {j \in 0 .. k : Small(j)}
<1>0. k \in Nat /\ k <= WIDTH /\ WIDTH \in Nat
  BY WidthAssumption
<1>1. /\ r \in [0 .. WIDTH -> Int] /\ r[0] = v
      /\ \A n \in 0 .. WIDTH - 1 : r[n + 1] = Shifted(r[n])
  BY RemainingDef
<1>2. H(0) = 0 /\ \A n \in Nat : H(n) \in Nat /\ H(n + 1) = H(n) * 3 + 1
  BY HalfPower
<1> HIDE DEF r, H
<1>3. 0 \in S
  <2>1. r[k] \in Int /\ k - 0 = k /\ 0 \in 0 .. k
    BY <1>0, <1>1
  <2>2. r[k] = 0 <=> -0 <= r[k] /\ r[k] <= 0
    BY <2>1
  <2>3. Small(0)
    BY <2>1, <2>2, <1>2
  <2> QED BY <2>1, <2>3
<1>4. ASSUME NEW j \in 0 .. k - 1, j \in S PROVE j + 1 \in S
  <2> DEFINE n == k - (j + 1)
             x == r[n]
             y == r[k - j]
             h == H(j)
             g == H(j + 1)
  <2>1. n \in 0 .. WIDTH - 1 /\ n + 1 = k - j /\ j + 1 \in 0 .. k
    BY <1>0
  <2>2. x \in Int /\ y = Shifted(x)
    BY <1>0, <1>1, <2>1
  <2>3. g = h * 3 + 1 /\ h \in Nat
    <3>1. j \in Nat
      BY <1>0
    <3> QED BY <3>1, <1>2
  <2>4. r[k] = 0 <=> -h <= y /\ y <= h
    BY <1>4
  <2> HIDE DEF x, y, g, h
  <2>5. x = y * 3 + LowTrit(x) /\ LowTrit(x) \in {-1, 0, 1} /\ y \in Int
    BY <2>2, LowTritSplits DEF Trit
  <2>6. (-h <= y /\ y <= h) <=> (-g <= x /\ x <= g)
    BY <2>2, <2>3, <2>5
  <2>7. r[k] = 0 <=> -g <= x /\ x <= g
    BY <2>4, <2>6
  <2> QED BY <2>1, <2>7 DEF x, g
<1>5. \A j \in S : Small(j)
  OBVIOUS
<1> HIDE DEF S, Small
<1>6. 0 .. k \subseteq S
  BY <1>0, <1>3, <1>4, UpTo
<1>7. Small(k) /\ k - k = 0
  BY <1>0, <1>5, <1>6
<1> QED BY <1>1, <1>7 DEF Small, H, r

\* from_integer writes trits.
LEMMA FromIntegerIsTrits ==
    ASSUME NEW v \in Int
    PROVE  from_integer(v) \in Trits
<1>1. \A i \in TritIndex : WIDTH - 1 - i \in 0 .. WIDTH
  BY WidthAssumption DEF TritIndex
<1>2. \A i \in TritIndex : LowTrit(Remaining(v)[WIDTH - 1 - i]) \in Trit
  BY <1>1, RemainingDef, LowTritSplits
<1> QED BY <1>2 DEF from_integer, Trits

\* The loop of from_integer ends with remaining = 0 for every value in range:
\* after k turns what remains is no larger than the value of WIDTH - k ones.
LEMMA RemainingVanishes ==
    ASSUME NEW v \in Word
    PROVE  Remaining(v)[WIDTH] = 0
<1> DEFINE r == Remaining(v)
           b == Accumulated(Ones)
           S == {k \in 0 .. WIDTH : r[k] \in -b[WIDTH - k] .. b[WIDTH - k]}
<1>w. WIDTH \in Nat /\ 0 \in 0 .. WIDTH /\ WIDTH \in 0 .. WIDTH
  BY WidthAssumption
<1>v. v \in Int
  BY MaxValue DEF Word
<1>1. /\ r \in [0 .. WIDTH -> Int]
      /\ r[0] = v
      /\ \A k \in 0 .. WIDTH - 1 : r[k + 1] = Shifted(r[k])
  BY <1>v, RemainingDef
<1>2. Ones \in Trits
  BY DEF Ones, Trits, Trit
<1>3. /\ \A k \in 0 .. WIDTH : b[k] \in Nat
      /\ b[0] = 0
      /\ \A k \in 0 .. WIDTH - 1 : b[k + 1] = b[k] * 3 + 1
  <2>1. \A k \in 0 .. WIDTH - 1 : Ones[k] = 1
    BY DEF Ones, TritIndex
  <2>2. b[0] = 0 /\ \A k \in 0 .. WIDTH - 1 : b[k + 1] = b[k] * 3 + Ones[k]
    BY <1>2, TritsAreInts, AccumulatedDef
  <2> HIDE DEF b
  <2>3. \A k \in 0 .. WIDTH : b[k] \in Nat
    BY <1>2, AccumulatedBound DEF b
  <2> QED BY <2>1, <2>2, <2>3
<1>4. v \in -b[WIDTH] .. b[WIDTH]
  BY DEF Word, MIN_VALUE, MAX_VALUE, to_integer, Ones
<1> HIDE DEF r, b
<1>5. 0 \in S
  BY <1>w, <1>1, <1>4
<1>6. ASSUME NEW k \in 0 .. WIDTH - 1, k \in S PROVE k + 1 \in S
  <2>1. /\ k + 1 \in 0 .. WIDTH
        /\ WIDTH - (k + 1) \in 0 .. WIDTH - 1
        /\ WIDTH - (k + 1) \in 0 .. WIDTH
    BY <1>w
  <2>2. (WIDTH - (k + 1)) + 1 = WIDTH - k
    BY <1>w
  <2>3. b[WIDTH - k] = b[WIDTH - (k + 1)] * 3 + 1
    BY <1>3, <2>1, <2>2
  <2>4. r[k] \in Int /\ r[k + 1] = Shifted(r[k])
    BY <1>1, <1>w
  <2>5. b[WIDTH - (k + 1)] \in Nat
    BY <1>3, <2>1
  <2>6. r[k] = r[k + 1] * 3 + LowTrit(r[k]) /\ LowTrit(r[k]) \in Trit /\ r[k + 1] \in Int
    BY <2>4, LowTritSplits
  <2>7. r[k] \in -b[WIDTH - k] .. b[WIDTH - k]
    BY <1>6
  <2>8. r[k + 1] \in -b[WIDTH - (k + 1)] .. b[WIDTH - (k + 1)]
    BY <2>3, <2>5, <2>6, <2>7 DEF Trit
  <2> QED BY <2>1, <2>8
<1> HIDE DEF S
<1>7. 0 .. WIDTH \subseteq S
  BY <1>w, <1>5, <1>6, UpTo
<1>8. r[WIDTH] \in -b[0] .. b[0]
  <2>1. WIDTH \in S
    BY <1>7, <1>w
  <2> QED BY <2>1, <1>w DEF S
<1>9. r[WIDTH] = 0
  BY <1>3, <1>8
<1> QED BY <1>9 DEF r

\* When nothing remains after the loop of from_integer, to_integer undoes it.
LEMMA DigitsSumUp ==
    ASSUME NEW v \in Int, Remaining(v)[WIDTH] = 0
    PROVE  to_integer(from_integer(v)) = v
<1> DEFINE t == from_integer(v)
           r == Remaining(v)
           a == Accumulated(t)
           S == {k \in 0 .. WIDTH : a[k] = r[WIDTH - k]}
<1>w. WIDTH \in Nat /\ 0 \in 0 .. WIDTH /\ WIDTH \in 0 .. WIDTH
  BY WidthAssumption
<1>1. /\ r \in [0 .. WIDTH -> Int]
      /\ r[0] = v
      /\ \A k \in 0 .. WIDTH - 1 : r[k + 1] = Shifted(r[k])
  BY RemainingDef
<1>2. \A k \in 0 .. WIDTH - 1 : t[k] = LowTrit(r[WIDTH - 1 - k])
  BY DEF from_integer, TritIndex
<1>3. t \in [TritIndex -> Int]
  BY FromIntegerIsTrits, TritsAreInts
<1> HIDE DEF t
<1>4. a[0] = 0 /\ \A k \in 0 .. WIDTH - 1 : a[k + 1] = a[k] * 3 + t[k]
  BY <1>3, AccumulatedDef
<1>5. r[WIDTH] = 0
  OBVIOUS
<1> HIDE DEF r, a
<1>6. 0 \in S
  BY <1>w, <1>4, <1>5
<1>7. ASSUME NEW k \in 0 .. WIDTH - 1, k \in S PROVE k + 1 \in S
  <2> DEFINE j == WIDTH - 1 - k
  <2>1. k + 1 \in 0 .. WIDTH /\ j \in 0 .. WIDTH - 1 /\ j \in 0 .. WIDTH
        /\ WIDTH - (k + 1) = j /\ WIDTH - k = j + 1
    BY <1>w
  <2> HIDE DEF j
  <2>2. a[k] = r[j + 1]
    BY <1>7, <2>1
  <2>3. a[k + 1] = r[j + 1] * 3 + LowTrit(r[j])
    BY <1>2, <1>4, <2>1, <2>2 DEF j
  <2>4. r[j + 1] = Shifted(r[j]) /\ r[j] \in Int
    BY <1>1, <2>1
  <2>5. r[j] = r[j + 1] * 3 + LowTrit(r[j])
    BY <2>4, LowTritSplits
  <2> QED BY <2>1, <2>3, <2>5
<1> HIDE DEF S
<1>8. 0 .. WIDTH \subseteq S
  BY <1>w, <1>6, <1>7, UpTo
<1>9. a[WIDTH] = r[0]
  <2>1. WIDTH \in S /\ WIDTH - WIDTH = 0
    BY <1>8, <1>w
  <2> QED BY <2>1 DEF S
<1> QED BY <1>1, <1>9 DEF a, t, to_integer

\* Word::from_integer and Word::to_integer are inverse on every value in range,
\* for every word width: this is what lets a word be kept as its integer.
THEOREM RoundTrip ==
    ASSUME NEW v \in Word
    PROVE  to_integer(from_integer(v)) = v
<1>1. v \in Int
  BY MaxValue DEF Word
<1> QED BY <1>1, RemainingVanishes, DigitsSumUp

\* The other way round: trits are determined by the integer they denote, so no
\* two different arrays of trits are the same word.
THEOREM TritsRoundTrip ==
    ASSUME NEW t \in Trits
    PROVE  from_integer(to_integer(t)) = t
<1> DEFINE v == to_integer(t)
           r == Remaining(v)
           a == Accumulated(t)
           S == {k \in 0 .. WIDTH : r[k] = a[WIDTH - k]}
<1>w. WIDTH \in Nat /\ 0 \in 0 .. WIDTH
  BY WidthAssumption
<1>1. /\ a \in [0 .. WIDTH -> Int] /\ v = a[WIDTH]
      /\ \A k \in 0 .. WIDTH - 1 : a[k + 1] = a[k] * 3 + t[k]
  BY TritsAreInts, AccumulatedDef DEF to_integer
<1>2. v \in Int
  BY <1>1, <1>w
<1>3. r[0] = v /\ \A k \in 0 .. WIDTH - 1 : r[k + 1] = Shifted(r[k])
  BY <1>2, RemainingDef
<1>4. \A k \in 0 .. WIDTH - 1 : t[k] \in {-1, 0, 1}
  BY DEF Trits, TritIndex, Trit
<1>5. \A i \in TritIndex : from_integer(v)[i] = LowTrit(r[WIDTH - 1 - i])
  BY DEF from_integer
<1> HIDE DEF v, r, a
<1>6. ASSUME NEW k \in 0 .. WIDTH - 1, r[k] = a[WIDTH - k]
      PROVE  LowTrit(r[k]) = t[WIDTH - 1 - k] /\ r[k + 1] = a[WIDTH - (k + 1)]
  <2> DEFINE j == WIDTH - 1 - k
  <2>1. j \in 0 .. WIDTH - 1 /\ j \in 0 .. WIDTH /\ WIDTH - k = j + 1 /\ WIDTH - (k + 1) = j
    BY <1>w
  <2> HIDE DEF j
  <2>2. r[k] = a[j] * 3 + t[j] /\ a[j] \in Int /\ t[j] \in {-1, 0, 1}
    BY <1>1, <1>4, <1>6, <2>1
  <2>3. \A x \in Int, y \in {-1, 0, 1} : LowTrit(x * 3 + y) = y /\ Shifted(x * 3 + y) = x
    BY DEF LowTrit, Shifted
  <2>4. LowTrit(r[k]) = t[j] /\ Shifted(r[k]) = a[j]
    BY <2>2, <2>3
  <2> QED BY <1>3, <2>1, <2>4 DEF j
<1>7. 0 \in S
  BY <1>w, <1>1, <1>3
<1>8. ASSUME NEW k \in 0 .. WIDTH - 1, k \in S PROVE k + 1 \in S
  <2>1. k + 1 \in 0 .. WIDTH
    BY <1>w
  <2> QED BY <2>1, <1>6, <1>8
<1>9. S \subseteq 0 .. WIDTH /\ \A k \in S : r[k] = a[WIDTH - k]
  OBVIOUS
<1> HIDE DEF S
<1>10. 0 .. WIDTH \subseteq S
  BY <1>w, <1>7, <1>8, UpTo
<1>11. \A i \in TritIndex : from_integer(v)[i] = t[i]
  <2> TAKE i \in TritIndex
  <2> DEFINE k == WIDTH - 1 - i
  <2>1. k \in 0 .. WIDTH - 1 /\ k \in 0 .. WIDTH /\ WIDTH - 1 - k = i
    BY <1>w DEF TritIndex
  <2> HIDE DEF k
  <2>2. LowTrit(r[k]) = t[i]
    BY <2>1, <1>6, <1>9, <1>10
  <2> QED BY <2>2, <1>5 DEF k
<1>12. from_integer(v) \in Trits
  BY <1>2, FromIntegerIsTrits
<1>13. t = from_integer(v)
  BY <1>11, <1>12 DEF Trits
<1> QED BY <1>13 DEF v
-----------------------------------------------------------------------------
(* The word of zeros, which memory reads as where nothing was written. *)

\* The loop of to_integer on trits, with its facts in one place.
LEMMA TritSums ==
    ASSUME NEW t \in Trits
    PROVE  /\ Accumulated(t) \in [0 .. WIDTH -> Int] /\ Accumulated(t)[0] = 0
           /\ \A k \in 0 .. WIDTH - 1 : Accumulated(t)[k + 1] = Accumulated(t)[k] * 3 + t[k]
           /\ \A k \in 0 .. WIDTH - 1 : t[k] \in {-1, 0, 1}
           /\ WIDTH \in Nat /\ WIDTH \in 0 .. WIDTH /\ 0 \in 0 .. WIDTH /\ TritIndex = 0 .. WIDTH - 1
<1>1. \A k \in 0 .. WIDTH - 1 : t[k] \in {-1, 0, 1}
  BY DEF Trits, TritIndex, Trit
<1>2. WIDTH \in Nat /\ WIDTH \in 0 .. WIDTH /\ 0 \in 0 .. WIDTH /\ TritIndex = 0 .. WIDTH - 1
  BY WidthAssumption DEF TritIndex
<1> QED BY <1>1, <1>2, TritsAreInts, AccumulatedDef

\* Nothing but zeros sums to nothing.
LEMMA ZerosSum ==
    ASSUME NEW t \in Trits, NEW k \in 0 .. WIDTH, \A i \in 0 .. k - 1 : t[i] = 0
    PROVE  Accumulated(t)[k] = 0
<1> DEFINE a == Accumulated(t)
           S == {m \in 0 .. k : a[m] = 0}
<1>1. /\ a[0] = 0 /\ \A h \in 0 .. WIDTH - 1 : a[h + 1] = a[h] * 3 + t[h]
      /\ WIDTH \in Nat
  BY TritSums
<1> HIDE DEF a
<1>2. 0 \in S
  BY <1>1
<1>3. ASSUME NEW m \in 0 .. k - 1, m \in S PROVE m + 1 \in S
  <2>1. m \in 0 .. WIDTH - 1 /\ m + 1 \in 0 .. k /\ t[m] = 0 /\ a[m] = 0
    BY <1>1, <1>3
  <2> QED BY <1>1, <2>1
<1>4. \A m \in S : a[m] = 0
  OBVIOUS
<1> HIDE DEF S
<1>5. 0 .. k \subseteq S
  BY <1>2, <1>3, UpTo
<1> QED BY <1>4, <1>5 DEF a

Zeros == [i \in TritIndex |-> 0]

\* Zero is the word of zeros.
LEMMA ZerosAreZero == Zeros \in Trits /\ to_integer(Zeros) = 0 /\ from_integer(0) = Zeros
<1>1. Zeros \in Trits /\ \A i \in 0 .. WIDTH - 1 : Zeros[i] = 0
  BY DEF Zeros, Trits, Trit, TritIndex
<1>2. WIDTH \in 0 .. WIDTH
  BY WidthAssumption
<1>3. to_integer(Zeros) = 0
  BY <1>1, <1>2, ZerosSum DEF to_integer
<1> QED BY <1>1, <1>3, TritsRoundTrip

-----------------------------------------------------------------------------
\* Every ALU operator is closed: from_integer inside a noexcept operator never
\* throws, and the trit-wise operators build words.
LEMMA WrapIsWord ==
    ASSUME NEW v \in Int
    PROVE  wrap(v) \in Word
  BY MaxValue DEF wrap, CRem, MODULUS, HALF_MODULUS, Word, MIN_VALUE

LEMMA TritsOf ==
    ASSUME NEW v \in Word, NEW i \in TritIndex
    PROVE  from_integer(v)[i] \in {-1, 0, 1}
<1>1. v \in Int
  BY MaxValue DEF Word
<1> QED BY <1>1, FromIntegerIsTrits DEF Trits, Trit

LEMMA ArithmeticIsWord ==
    ASSUME NEW x \in Word, NEW y \in Word
    PROVE  add(x, y) \in Word /\ sub(x, y) \in Word /\ mul(x, y) \in Word
<1>1. x \in Int /\ y \in Int
  BY MaxValue DEF Word
<1>2. x + y \in Int /\ x - y \in Int /\ x * y \in Int
  BY <1>1
<1> QED BY <1>2, WrapIsWord DEF add, sub, mul

LEMMA LogicIsWord ==
    ASSUME NEW x \in Word, NEW y \in Word
    PROVE  /\ tand(x, y) \in Word /\ tor(x, y) \in Word
           /\ txor(x, y) \in Word /\ tnot(x) \in Word
<1> DEFINE l == from_integer(x)
           r == from_integer(y)
<1>1. \A i \in TritIndex : l[i] \in {-1, 0, 1} /\ r[i] \in {-1, 0, 1}
  BY TritsOf
<1> HIDE DEF l, r
<1>2. [i \in TritIndex |-> IF l[i] < r[i] THEN l[i] ELSE r[i]] \in Trits
  BY <1>1 DEF Trits, Trit
<1>3. [i \in TritIndex |-> IF l[i] > r[i] THEN l[i] ELSE r[i]] \in Trits
  BY <1>1 DEF Trits, Trit
<1>4. [i \in TritIndex |-> Disagreement(l[i], r[i])] \in Trits
  BY <1>1 DEF Trits, Trit, Disagreement
<1>5. [i \in TritIndex |-> -l[i]] \in Trits
  BY <1>1 DEF Trits, Trit
<1>6. tand(x, y) \in Word
  BY <1>2, ToIntegerIsWord DEF tand, l, r
<1>7. tor(x, y) \in Word
  BY <1>3, ToIntegerIsWord DEF tor, l, r
<1>8. txor(x, y) \in Word
  BY <1>4, ToIntegerIsWord DEF txor, l, r
<1>9. tnot(x) \in Word
  BY <1>5, ToIntegerIsWord DEF tnot, l
<1> QED BY <1>6, <1>7, <1>8, <1>9

LEMMA ShiftIsWord ==
    ASSUME NEW x \in Word, NEW amount \in Word
    PROVE  shift(x, amount) \in Word
<1> DEFINE t == from_integer(x)
<1>1. \A i \in TritIndex : t[i] \in {-1, 0, 1}
  BY TritsOf
<1> HIDE DEF t
<1>2. [i \in TritIndex |-> IF i + amount \in TritIndex THEN t[i + amount] ELSE 0] \in Trits
  BY <1>1 DEF Trits, Trit
<1> QED BY <1>2, ToIntegerIsWord DEF shift, t

LEMMA CompareIsSign ==
    ASSUME NEW x \in Word, NEW y \in Word
    PROVE  compare(x, y) \in {Less, Equal, Greater}
  BY DEF compare

\* Every two trits name a register: the fall-back of decode_register is dead.
LEMMA RegisterTableIsTotal ==
    ASSUME NEW a \in {-1, 0, 1}, NEW b \in {-1, 0, 1}
    PROVE  \E reg \in Register : REGISTER_ENCODING[reg] = << a, b >>
<1> DEFINE reg == 3 * (a + 1) + (b + 1)
<1>1. reg \in Register /\ (reg \div 3) - 1 = a /\ (reg % 3) - 1 = b
  BY DEF Register
<1> HIDE DEF reg
<1>2. REGISTER_ENCODING[reg] = << (reg \div 3) - 1, (reg % 3) - 1 >>
  BY <1>1 DEF REGISTER_ENCODING
<1> QED BY <1>1, <1>2

\* Whatever word is fetched, its registers exist and its immediate is a word.
LEMMA DecodeIsTyped ==
    ASSUME NEW w \in Word
    PROVE  /\ decode(w).rd \in Register
           /\ decode(w).rs1 \in Register
           /\ decode(w).rs2 \in Register
           /\ decode(w).immediate \in Word
<1> DEFINE t == from_integer(w)
<1>1. \A i \in TritIndex : t[i] \in {-1, 0, 1}
  BY TritsOf
<1> HIDE DEF t
<1>2. \A i \in 0 .. 8 : i \in TritIndex
  BY WidthAssumption, FormatAssumption DEF TritIndex, CARGO_OFFSET
<1>3. \A offset \in {3, 5, 7} : decode_register(t, offset) \in Register
  <2>1. TAKE offset \in {3, 5, 7}
  <2>2. t[offset] \in {-1, 0, 1} /\ t[offset + 1] \in {-1, 0, 1}
    BY <1>1, <1>2
  <2>3. \E reg \in Register : REGISTER_ENCODING[reg] = << t[offset], t[offset + 1] >>
    BY <2>2, RegisterTableIsTotal
  <2> QED BY <2>3 DEF decode_register
<1>4. immediate(t) \in Word
  <2>1. [i \in TritIndex |-> IF i < CARGO_OFFSET THEN 0 ELSE t[i]] \in Trits
    BY <1>1 DEF Trits, Trit
  <2> QED BY <2>1, ToIntegerIsWord DEF immediate
<1>5. decode(w) = [opcode    |-> opcode(t),
                   rd        |-> decode_register(t, 3),
                   rs1       |-> decode_register(t, 5),
                   rs2       |-> decode_register(t, 7),
                   immediate |-> immediate(t)]
  BY DEF decode, t, RD_OFFSET, RS1_OFFSET, RS2_OFFSET
<1> QED BY <1>3, <1>4, <1>5
=============================================================================
