---------------------------- MODULE TernaryWord ----------------------------
(***************************************************************************)
(* The balanced-ternary machine word of src/src/ternary/word.hpp.          *)
(*                                                                         *)
(* A C++ Word is an array of WIDTH trits, index 0 the most significant.    *)
(* from_integer and to_integer are inverse bijections between the arrays   *)
(* and MIN_VALUE .. MAX_VALUE (run codec), so the other modules keep       *)
(* a word as its integer and go through the trits where the code does.     *)
(* Recursion is written as functions, so that theorems can use the module. *)
(***************************************************************************)
EXTENDS Integers

CONSTANT WIDTH   \* 27 in the code

ASSUME WidthAssumption == WIDTH \in Nat \ {0}

Trit      == {-1, 0, 1}
TritIndex == 0 .. WIDTH - 1
Trits     == [TritIndex -> Trit]

\* value after k turns of the loop of Word::to_integer, for every k
Accumulated(t) ==
    LET value[k \in 0 .. WIDTH] ==
            IF k = 0 THEN 0 ELSE value[k - 1] * 3 + t[k - 1]
    IN  value

to_integer(t) == Accumulated(t)[WIDTH]

\* the loop of Tryte::power_of_three
power_of_three(exponent) ==
    LET result[k \in 0 .. exponent] == IF k = 0 THEN 1 ELSE result[k - 1] * 3
    IN  result[exponent]

MAX_VALUE == to_integer([i \in TritIndex |-> 1])
MIN_VALUE == -MAX_VALUE
Word      == MIN_VALUE .. MAX_VALUE

\* mutant: the range check is gone
FitsAlways(value) == TRUE

\* the range check of Word::from_integer: FALSE is std::out_of_range
Fits(value) == MIN_VALUE <= value /\ value <= MAX_VALUE

\* the C++ remainder, which takes the sign of its left operand
CRem(n, m) == IF n >= 0 THEN n % m ELSE -((-n) % m)

\* the trit one turn of the loop of from_integer writes: the balanced residue
\* of n, which the code gets from n % 3 by writing 2 as -1 with a carry and -2
\* as 1 with a borrow
LowTrit(n) == ((n + 1) % 3) - 1

\* mutant: the carry of a trit written as -1 is forgotten
ShiftedWithoutCarry(n) == n \div 3

\* what that turn leaves: (n + 1) / 3, (n - 1) / 3 or n / 3, always
\* (n - LowTrit(n)) / 3
Shifted(n) == (n + 1) \div 3

\* remaining after k turns of the loop of Word::from_integer, for every k
Remaining(v) ==
    LET remaining[k \in 0 .. WIDTH] ==
            IF k = 0 THEN v ELSE Shifted(remaining[k - 1])
    IN  remaining

\* defined for values that fit; the loop runs from the last trit to the first
from_integer(v) == [i \in TritIndex |-> LowTrit(Remaining(v)[WIDTH - 1 - i])]
=============================================================================
