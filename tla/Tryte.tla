------------------------------- MODULE Tryte -------------------------------
(***************************************************************************)
(* The nine-trit unit of src/src/ternary/tryte.hpp.  Its from_integer is   *)
(* not the algorithm of Word: it works from the most significant trit,     *)
(* divides by a power of three and corrects the digit when the remainder   *)
(* is out of reach of the trits still to come.                             *)
(***************************************************************************)
EXTENDS TernaryWord

\* Tryte::WIDTH
TRYTE_WIDTH == 9
TRYTE_MAX_VALUE == 9841   \* MIN_VALUE is its negation

\* the range check of Tryte::from_integer: FALSE is std::out_of_range
TryteFits(v) == v \in -TRYTE_MAX_VALUE .. TRYTE_MAX_VALUE

\* C++ division truncates towards zero
CDiv(n, m) == IF n >= 0 THEN n \div m ELSE -((-n) \div m)

Clamp(digit) == IF digit > 1 THEN 1 ELSE IF digit < -1 THEN -1 ELSE digit

\* mutant: no correction by the remainder
GreedyDigitUncorrected(remaining, place) == Clamp(CDiv(remaining, place))

GreedyDigit(remaining, place) ==
    LET remainder == CRem(remaining, place)
        half      == place \div 2
    IN  Clamp(CDiv(remaining, place) + (IF remainder > half THEN 1
                                        ELSE IF remainder < -half THEN -1 ELSE 0))

Place(i) == power_of_three(TRYTE_WIDTH - 1 - i)

\* remaining before the turn of the loop that writes trit i
GreedyRemaining(v) ==
    LET Left(n, i) == n - GreedyDigit(n, Place(i)) * Place(i)
        remaining[i \in 0 .. TRYTE_WIDTH] ==
            IF i = 0 THEN v ELSE Left(remaining[i - 1], i - 1)
    IN  remaining

\* defined for values that fit
tryte_from_integer(v) ==
    [i \in 0 .. TRYTE_WIDTH - 1 |-> GreedyDigit(GreedyRemaining(v)[i], Place(i))]

\* value after i turns of the loop of Tryte::to_integer, for every i
TryteSum(t) ==
    LET value[i \in 0 .. TRYTE_WIDTH] ==
            IF i = 0 THEN 0 ELSE value[i - 1] + t[i - 1] * Place(i - 1)
    IN  value

tryte_to_integer(t) == TryteSum(t)[TRYTE_WIDTH]
=============================================================================
