-------------------------------- MODULE ALU --------------------------------
(***************************************************************************)
(* The operators of src/src/vm/alu.hpp.  All of them are noexcept in the   *)
(* code, so every result must be a word.                                   *)
(***************************************************************************)
EXTENDS TernaryWord

HALF_MODULUS == MAX_VALUE
MODULUS      == 2 * HALF_MODULUS + 1

\* mutant: no correction below -HALF_MODULUS
WrapAboveOnly(value) ==
    LET residue == CRem(value, MODULUS)
    IN  IF residue > HALF_MODULUS THEN residue - MODULUS ELSE residue

\* one C++ remainder and at most one correction by the modulus
wrap(value) ==
    LET residue == CRem(value, MODULUS)
    IN  IF residue > HALF_MODULUS THEN residue - MODULUS
        ELSE IF residue < -HALF_MODULUS THEN residue + MODULUS
        ELSE residue

\* mutant: a sum that is not wrapped
AddUnwrapped(lhs, rhs) == lhs + rhs

add(lhs, rhs) == wrap(lhs + rhs)
sub(lhs, rhs) == wrap(lhs - rhs)
mul(lhs, rhs) == wrap(lhs * rhs)

tand(lhs, rhs) ==
    LET l == from_integer(lhs)
        r == from_integer(rhs)
    IN  to_integer([i \in TritIndex |-> IF l[i] < r[i] THEN l[i] ELSE r[i]])

tor(lhs, rhs) ==
    LET l == from_integer(lhs)
        r == from_integer(rhs)
    IN  to_integer([i \in TritIndex |-> IF l[i] > r[i] THEN l[i] ELSE r[i]])

\* mutant: a zero on the right counts as opposite signs
DisagreementOneSided(a, b) == IF a = b THEN 0 ELSE IF a = 0 THEN -1 ELSE 1

\* 0 on agreement, 1 on opposite signs, -1 when exactly one of the trits is 0
Disagreement(a, b) ==
    IF a = b THEN 0 ELSE IF a = 0 \/ b = 0 THEN -1 ELSE 1

txor(lhs, rhs) ==
    LET l == from_integer(lhs)
        r == from_integer(rhs)
    IN  to_integer([i \in TritIndex |-> Disagreement(l[i], r[i])])

tnot(value) ==
    LET t == from_integer(value)
    IN  to_integer([i \in TritIndex |-> -t[i]])

\* mutant: the direction is inverted
ShiftBackwards(value, amount) ==
    LET t == from_integer(value)
    IN  to_integer([i \in TritIndex |->
                       IF i - amount \in TritIndex THEN t[i - amount] ELSE 0])

\* a positive amount moves towards the most significant trit; trits pushed
\* over an edge are lost, so an amount of WIDTH or more leaves zero
shift(value, amount) ==
    LET t == from_integer(value)
    IN  to_integer([i \in TritIndex |->
                       IF i + amount \in TritIndex THEN t[i + amount] ELSE 0])

Less    == -1
Equal   == 0
Greater == 1

compare(lhs, rhs) ==
    IF lhs < rhs THEN Less ELSE IF lhs > rhs THEN Greater ELSE Equal
=============================================================================
