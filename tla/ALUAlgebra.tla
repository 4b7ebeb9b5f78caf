---------------------------- MODULE ALUAlgebra -----------------------------
(***************************************************************************)
(* What the ALU promises of its results, for one pair of operands.         *)
(***************************************************************************)
EXTENDS ALU

VARIABLES lhs, rhs

operands == << lhs, rhs >>

AlgebraInit == lhs \in Word /\ rhs \in Word
AlgebraNext == UNCHANGED operands
AlgebraSpec == AlgebraInit /\ [][AlgebraNext]_operands

Congruent(result, exact) == result \in Word /\ (result - exact) % MODULUS = 0

\* ADD, SUB and MUL return the one word congruent to the exact result modulo
\* 3^WIDTH, for every pair of operands: the single correction step of wrap is
\* enough, and from_integer never throws inside a noexcept operator.
ArithmeticIsModular ==
    /\ Congruent(add(lhs, rhs), lhs + rhs)
    /\ Congruent(sub(lhs, rhs), lhs - rhs)
    /\ Congruent(mul(lhs, rhs), lhs * rhs)
    /\ MODULUS = power_of_three(WIDTH)

\* The trit-wise operators and the arithmetic agree: TNOT negates, SUB is
\* addition of the inverted operand (ARCHITECTURE 14.3), TAND and TOR are
\* each other's dual under TNOT, TXOR is symmetric and zero exactly on equal
\* words (ARCHITECTURE 14.8).
TritwiseLaws ==
    /\ tnot(lhs) = -lhs
    /\ sub(lhs, rhs) = add(lhs, tnot(rhs))
    /\ tnot(tand(lhs, rhs)) = tor(tnot(lhs), tnot(rhs))
    /\ txor(lhs, rhs) = txor(rhs, lhs)
    /\ (txor(lhs, rhs) = 0) <=> (lhs = rhs)

\* SHF by rhs: to the left it multiplies by 3^rhs modulo 3^WIDTH, to the right
\* it divides by 3^-rhs rounding to nearest, and WIDTH trits or more leave zero
\* (ARCHITECTURE 14.10).
ShiftIsScaling ==
    /\ rhs >= WIDTH \/ rhs <= -WIDTH => shift(lhs, rhs) = 0
    /\ rhs \in 0 .. WIDTH - 1 => shift(lhs, rhs) = wrap(lhs * power_of_three(rhs))
    /\ -rhs \in 1 .. WIDTH - 1 =>
          LET lost == lhs - shift(lhs, rhs) * power_of_three(-rhs)
          IN  2 * lost < power_of_three(-rhs) /\ -2 * lost < power_of_three(-rhs)
=============================================================================
