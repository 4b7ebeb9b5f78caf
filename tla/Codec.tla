------------------------------- MODULE Codec -------------------------------
(***************************************************************************)
(* What the conversions between integers, trits and instructions promise,  *)
(* as predicates of one value; a behaviour inspects one value of a word.   *)
(***************************************************************************)
EXTENDS Instruction, Tryte, TrnFormat

VARIABLE value

Init == value \in Word
Next == UNCHANGED value
Spec == Init /\ [][Next]_value

\* Word::from_integer writes WIDTH trits whose to_integer is the value again,
\* and its loop always ends with remaining = 0: the second throw of
\* word.hpp:46 is unreachable.
WordRoundTrip ==
    /\ from_integer(value) \in Trits
    /\ to_integer(from_integer(value)) = value
    /\ Remaining(value)[WIDTH] = 0

\* The top-down digit correction of Tryte::from_integer and the bottom-up
\* carry of Word::from_integer find the same trits for every value that the range
\* check of the tryte admits, Tryte::to_integer adds them up to that value again,
\* and the check admits exactly the words whose trits above those nine are zero.
TryteAgreesWithWord ==
    (\A i \in 0 .. WIDTH - TRYTE_WIDTH - 1 : from_integer(value)[i] = 0) <=>
        /\ TryteFits(value)
        /\ tryte_to_integer(tryte_from_integer(value)) = value
        /\ \A i \in 0 .. TRYTE_WIDTH - 1 :
              tryte_from_integer(value)[i] = from_integer(value)[WIDTH - TRYTE_WIDTH + i]

\* A word written to a file by encode_word, whose loop divides with the host's
\* truncating division and corrects what is left over, is made of the trits
\* that Word::from_integer finds in its own way.
FormatAgreesWithWord == encode_word(value) = from_integer(value)

\* Every word is the encoding of exactly what it decodes to: the fields do not
\* overlap, leave no trit out, and encode is the inverse of the accessors.
CanonicalEncoding ==
    LET t == from_integer(value)
        i == decode(value)
    IN  /\ i.opcode \in Opcode /\ {i.rd, i.rs1, i.rs2} \subseteq Register
        /\ encode(i.opcode, i.rd, i.rs1, i.rs2,
                  [k \in CargoIndex |-> t[CARGO_OFFSET + k]]) = value
        /\ (value - i.immediate) % power_of_three(CARGO_WIDTH) = 0
=============================================================================
