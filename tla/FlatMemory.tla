----------------------------- MODULE FlatMemory ----------------------------
(***************************************************************************)
(* What a program sees of the memory: every address holds a word, all of   *)
(* them zero at first, a read returns the last word written, and the size  *)
(* is the number of words that are not zero.  call is the latest call with *)
(* its arguments and its result.                                           *)
(***************************************************************************)
EXTENDS TernaryWord, FiniteSets

VARIABLES cells, call

Init == cells = [a \in Word |-> 0] /\ call = [op |-> "none"]

Write(a, v) ==
    /\ cells' = [cells EXCEPT ![a] = v]
    /\ call' = [op |-> "write", address |-> a, value |-> v]

Read(a) ==
    /\ call' = [op |-> "read", address |-> a, value |-> cells[a]]
    /\ UNCHANGED cells

Clear ==
    /\ cells' = [a \in Word |-> 0]
    /\ call' = [op |-> "clear"]

Size ==
    /\ call' = [op |-> "size", value |-> Cardinality({a \in Word : cells[a] # 0})]
    /\ UNCHANGED cells

Next == Clear \/ Size \/ \E a \in Word : Read(a) \/ \E v \in Word : Write(a, v)
Spec == Init /\ [][Next]_<< cells, call >>
=============================================================================
