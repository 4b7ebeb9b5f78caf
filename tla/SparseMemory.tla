---------------------------- MODULE SparseMemory ---------------------------
(***************************************************************************)
(* The memory on its own, under every sequence of calls of read, write,    *)
(* size and clear, and its refinement of the flat memory a program sees.   *)
(* request is the latest call, as in FlatMemory.                           *)
(***************************************************************************)
EXTENDS Memory

VARIABLE request

calls == << storage, request >>

MemoryInit == storage = EmptyStorage /\ request = [op |-> "none"]

Write(a, v) == write(a, v) /\ request' = [op |-> "write", address |-> a, value |-> v]

Read(a) ==
    /\ request' = [op |-> "read", address |-> a, value |-> read(a)]
    /\ UNCHANGED storage

Clear == clear /\ request' = [op |-> "clear"]

Size ==
    /\ request' = [op |-> "size", value |-> size]
    /\ UNCHANGED storage

MemoryNext == Clear \/ Size \/ \E a \in Word : Read(a) \/ \E v \in Word : Write(a, v)
MemorySpec == MemoryInit /\ [][MemoryNext]_calls
-----------------------------------------------------------------------------
Flat == INSTANCE FlatMemory WITH cells <- [address \in Word |-> read(address)],
                                 call  <- request

\* The sparse map is indistinguishable from the flat memory, whatever the
\* order of reads, writes, overwrites and erasures; size counts the words that
\* are not zero, so that writing zeros never costs an entry.
RefinesFlatMemory == Flat!Spec
=============================================================================
