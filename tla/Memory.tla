------------------------------- MODULE Memory ------------------------------
(***************************************************************************)
(* The sparse memory of src/src/vm/memory.hpp: a map from addresses to     *)
(* words in which an address that is absent reads as zero, and a write of  *)
(* zero erases the entry.                                                  *)
(***************************************************************************)
EXTENDS TernaryWord, FiniteSets

VARIABLE storage   \* the unordered_map storage_

EmptyStorage == [address \in {} |-> 0]

\* one type invariant: the keys and values are words, and no zero is stored
StorageOK ==
    /\ DOMAIN storage \subseteq Word
    /\ storage \in [DOMAIN storage -> Word \ {0}]

read(address) == IF address \in DOMAIN storage THEN storage[address] ELSE 0

\* mutants: a zero is stored like any value, a zero is not written at all
WrittenKeepingZeros(store, address, value) ==
    [a \in DOMAIN store \union {address} |-> IF a = address THEN value ELSE store[a]]

WrittenIgnoringZeros(store, address, value) ==
    IF value = 0 THEN store ELSE WrittenKeepingZeros(store, address, value)

\* the map after write(address, value)
Written(store, address, value) ==
    IF value = 0
    THEN [a \in DOMAIN store \ {address} |-> store[a]]
    ELSE [a \in DOMAIN store \union {address} |->
             IF a = address THEN value ELSE store[a]]

write(address, value) == storage' = Written(storage, address, value)
clear                 == storage' = EmptyStorage
size                  == Cardinality(DOMAIN storage)
=============================================================================
