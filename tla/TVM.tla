--------------------------------- MODULE TVM -------------------------------
(***************************************************************************)
(* The virtual machine of src/src/runtime/tvm.cpp: the loader and the      *)
(* executor on one machine, under a host that calls load, step and run and *)
(* may change the machine between calls through the reference machine()    *)
(* returns.  Nothing else runs during a call.                              *)
(***************************************************************************)
EXTENDS Executor, ImageLoader

CONSTANTS HostCPUs,     \* the CPU states the host may write
          HostWrites,   \* the pairs of an address and a word it may write to memory
          MaxContexts   \* bound on the contexts the host saves

ASSUME HostAssumption ==
    /\ HostCPUs \subseteq CPUState
    /\ HostWrites \subseteq Word \X Word
    /\ MaxContexts \in Nat

allvars == << vars, loader >>

Init ==
    /\ NewMachine
    /\ image = [sections |-> << >>]
    /\ at = [section |-> 1, word |-> 1]
    /\ call = "none"

\* TVM::step returns without a word when the machine is halted
Step ==
    /\ call = "none"
    /\ \/ halted /\ outcome' = "ok" /\ UNCHANGED machine
       \/ ~halted /\ step
    /\ UNCHANGED loader

Run ==
    /\ call = "none"
    /\ call' = "run"
    /\ UNCHANGED << vars, image, at >>

\* mutant: run() returns after one step
RunTurnOnce ==
    /\ call = "run"
    /\ call' = "none"
    /\ \/ halted /\ outcome' = "ok" /\ UNCHANGED machine
       \/ ~halted /\ step
    /\ UNCHANGED << image, at >>

\* one test of the loop condition of run(); an exception ends the call
RunTurn ==
    /\ call = "run"
    /\ \/ /\ halted
          /\ outcome' = "ok"
          /\ call' = "none"
          /\ UNCHANGED machine
       \/ /\ ~halted
          /\ step
          /\ call' = IF outcome' = "ok" THEN "run" ELSE "none"
    /\ UNCHANGED << image, at >>

\* what the host can do to the machine through machine()
HostCPU == cpu' \in HostCPUs /\ outcome' = "ok" /\ UNCHANGED << storage, contexts, halted >>

HostWrite ==
    /\ \E w \in HostWrites : write(w[1], w[2])
    /\ outcome' = "ok"
    /\ UNCHANGED << cpu, contexts, halted >>

HostSave ==
    /\ Len(contexts) < MaxContexts
    /\ \E cause \in TransitionCause : save_context(cause)

HostHalt == halt /\ outcome' = "ok" /\ UNCHANGED << cpu, storage, contexts >>
HostReset == reset /\ outcome' = "ok"

\* the host between two calls
Host ==
    /\ call = "none"
    /\ HostCPU \/ HostWrite \/ HostSave \/ restore_context \/ HostHalt \/ HostReset
    /\ UNCHANGED loader

Load == \E img \in Images : load(img)

Next == Load \/ LoadTurn \/ Step \/ Run \/ RunTurn \/ Host

Spec == Init /\ [][Next]_allvars
-----------------------------------------------------------------------------
TvmTypeOK ==
    /\ TypeOK
    /\ call \in {"none", "load", "run"}
    /\ at.section \in Nat /\ at.word \in Nat

\* the addresses of a section
Extent(sec) == sec.virtual_address .. sec.virtual_address + sec.memory_size - 1

\* the payload words of an image in the order they are written
Slots(img) ==
    UNION {{<< s, w >> : w \in DOMAIN img.sections[s].words} : s \in DOMAIN img.sections}

SlotAddress(img, p) == img.sections[p[1]].virtual_address + p[2] - 1
SlotWord(img, p)    == img.sections[p[1]].words[p[2]]
Before(p, q)        == p[1] < q[1] \/ (p[1] = q[1] /\ p[2] < q[2])

\* p is the last of the writes to its address
Latest(img, slots, p) ==
    \A q \in slots : SlotAddress(img, q) = SlotAddress(img, p) => ~Before(p, q)

\* the memory a list of writes leaves: at each address the last one, if it is
\* not zero
Kept(img, slots) == {p \in slots : Latest(img, slots, p) /\ SlotWord(img, p) # 0}

Contents(img, slots) ==
    [a \in {SlotAddress(img, p) : p \in Kept(img, slots)} |->
        SlotWord(img, CHOOSE p \in Kept(img, slots) : SlotAddress(img, p) = a)]

LoadedStep ==
    SetEntry =>
        /\ outcome' = "ok"
        /\ cpu' = [ResetCPU EXCEPT !.pc = image.entry_point]
        /\ storage' = Contents(image, Slots(image))
        /\ contexts' = << >> /\ ~halted'

\* A successful load leaves a machine that depends on the image alone, whatever
\* ran before: reset CPU with PC at the entry point, no saved context, not
\* halted, and exactly the payload in memory, a later section over an earlier
\* one.  The entry point of a valid image always converts to a word.
LoadDependsOnImageOnly == [][LoadedStep]_allvars

FailedLoadStep ==
    /\ outcome' = "ImageLoadError" /\ Load => UNCHANGED machine /\ call' = "none"
    /\ outcome' = "out_of_range" /\ LoadWord =>
         /\ cpu' = ResetCPU /\ contexts' = << >> /\ ~halted'
         /\ storage' = Contents(image, {p \in Slots(image) : Before(p, << at.section, at.word >>)})

\* A load that fails has one of two effects: an image that validate rejects
\* leaves the machine as it was; one whose addresses leave the address space
\* leaves a reset machine with PC 0 that holds the words before the first bad
\* address.
FailedLoadEffects == [][FailedLoadStep]_allvars

\* The .bss contract (ARCHITECTURE 37.14): once an image is loaded, every word
\* of its .bss is zero.  The loader clears the memory and writes no .bss word,
\* but it lets another section share the addresses.
BssIsZero ==
    [][ SetEntry /\ outcome' = "ok" =>
          \A s \in DOMAIN image.sections :
              image.sections[s].type = "Bss" =>
                  \A a \in Extent(image.sections[s]) : a \in Word => read(a)' = 0 ]_allvars
=============================================================================
