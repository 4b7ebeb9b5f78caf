----------------------------- MODULE CallFrames ----------------------------
(***************************************************************************)
(* Subroutines on the executor: a machine that was handed a program and is *)
(* stepped.  The code keeps return addresses in the same unprotected       *)
(* memory as the program; the history variables record what a stack of     *)
(* calls ought to be, to say when the memory still agrees with it.         *)
(***************************************************************************)
EXTENDS Executor

CONSTANT Starts   \* the machines a step loop may begin with: CPU and memory

ASSUME StartAssumption ==
    \A s \in Starts :
        /\ s.cpu \in CPUState
        /\ DOMAIN s.storage \subseteq Word
        /\ s.storage \in [DOMAIN s.storage -> Word \ {0}]

VARIABLES start,      \* the element of Starts the behaviour began with
          frames,     \* return addresses of the calls in progress
          disturbed,  \* a RET without a CALL, or a ST into a live stack slot
          patched     \* a ST at an address of the initial image

history == << start, frames, disturbed, patched >>

Top       == start.cpu.sp
LiveSlots == Top - Len(frames) .. Top - 1

Init ==
    /\ start \in Starts
    /\ cpu = start.cpu
    /\ storage = start.storage
    /\ contexts = << >>
    /\ halted = FALSE
    /\ outcome = "ok"
    /\ frames = << >>
    /\ disturbed = FALSE
    /\ patched = FALSE

\* what executing i means for the calls in progress; a ST that throws has
\* already written
Observe(i) ==
    /\ start' = start
    /\ frames' = IF i.opcode = "CALL" /\ outcome' = "ok" THEN Append(frames, NextPc)
                 ELSE IF i.opcode = "RET" /\ frames # << >>
                      THEN SubSeq(frames, 1, Len(frames) - 1)
                 ELSE frames
    /\ disturbed' = \/ disturbed
                    \/ i.opcode = "RET" /\ frames = << >>
                    \/ i.opcode = "ST" /\ StoreAddress(i) \in LiveSlots
    /\ patched' = \/ patched
                  \/ i.opcode = "ST" /\ StoreAddress(i) \in DOMAIN start.storage

Next ==
    /\ step
    /\ IF halted THEN UNCHANGED history ELSE Observe(Fetched)

Spec == Init /\ [][Next]_<< vars, history >>
-----------------------------------------------------------------------------
FrameTypeOK ==
    /\ TypeOK
    /\ Top \in Word
    /\ frames \in Seq(Word)
    /\ disturbed \in BOOLEAN
    /\ patched \in BOOLEAN

\* The stack convention (ARCHITECTURE 16.8) under any nesting of calls, jumps
\* and stores: SP is below its initial value by the number of calls in
\* progress, and each slot between holds the address its call returns to.
FramesIntact ==
    ~disturbed =>
        /\ cpu.sp = Top - Len(frames)
        /\ \A k \in 1 .. Len(frames) : read(Top - k) = frames[k]

\* CALL never overwrites the program: as long as returns match calls and no ST
\* hits the image, the words of the image that lie at or above the initial SP
\* (all of them, for a loaded image: SP starts at 0) are what was loaded.
ImageIntact ==
    ~disturbed /\ ~patched =>
        \A a \in DOMAIN start.storage : a >= Top => read(a) = start.storage[a]

ReturnStep ==
    ~halted /\ Fetched.opcode = "RET" /\ frames # << >> /\ ~disturbed
      => /\ outcome' = "ok"
         /\ cpu'.pc = frames[Len(frames)]
         /\ frames' = SubSeq(frames, 1, Len(frames) - 1)

\* A RET resumes after the CALL it matches, however control went in between.
ReturnsToCaller == [][ReturnStep]_<< vars, history >>

\* the opcodes that assign Rd
Assigning == {"LDI", "MOV", "ADD", "SUB", "MUL", "TAND", "TOR", "TXOR", "TNOT", "SHF", "LD", "LEA"}

\* what a step that throws has left different, by the part of the machine
RegistersLeft == \A r \in Register :
    cpu'.registers[r] # cpu.registers[r]
        => ~halted /\ Fetched.opcode \in Assigning /\ r = Fetched.rd

StatusLeft == cpu'.status # cpu.status => ~halted /\ Fetched.opcode = "CMP"

PcLeft ==
    cpu'.pc # cpu.pc
        => ~halted /\ Fetched.opcode = "RET" /\ cpu.sp = MAX_VALUE /\ cpu'.pc = read(cpu.sp)

MemoryLeft == \A a \in DOMAIN storage \union DOMAIN storage' :
    read(a)' # read(a)
        => /\ ~halted /\ Fetched.opcode = "ST"
           /\ a = StoreAddress(Fetched) /\ read(a)' = R(Fetched.rs1)

\* where a step can throw at all
MayThrow ==
    /\ outcome' = "out_of_range" =>
           /\ ~halted
           /\ \/ cpu.pc = MAX_VALUE /\ Fetched.opcode \notin {"HLT", "JMP", "RET"}
              \/ cpu.sp = MAX_VALUE /\ Fetched.opcode = "RET"
              \/ cpu.sp = MIN_VALUE /\ Fetched.opcode = "CALL"
    /\ outcome' = "ExecutionError" =>
           halted \/ Fetched.opcode \in {"IN", "OUT", "SYS", "IRET", "SWAP"}

FailureStep ==
    outcome' # "ok" =>
        /\ UNCHANGED << contexts, halted >>
        /\ cpu'.sp = cpu.sp /\ cpu'.ksp = cpu.ksp /\ cpu'.privilege = cpu.privilege
        /\ RegistersLeft /\ StatusLeft /\ PcLeft /\ MemoryLeft
        /\ MayThrow

\* A step that throws is not atomic, but what it can leave behind is contained.
\* It throws only at the ends of the address space, on an opcode with no
\* implementation or when halted, and never changes SP, KSP, the privilege, the
\* saved contexts or the halted flag.  The opcode's own destination may have
\* been assigned: Rd by an opcode that has one, STATUS by CMP, the addressed
\* word by ST, PC by a RET at the top of the address space.  Nothing else
\* differs; a CALL that throws has changed nothing.
FailureIsContained == [][FailureStep]_<< vars, history >>

\* Running off the end of a program is neither a halt nor an error: a word
\* that was never written is the instruction ST R4, R4, 0, so every step on it
\* stores R4 at the address R4 and goes on.
ZeroWordStores ==
    [][ ~halted /\ read(cpu.pc) = 0 =>
          /\ storage' = Written(storage, R(4), R(4))
          /\ cpu' = [cpu EXCEPT !.pc = IF NextPc > MAX_VALUE THEN @ ELSE NextPc]
      ]_<< vars, history >>
=============================================================================
