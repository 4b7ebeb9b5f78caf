---------------------------- MODULE MCCallFrames ---------------------------
(***************************************************************************)
(* Words of 11 trits, a cargo of two: immediates up to 4.                  *)
(***************************************************************************)
EXTENDS CallFrames

CONSTANT MaxDepth

Cargo(imm) == [k \in CargoIndex |-> from_integer(imm)[CARGO_OFFSET + k]]
I(op, rd, rs1, rs2, imm) == encode(op, rd, rs1, rs2, Cargo(imm))

-----------------------------------------------------------------------------
(* Every program of three words from a list of calls, returns, branches and *)
(* stores into the stack and the program, at address 0, with SP at 0, as a  *)
(* loader leaves it, or at 1.                                               *)

CallWords ==
    {I("CALL", 4, 4, 4, 1), I("CALL", 4, 4, 4, 2), I("CALL", 4, 4, 4, -1),
     I("RET", 4, 4, 4, 0), I("JMP", 4, 4, 4, 2), I("JMP", 4, 4, 4, -2),
     I("CMP", 4, 1, 2, 0), I("BEQ", 4, 4, 4, 2), I("BLT", 4, 4, 4, -1),
     I("LDI", 2, 4, 4, 1), I("ST", 4, 2, 4, -1), I("ST", 4, 4, 1, 2), I("HLT", 4, 4, 4, 0)}

CallStarts ==
    [cpu : {[ResetCPU EXCEPT !.sp = sp] : sp \in {0, 1}}, storage : [0 .. 2 -> CallWords]]

-----------------------------------------------------------------------------
(* Every opcode in the last two words of the address space, with SP at both *)
(* ends of it and registers whose sums, products and shifts leave it.       *)

Program(words, base, sp, registers) ==
    [cpu |-> [ResetCPU EXCEPT !.pc = base, !.sp = sp, !.registers = registers],
     storage |-> [a \in {base + k - 1 : k \in {j \in DOMAIN words : words[j] # 0}}
                    |-> words[a - base + 1]]]

EdgeWords ==
    {I(op, 3, 1, 2, 1) : op \in Opcode} \union
    {I("JMP", 4, 4, 4, -1), I("CALL", 4, 4, 4, -1), I("BEQ", 4, 4, 4, 0), I("ST", 4, 2, 1, -1), 0}

EdgeRegisters ==
    {[r \in Register |-> CASE r = 1 -> p[1] [] r = 2 -> p[2] [] OTHER -> 0] :
        p \in {<< MAX_VALUE, 3 >>, << -5, MAX_VALUE >>}}

EdgeStarts ==
    {Program(words, MAX_VALUE - 1, sp, registers) :
        words \in [1 .. 2 -> EdgeWords],
        sp \in {MIN_VALUE, MIN_VALUE + 1, MAX_VALUE - 1, MAX_VALUE},
        registers \in EdgeRegisters}

MCStarts == CallStarts \union EdgeStarts

\* bounds: the depth of calls, and how far past the ends of the program
Bounded ==
    /\ Len(frames) <= MaxDepth
    /\ cpu.pc \in {MIN_VALUE, MIN_VALUE + 1} \union -3 .. 5 \union MAX_VALUE - 2 .. MAX_VALUE
=============================================================================
