------------------------------ MODULE Executor -----------------------------
(***************************************************************************)
(* Executor::step of src/src/vm/executor.hpp: fetch the word at PC, decode *)
(* it and run one opcode.  There is one action per opcode; i is the        *)
(* decoded instruction.  Word::from_integer throws std::out_of_range when  *)
(* PC + 1, SP - 1 or SP + 1 is not a word; what was assigned before that   *)
(* line stays assigned, so a step may fail halfway.                        *)
(***************************************************************************)
EXTENDS Machine

R(r)        == cpu.registers[r]
Set(r, v)   == [cpu EXCEPT !.registers[r] = v]
NextPc      == cpu.pc + 1
Target(i)   == add(cpu.pc, i.immediate)   \* Word arithmetic: a jump may wrap
Fetched     == decode(read(cpu.pc))

\* a step that only moves PC, by Word arithmetic, cannot throw
Jump(i) ==
    /\ cpu' = [cpu EXCEPT !.pc = Target(i)]
    /\ outcome' = "ok"
    /\ UNCHANGED << storage, contexts, halted >>

\* mutant: PC + 1 by Word arithmetic, which wraps where from_integer throws
AdvanceWrapping(c) ==
    /\ cpu' = [c EXCEPT !.pc = add(cpu.pc, 1)]
    /\ outcome' = "ok"
    /\ UNCHANGED << contexts, halted >>

\* the last statement of a sequential opcode, set_pc(from_integer(pc + 1)),
\* after the opcode has turned the CPU into c
Advance(c) ==
    /\ \/ /\ Fits(NextPc)
          /\ cpu' = [c EXCEPT !.pc = NextPc]
          /\ outcome' = "ok"
       \/ /\ ~Fits(NextPc)
          /\ cpu' = c
          /\ outcome' = "out_of_range"
    /\ UNCHANGED << contexts, halted >>

\* Rd <- v, then PC <- PC + 1
WriteBack(i, v) == Advance(Set(i.rd, v)) /\ UNCHANGED storage

Nop(i) == i.opcode = "NOP" /\ Advance(cpu) /\ UNCHANGED storage

Hlt(i) ==
    /\ i.opcode = "HLT"
    /\ halt
    /\ outcome' = "ok"
    /\ UNCHANGED << cpu, storage, contexts >>

Ldi(i)  == i.opcode = "LDI"  /\ WriteBack(i, i.immediate)
Mov(i)  == i.opcode = "MOV"  /\ WriteBack(i, R(i.rs1))
Add(i)  == i.opcode = "ADD"  /\ WriteBack(i, add(R(i.rs1), R(i.rs2)))
Sub(i)  == i.opcode = "SUB"  /\ WriteBack(i, sub(R(i.rs1), R(i.rs2)))
Mul(i)  == i.opcode = "MUL"  /\ WriteBack(i, mul(R(i.rs1), R(i.rs2)))
Tand(i) == i.opcode = "TAND" /\ WriteBack(i, tand(R(i.rs1), R(i.rs2)))
Tor(i)  == i.opcode = "TOR"  /\ WriteBack(i, tor(R(i.rs1), R(i.rs2)))
Txor(i) == i.opcode = "TXOR" /\ WriteBack(i, txor(R(i.rs1), R(i.rs2)))
Tnot(i) == i.opcode = "TNOT" /\ WriteBack(i, tnot(R(i.rs1)))
Shf(i)  == i.opcode = "SHF"  /\ WriteBack(i, shift(R(i.rs1), R(i.rs2)))
Ld(i)   == i.opcode = "LD"   /\ WriteBack(i, read(add(R(i.rs1), i.immediate)))
Lea(i)  == i.opcode = "LEA"  /\ WriteBack(i, add(R(i.rs1), i.immediate))

\* mutant: the base of the address is the register that is stored
StoreAddressOfValue(i) == add(R(i.rs1), i.immediate)

StoreAddress(i) == add(R(i.rs2), i.immediate)

St(i) ==
    /\ i.opcode = "ST"
    /\ write(StoreAddress(i), R(i.rs1))
    /\ Advance(cpu)

Cmp(i) ==
    /\ i.opcode = "CMP"
    /\ Advance([cpu EXCEPT !.status = compare(R(i.rs1), R(i.rs2))])
    /\ UNCHANGED storage

Jmp(i) == i.opcode = "JMP" /\ Jump(i)

\* mutant: a branch that is not taken stays where it is
BranchStuck(i, op, taken) ==
    /\ i.opcode = op
    /\ \/ cpu.status = taken /\ Jump(i)
       \/ /\ cpu.status # taken
          /\ outcome' = "ok"
          /\ UNCHANGED machine

\* the STATUS a conditional branch is taken on
Branch(i, op, taken) ==
    /\ i.opcode = op
    /\ \/ cpu.status = taken /\ Jump(i)
       \/ cpu.status # taken /\ Advance(cpu) /\ UNCHANGED storage

Beq(i) == Branch(i, "BEQ", Equal)
Bgt(i) == Branch(i, "BGT", Greater)
Blt(i) == Branch(i, "BLT", Less)

\* a CALL that moves SP down, writes slot and jumps
Pushing(i, slot, word) ==
    /\ cpu' = [cpu EXCEPT !.sp = @ - 1, !.pc = Target(i)]
    /\ write(slot, word)
    /\ outcome' = "ok"
    /\ UNCHANGED << contexts, halted >>

\* mutants: the pushed address is that of the CALL, the slot is the one before
\* SP moves
PushedItself(i)       == Pushing(i, cpu.sp - 1, cpu.pc)
PushedBeforeMoving(i) == Pushing(i, cpu.sp, NextPc)

Pushed(i) == Pushing(i, cpu.sp - 1, NextPc)

\* mutant: SP moves before the conversions can throw
CallMovingFirst(i) ==
    /\ i.opcode = "CALL"
    /\ \/ Fits(NextPc) /\ Fits(cpu.sp - 1) /\ Pushed(i)
       \/ /\ ~(Fits(NextPc) /\ Fits(cpu.sp - 1))
          /\ cpu' = IF Fits(cpu.sp - 1) THEN [cpu EXCEPT !.sp = @ - 1] ELSE cpu
          /\ outcome' = "out_of_range"
          /\ UNCHANGED << storage, contexts, halted >>

\* both conversions come first, so a CALL that throws has changed nothing
Call(i) ==
    /\ i.opcode = "CALL"
    /\ \/ Fits(NextPc) /\ Fits(cpu.sp - 1) /\ Pushed(i)
       \/ /\ ~(Fits(NextPc) /\ Fits(cpu.sp - 1))
          /\ outcome' = "out_of_range"
          /\ UNCHANGED machine

\* mutant: SP is incremented before the slot is read
PoppedAbove == read(cpu.sp + 1)

Popped == read(cpu.sp)

\* PC is assigned before the conversion of SP + 1 can throw
Ret(i) ==
    /\ i.opcode = "RET"
    /\ \/ /\ Fits(cpu.sp + 1)
          /\ cpu' = [cpu EXCEPT !.pc = Popped, !.sp = cpu.sp + 1]
          /\ outcome' = "ok"
       \/ /\ ~Fits(cpu.sp + 1)
          /\ cpu' = [cpu EXCEPT !.pc = Popped]
          /\ outcome' = "out_of_range"
    /\ UNCHANGED << storage, contexts, halted >>

\* IN, OUT, SYS, IRET and SWAP have encodings but no implementation
Unsupported(i) ==
    /\ i.opcode \in {"IN", "OUT", "SYS", "IRET", "SWAP"}
    /\ outcome' = "ExecutionError"
    /\ UNCHANGED machine

Execute(i) ==
    \/ Nop(i) \/ Hlt(i) \/ Ldi(i) \/ Mov(i) \/ Add(i) \/ Sub(i) \/ Mul(i)
    \/ Tand(i) \/ Tor(i) \/ Txor(i) \/ Tnot(i) \/ Shf(i) \/ Ld(i) \/ Lea(i)
    \/ St(i) \/ Cmp(i) \/ Jmp(i) \/ Beq(i) \/ Bgt(i) \/ Blt(i) \/ Call(i)
    \/ Ret(i) \/ Unsupported(i)

step ==
    \/ /\ halted
       /\ outcome' = "ExecutionError"
       /\ UNCHANGED machine
    \/ /\ ~halted
       /\ \E i \in {Fetched} : Execute(i)
=============================================================================
