-------------------------- MODULE MachineTheorems --------------------------
(***************************************************************************)
(* The memory, the saved contexts and one step of the executor, for every  *)
(* word width: what the theorems about the machine under its several hosts *)
(* rest on, and the sparse memory as an implementation of the flat one.    *)
(***************************************************************************)
EXTENDS Executor, SparseMemory, TernaryTheorems, SequenceTheorems

LEMMA ReadIsWord ==
    ASSUME StorageOK, NEW a
    PROVE  read(a) \in Word
  BY MaxValue DEF StorageOK, read

LEMMA EmptyIsOK == storage = EmptyStorage => StorageOK /\ \A a : read(a) = 0
  BY DEF StorageOK, EmptyStorage, read

LEMMA EmptyIsOKNext == storage' = EmptyStorage => StorageOK' /\ \A a : read(a)' = 0
  BY DEF StorageOK, EmptyStorage, read

\* A write keeps the map typed and free of zeros, and changes what is read at
\* its address only.
LEMMA WriteChangesOneWord ==
    ASSUME StorageOK, NEW a \in Word, NEW v \in Word, write(a, v)
    PROVE  StorageOK' /\ \A x : read(x)' = IF x = a THEN v ELSE read(x)
<1>1. CASE v = 0
  <2>1. storage' = [x \in DOMAIN storage \ {a} |-> storage[x]]
    BY <1>1 DEF write, Written
  <2>2. DOMAIN storage' = DOMAIN storage \ {a}
    BY <2>1
  <2>3. StorageOK'
    BY <2>1, <2>2 DEF StorageOK
  <2> QED BY <1>1, <2>1, <2>2, <2>3 DEF read
<1>2. CASE v # 0
  <2>1. storage' = [x \in DOMAIN storage \union {a} |-> IF x = a THEN v ELSE storage[x]]
    BY <1>2 DEF write, Written
  <2>2. DOMAIN storage' = DOMAIN storage \union {a}
    BY <2>1
  <2>3. StorageOK'
    BY <1>2, <2>1, <2>2 DEF StorageOK
  <2> QED BY <2>1, <2>2, <2>3 DEF read
<1> QED BY <1>1, <1>2
-----------------------------------------------------------------------------
(* The sparse memory implements the flat one. *)

\* The keys and values are words and no zero is ever stored.
THEOREM StorageTyped == MemorySpec => []StorageOK
<1>1. MemoryInit => StorageOK
  BY EmptyIsOK DEF MemoryInit
<1>2. StorageOK /\ [MemoryNext]_calls => StorageOK'
  <2> SUFFICES ASSUME StorageOK, [MemoryNext]_calls PROVE StorageOK'
    OBVIOUS
  <2>1. CASE Clear
    BY <2>1, EmptyIsOKNext DEF Clear, clear
  <2>2. CASE \E a, v \in Word : Write(a, v)
    BY <2>2, WriteChangesOneWord DEF Write
  <2>3. CASE UNCHANGED storage
    BY <2>3 DEF StorageOK
  <2> QED BY <2>1, <2>2, <2>3 DEF MemoryNext, Read, Size, calls
<1> QED BY <1>1, <1>2, PTL DEF MemorySpec

\* Every behaviour of the unordered_map with erase-on-zero is a behaviour of a
\* memory in which every address holds a word.
THEOREM SparseImplementsFlat == MemorySpec => RefinesFlatMemory
<1> DEFINE cells == [address \in Word |-> read(address)]
<1>0. Flat!Word = Word
  BY DEF Flat!Word, Flat!MIN_VALUE, Flat!MAX_VALUE, Flat!to_integer, Flat!Accumulated,
         Flat!TritIndex, Word, MIN_VALUE, MAX_VALUE, to_integer, Accumulated, TritIndex
<1>1. MemoryInit => Flat!Init
  BY <1>0, EmptyIsOK DEF MemoryInit, Flat!Init
<1>2. StorageOK /\ [MemoryNext]_calls => [Flat!Next]_<< cells, request >>
  <2> SUFFICES ASSUME StorageOK, [MemoryNext]_calls PROVE [Flat!Next]_<< cells, request >>
    OBVIOUS
  <2>1. ASSUME Clear PROVE Flat!Next
    <3>1. \A a : read(a)' = 0
      BY <2>1, EmptyIsOKNext DEF Clear, clear
    <3>2. Flat!Clear
      BY <1>0, <2>1, <3>1 DEF Flat!Clear, Clear
    <3> QED BY <1>0, <3>2 DEF Flat!Next
  <2>2. ASSUME NEW a \in Word, NEW v \in Word, Write(a, v) PROVE Flat!Next
    <3>1. \A x : read(x)' = IF x = a THEN v ELSE read(x)
      BY <2>2, WriteChangesOneWord DEF Write
    <3>2. Flat!Write(a, v)
      BY <1>0, <2>2, <3>1 DEF Flat!Write, Write
    <3> QED BY <1>0, <3>2 DEF Flat!Next
  <2>3. ASSUME NEW a \in Word, Read(a) PROVE Flat!Next
    <3>1. cells' = cells /\ cells[a] = read(a)
      BY <2>3 DEF Read, read
    <3>2. Flat!Read(a)
      BY <2>3, <3>1 DEF Flat!Read, Read
    <3> QED BY <1>0, <3>2 DEF Flat!Next
  <2>4. ASSUME Size PROVE Flat!Next
    <3>1. DOMAIN storage = {a \in Word : cells[a] # 0}
      BY DEF StorageOK, read
    <3>2. cells' = cells
      BY <2>4 DEF Size, read
    <3>3. Flat!Cardinality(DOMAIN storage) = Cardinality(DOMAIN storage)
      BY Zenon DEF Flat!Cardinality, Cardinality
    <3>4. Flat!Size
      BY <1>0, <2>4, <3>1, <3>2, <3>3 DEF Flat!Size, Size, size
    <3> QED BY <1>0, <3>4 DEF Flat!Next
  <2>5. CASE UNCHANGED calls
    BY <2>5 DEF read, calls
  <2> QED BY <2>1, <2>2, <2>3, <2>4, <2>5 DEF MemoryNext
<1> QED BY <1>1, <1>2, StorageTyped, PTL DEF MemorySpec, RefinesFlatMemory, Flat!Spec
-----------------------------------------------------------------------------
(* Saving, restoring and resetting the machine. *)

SavedFields == {"registers", "pc", "sp", "status", "privilege"}

\* Saving and restoring, field by field.
LEMMA CaptureIsTyped ==
    ASSUME cpu \in CPUState, NEW cause \in TransitionCause
    PROVE  /\ capture(cause) \in SavedContext
           /\ \A field \in SavedFields : capture(cause)[field] = cpu[field]
  BY DEF capture, CPUState, SavedContext, SavedFields

\* Restoring what was captured from a CPU gives that CPU, but for KSP.
LEMMA RestoredIsSaved ==
    ASSUME cpu \in CPUState, NEW context \in SavedContext, NEW original \in CPUState,
           \A field \in SavedFields : context[field] = original[field]
    PROVE  /\ restored(context) \in CPUState
           /\ restored(context) = [original EXCEPT !.ksp = cpu.ksp]
<1>1. /\ context.registers = original.registers /\ context.pc = original.pc
      /\ context.sp = original.sp /\ context.status = original.status
      /\ context.privilege = original.privilege
  BY DEF SavedFields
<1>2. restored(context) =
          [registers |-> context.registers, pc |-> context.pc, sp |-> context.sp,
           ksp |-> cpu.ksp, status |-> context.status, privilege |-> context.privilege]
  BY DEF restored
<1>3. [original EXCEPT !.ksp = cpu.ksp] =
          [registers |-> original.registers, pc |-> original.pc, sp |-> original.sp,
           ksp |-> cpu.ksp, status |-> original.status, privilege |-> original.privilege]
  BY DEF CPUState
<1>4. restored(context) \in CPUState
  BY <1>2 DEF CPUState, SavedContext
<1> QED BY <1>1, <1>2, <1>3, <1>4

\* A reset CPU is a CPU state.
LEMMA ResetIsTyped == ResetCPU \in CPUState
  BY MaxValue DEF ResetCPU, CPUState, RegisterFile, Comparison, PrivilegeLevel, Less, Equal, Greater
-----------------------------------------------------------------------------
(* One instruction. *)

LEMMA WordIsInt ==
    /\ Word \subseteq Int
    /\ \A v \in Int : Fits(v) <=> v \in Word
  BY MaxValue DEF Word, Fits

\* The three words Word::from_integer is called on by the executor.
LEMMA NeighboursAreInts ==
    ASSUME TypeOK
    PROVE  /\ NextPc \in Int /\ cpu.sp - 1 \in Int /\ cpu.sp + 1 \in Int
           /\ cpu.sp \in Word
<1>1. cpu.pc \in Word /\ cpu.sp \in Word
  BY DEF TypeOK, CPUState
<1>2. cpu.pc \in Int /\ cpu.sp \in Int
  BY <1>1, WordIsInt
<1> QED BY <1>1, <1>2 DEF NextPc

LEMMA RegisterIsWord ==
    ASSUME TypeOK, NEW r \in Register
    PROVE  R(r) \in Word
  BY DEF TypeOK, CPUState, RegisterFile, R

\* The instruction at PC is typed whatever word PC has reached.
LEMMA FetchedIsTyped ==
    ASSUME TypeOK
    PROVE  /\ Fetched.rd \in Register /\ Fetched.rs1 \in Register /\ Fetched.rs2 \in Register
           /\ Fetched.immediate \in Word
           /\ Target(Fetched) \in Word
           /\ StoreAddress(Fetched) \in Word
<1>1. read(cpu.pc) \in Word
  BY ReadIsWord DEF TypeOK
<1>2. /\ Fetched.rd \in Register /\ Fetched.rs1 \in Register /\ Fetched.rs2 \in Register
      /\ Fetched.immediate \in Word
  BY <1>1, DecodeIsTyped DEF Fetched
<1>3. cpu.pc \in Word /\ R(Fetched.rs2) \in Word
  BY <1>2, RegisterIsWord DEF TypeOK, CPUState
<1> QED BY <1>2, <1>3, ArithmeticIsWord DEF Target, StoreAddress

\* A step that leaves the memory and SP alone, for the typing and the stack.
Plain == TypeOK' /\ storage' = storage /\ cpu'.sp = cpu.sp

LEMMA AdvanceIsTyped ==
    ASSUME TypeOK, NEW c \in CPUState, Advance(c)
    PROVE  /\ cpu' \in CPUState /\ outcome' \in Outcome
           /\ contexts' = contexts /\ halted' = halted
           /\ cpu'.sp = c.sp
<1>1. CASE Fits(NextPc) /\ cpu' = [c EXCEPT !.pc = NextPc] /\ outcome' = "ok"
  <2>1. NextPc \in Int
    BY NeighboursAreInts
  <2>2. NextPc \in Word
    BY <1>1, <2>1, WordIsInt
  <2> QED BY <1>1, <2>2 DEF Advance, CPUState, Outcome
<1>2. CASE cpu' = c /\ outcome' = "out_of_range"
  BY <1>2 DEF Advance, Outcome
<1> QED BY <1>1, <1>2 DEF Advance

LEMMA WriteBackIsPlain ==
    ASSUME TypeOK, NEW v \in Word, WriteBack(Fetched, v)
    PROVE  Plain
<1> DEFINE c == Set(Fetched.rd, v)
<1>1. c \in CPUState /\ c.sp = cpu.sp
  BY FetchedIsTyped DEF Set, TypeOK, CPUState, RegisterFile
<1>2. Advance(c) /\ storage' = storage
  BY DEF WriteBack
<1> HIDE DEF c
<1>3. /\ cpu' \in CPUState /\ outcome' \in Outcome
      /\ contexts' = contexts /\ halted' = halted
      /\ cpu'.sp = cpu.sp
  BY <1>1, <1>2, AdvanceIsTyped
<1> QED BY <1>2, <1>3 DEF Plain, TypeOK, StorageOK

LEMMA AdvanceIsPlain ==
    ASSUME TypeOK, NEW c \in CPUState, c.sp = cpu.sp, Advance(c), storage' = storage
    PROVE  Plain
  BY AdvanceIsTyped DEF Plain, TypeOK, StorageOK

LEMMA JumpIsPlain ==
    ASSUME TypeOK, Jump(Fetched)
    PROVE  Plain
<1>1. cpu' \in CPUState /\ cpu'.sp = cpu.sp
  BY FetchedIsTyped DEF Jump, TypeOK, CPUState
<1> QED BY <1>1 DEF Jump, Plain, TypeOK, StorageOK, Outcome

\* Every opcode but ST, CALL and RET is plain.
LEMMA OtherOpcodes ==
    ASSUME TypeOK, Execute(Fetched),
           Fetched.opcode \notin {"ST", "CALL", "RET"}
    PROVE  Plain
<1> DEFINE i == Fetched
           x == R(i.rs1)
           y == R(i.rs2)
<1>1. x \in Word /\ y \in Word /\ i.immediate \in Word
  BY FetchedIsTyped, RegisterIsWord
<1>2. CASE Nop(i)
  BY <1>2, AdvanceIsPlain DEF Nop, TypeOK
<1>3. CASE Hlt(i)
  BY <1>3 DEF Hlt, halt, Plain, TypeOK, StorageOK, Outcome
<1>4. CASE Ldi(i)
  BY <1>1, <1>4, WriteBackIsPlain DEF Ldi
<1>5. CASE Mov(i)
  BY <1>1, <1>5, WriteBackIsPlain DEF Mov
<1>6. CASE Add(i) \/ Sub(i) \/ Mul(i)
  BY <1>1, <1>6, ArithmeticIsWord, WriteBackIsPlain DEF Add, Sub, Mul
<1>7. CASE Tand(i) \/ Tor(i) \/ Txor(i) \/ Tnot(i)
  BY <1>1, <1>7, LogicIsWord, WriteBackIsPlain DEF Tand, Tor, Txor, Tnot
<1>8. CASE Shf(i)
  BY <1>1, <1>8, ShiftIsWord, WriteBackIsPlain DEF Shf
<1>9. CASE Ld(i)
  <2>1. read(add(x, i.immediate)) \in Word
    BY ReadIsWord DEF TypeOK
  <2> QED BY <1>9, <2>1, WriteBackIsPlain DEF Ld
<1>10. CASE Lea(i)
  BY <1>1, <1>10, ArithmeticIsWord, WriteBackIsPlain DEF Lea
<1>11. CASE Cmp(i)
  <2> DEFINE c == [cpu EXCEPT !.status = compare(x, y)]
  <2>1. c \in CPUState /\ c.sp = cpu.sp
    BY <1>1, CompareIsSign DEF TypeOK, CPUState, Comparison
  <2>2. Advance(c) /\ storage' = storage
    BY <1>11 DEF Cmp
  <2> HIDE DEF c
  <2> QED BY <2>1, <2>2, AdvanceIsPlain
<1>12. CASE Jmp(i)
  BY <1>12, JumpIsPlain DEF Jmp
<1>13. ASSUME NEW op, NEW taken, Branch(i, op, taken) PROVE Plain
  <2>1. CASE Jump(i)
    BY <2>1, JumpIsPlain
  <2>2. CASE Advance(cpu) /\ storage' = storage
    BY <2>2, AdvanceIsPlain DEF TypeOK
  <2> QED BY <1>13, <2>1, <2>2 DEF Branch
<1>14. CASE Beq(i) \/ Bgt(i) \/ Blt(i)
  BY <1>13, <1>14 DEF Beq, Bgt, Blt
<1>15. CASE Unsupported(i)
  BY <1>15 DEF Unsupported, machine, Plain, TypeOK, StorageOK, Outcome
<1>16. ~ (St(i) \/ Call(i) \/ Ret(i))
  BY DEF St, Call, Ret
<1> QED
  BY <1>2, <1>3, <1>4, <1>5, <1>6, <1>7, <1>8, <1>9, <1>10, <1>11, <1>12, <1>14, <1>15,
     <1>16 DEF Execute

LEMMA StoreEffect ==
    ASSUME TypeOK, Execute(Fetched), Fetched.opcode = "ST"
    PROVE  /\ TypeOK' /\ cpu'.sp = cpu.sp
           /\ \A a : a # StoreAddress(Fetched) => read(a)' = read(a)
<1>1. St(Fetched)
  BY DEF Execute, Nop, Hlt, Ldi, Mov, Add, Sub, Mul, Tand, Tor, Txor, Tnot, Shf, Ld, Lea,
         Cmp, Jmp, Beq, Bgt, Blt, Branch, Call, Ret, Unsupported
<1>2. StoreAddress(Fetched) \in Word /\ R(Fetched.rs1) \in Word
  BY FetchedIsTyped, RegisterIsWord
<1>3. StorageOK' /\ \A a : a # StoreAddress(Fetched) => read(a)' = read(a)
  BY <1>1, <1>2, WriteChangesOneWord DEF St, TypeOK
<1>4. /\ cpu' \in CPUState /\ outcome' \in Outcome
      /\ contexts' = contexts /\ halted' = halted
      /\ cpu'.sp = cpu.sp
  BY <1>1, AdvanceIsTyped DEF St, TypeOK
<1> QED BY <1>3, <1>4 DEF TypeOK

LEMMA CallEffect ==
    ASSUME TypeOK, Execute(Fetched), Fetched.opcode = "CALL"
    PROVE  /\ TypeOK'
           /\ outcome' = "ok" =>
                /\ NextPc \in Word
                /\ cpu'.sp = cpu.sp - 1
                /\ \A a : read(a)' = IF a = cpu.sp - 1 THEN NextPc ELSE read(a)
           /\ outcome' # "ok" => Plain
<1>1. Call(Fetched)
  BY DEF Execute, Nop, Hlt, Ldi, Mov, Add, Sub, Mul, Tand, Tor, Txor, Tnot, Shf, Ld, Lea,
         Cmp, Jmp, Beq, Bgt, Blt, Branch, St, Ret, Unsupported
<1>2. CASE /\ Fits(NextPc) /\ Fits(cpu.sp - 1)
           /\ Pushed(Fetched)
  <2>1. NextPc \in Word /\ cpu.sp - 1 \in Word
    BY <1>2, NeighboursAreInts, WordIsInt
  <2>2. StorageOK' /\ \A a : read(a)' = IF a = cpu.sp - 1 THEN NextPc ELSE read(a)
    BY <1>2, <2>1, WriteChangesOneWord DEF Pushed, Pushing, TypeOK
  <2>3. cpu' \in CPUState /\ cpu'.sp = cpu.sp - 1
    BY <1>2, <2>1, FetchedIsTyped DEF Pushed, Pushing, TypeOK, CPUState
  <2>4. contexts' = contexts /\ halted' = halted /\ outcome' = "ok"
    BY <1>2 DEF Pushed, Pushing
  <2> QED BY <2>1, <2>2, <2>3, <2>4 DEF TypeOK, Outcome
<1>3. CASE outcome' = "out_of_range" /\ UNCHANGED machine
  <2>1. Plain
    BY <1>3 DEF machine, Plain, TypeOK, StorageOK, Outcome
  <2> QED BY <1>3, <2>1 DEF Plain
<1> QED BY <1>1, <1>2, <1>3 DEF Call

LEMMA RetEffect ==
    ASSUME TypeOK, Execute(Fetched), Fetched.opcode = "RET"
    PROVE  /\ TypeOK'
           /\ storage' = storage
           /\ cpu.sp + 1 \in Word => /\ cpu'.sp = cpu.sp + 1 /\ cpu'.pc = read(cpu.sp)
                                     /\ outcome' = "ok"
<1>1. Ret(Fetched)
  BY DEF Execute, Nop, Hlt, Ldi, Mov, Add, Sub, Mul, Tand, Tor, Txor, Tnot, Shf, Ld, Lea,
         Cmp, Jmp, Beq, Bgt, Blt, Branch, St, Call, Unsupported
<1>2. read(cpu.sp) \in Word /\ cpu.sp + 1 \in Int
  BY ReadIsWord, NeighboursAreInts DEF TypeOK
<1>3. Fits(cpu.sp + 1) <=> cpu.sp + 1 \in Word
  BY <1>2, WordIsInt
<1>4. cpu' \in CPUState /\ outcome' \in Outcome
  BY <1>1, <1>2, <1>3 DEF Ret, Popped, TypeOK, CPUState, Outcome
<1>5. storage' = storage /\ contexts' = contexts /\ halted' = halted
  BY <1>1 DEF Ret
<1>6. cpu.sp + 1 \in Word => /\ cpu'.sp = cpu.sp + 1 /\ cpu'.pc = read(cpu.sp)
                             /\ outcome' = "ok"
  BY <1>1, <1>3 DEF Ret, Popped, TypeOK, CPUState
<1> QED BY <1>4, <1>5, <1>6 DEF TypeOK, StorageOK

\* Every instruction, and every step, keeps the machine typed.
LEMMA ExecuteIsTyped ==
    ASSUME TypeOK, Execute(Fetched)
    PROVE  TypeOK'
  BY OtherOpcodes, StoreEffect, CallEffect, RetEffect DEF Plain

LEMMA StepIsTyped ==
    ASSUME TypeOK, step
    PROVE  TypeOK'
<1>1. CASE halted
  BY <1>1 DEF step, machine, TypeOK, StorageOK, Outcome
<1>2. CASE ~halted
  BY <1>2, ExecuteIsTyped DEF step
<1> QED BY <1>1, <1>2

\* A save keeps it typed too.
LEMMA SaveIsTyped ==
    ASSUME TypeOK, NEW cause \in TransitionCause, save_context(cause)
    PROVE  TypeOK'
<1>1. /\ contexts' = Append(contexts, capture(cause)) /\ outcome' = "ok"
      /\ cpu' = cpu /\ storage' = storage /\ halted' = halted
  BY DEF save_context
<1>2. contexts' \in Seq(SavedContext)
  BY <1>1, CaptureIsTyped DEF TypeOK
<1> QED BY <1>1, <1>2 DEF TypeOK, StorageOK, Outcome

\* Restoring the last context, or failing to, keeps the machine typed.
LEMMA RestoreIsTyped ==
    ASSUME TypeOK, restore_context
    PROVE  TypeOK'
<1>1. CASE contexts = << >>
  BY <1>1 DEF restore_context, machine, TypeOK, StorageOK, Outcome
<1>2. CASE contexts # << >>
  <2>1. Len(contexts) \in DOMAIN contexts /\ contexts \in Seq(SavedContext) /\ Len(contexts) >= 1
    BY <1>2 DEF TypeOK
  <2>2. contexts[Len(contexts)] \in SavedContext
    BY <2>1
  <2>3. /\ cpu' = restored(contexts[Len(contexts)])
        /\ contexts' = SubSeq(contexts, 1, Len(contexts) - 1)
        /\ outcome' = "ok" /\ storage' = storage /\ halted' = halted
    BY <1>2 DEF restore_context
  <2>4. cpu' \in CPUState
    BY <2>2, <2>3 DEF restored, SavedContext, CPUState, TypeOK
  <2>5. contexts' \in Seq(SavedContext)
    BY <2>1, <2>3
  <2> QED BY <2>3, <2>4, <2>5 DEF TypeOK, StorageOK, Outcome
<1> QED BY <1>1, <1>2

\* And a reset.
LEMMA ResetStep ==
    ASSUME reset, outcome' \in Outcome
    PROVE  /\ TypeOK'
           /\ cpu' = ResetCPU /\ storage' = EmptyStorage /\ contexts' = << >> /\ halted' = FALSE
<1>1. cpu' = ResetCPU /\ storage' = EmptyStorage /\ contexts' = << >> /\ halted' = FALSE
  BY DEF reset, clear
<1>2. StorageOK'
  BY <1>1, EmptyIsOKNext
<1>3. contexts' \in Seq(SavedContext)
  BY <1>1, EmptySeq
<1> QED BY <1>1, <1>2, <1>3, ResetIsTyped DEF TypeOK
=============================================================================
