---------------------------- MODULE StackTheorems --------------------------
(***************************************************************************)
(* The stack of return addresses a program keeps in memory, for every word *)
(* width, on every machine a step loop may begin with.                     *)
(***************************************************************************)
EXTENDS CallFrames, MachineTheorems

(***************************************************************************)
(* The inductive invariant.  FramesIntact alone does not carry RET: that   *)
(* SP + 1 is a word follows from SP being below Top, a word.  ImageIntact  *)
(* alone does not carry CALL: that the slot CALL writes is below the image *)
(* follows from the place of SP in FramesIntact.                           *)
(***************************************************************************)
FrameInv == FrameTypeOK /\ FramesIntact /\ ImageIntact

LEMMA InitFrameInv == Init => FrameInv
<1> SUFFICES ASSUME Init PROVE FrameInv
  OBVIOUS
<1>0. start \in Starts
  BY DEF Init
<1>1. /\ start.cpu \in CPUState
      /\ DOMAIN start.storage \subseteq Word
      /\ start.storage \in [DOMAIN start.storage -> Word \ {0}]
  BY <1>0, StartAssumption, Zenon
<1>2. TypeOK
  <2>1. storage = start.storage /\ cpu = start.cpu
    BY DEF Init
  <2>2. DOMAIN storage = DOMAIN start.storage
    BY <2>1
  <2>3. StorageOK
    BY <1>1, <2>1, <2>2, Zenon DEF StorageOK
  <2>4. cpu \in CPUState
    BY <1>1, <2>1
  <2>5. contexts \in Seq(SavedContext)
    BY EmptySeq, Zenon DEF Init
  <2>6. halted \in BOOLEAN /\ outcome \in Outcome
    BY DEF Init, Outcome
  <2> QED BY <2>3, <2>4, <2>5, <2>6 DEF TypeOK
<1>3. Top \in Word
  BY <1>1 DEF Top, CPUState
<1>4. FrameTypeOK
  <2>1. frames \in Seq(Word)
    BY EmptySeq, Zenon DEF Init
  <2> QED BY <1>2, <1>3, <2>1 DEF Init, FrameTypeOK
<1>5. Top \in Int
  BY <1>3, WordIsInt
<1>6. FramesIntact
  BY <1>5 DEF Init, FramesIntact, Top
<1>7. ImageIntact
  BY DEF Init, ImageIntact, read
<1> QED BY <1>4, <1>6, <1>7 DEF FrameInv

\* What a step that runs an instruction does, opcode by opcode, when the typing
\* holds.  CallDone is the CALL that did not throw.
CallDone == Fetched.opcode = "CALL" /\ outcome' = "ok"

LEMMA StepEffect ==
    ASSUME FrameTypeOK, Next, ~halted
    PROVE  /\ TypeOK'
           /\ Observe(Fetched)
           /\ Execute(Fetched)
           /\ Fetched.opcode \notin {"ST", "CALL", "RET"} => Plain
           /\ Fetched.opcode = "CALL" /\ ~CallDone => Plain
<1>1. Execute(Fetched) /\ Observe(Fetched)
  BY DEF Next, step
<1>2. TypeOK
  BY DEF FrameTypeOK
<1>3. CASE Fetched.opcode = "ST"
  BY <1>1, <1>2, <1>3, StoreEffect
<1>4. CASE Fetched.opcode = "CALL"
  BY <1>1, <1>2, <1>4, CallEffect DEF CallDone
<1>5. CASE Fetched.opcode = "RET"
  BY <1>1, <1>2, <1>5, RetEffect
<1>6. CASE Fetched.opcode \notin {"ST", "CALL", "RET"}
  BY <1>1, <1>2, <1>6, OtherOpcodes DEF Plain
<1> QED BY <1>1, <1>3, <1>4, <1>5, <1>6

LEMMA HaltedStep ==
    ASSUME FrameInv, Next, halted
    PROVE  FrameInv'
<1>1. UNCHANGED machine /\ UNCHANGED history /\ outcome' \in Outcome
  BY DEF Next, step, Outcome
<1>2. TypeOK'
  BY <1>1 DEF FrameInv, FrameTypeOK, TypeOK, StorageOK, machine
<1> QED
  BY <1>1, <1>2 DEF FrameInv, FrameTypeOK, FramesIntact, ImageIntact, machine, history, Top, read

LEMMA NextFrameType ==
    ASSUME FrameTypeOK, Next, ~halted
    PROVE  FrameTypeOK'
<1>1. TypeOK' /\ Observe(Fetched) /\ Execute(Fetched) /\ TypeOK /\ frames \in Seq(Word)
  BY StepEffect DEF FrameTypeOK
<1>2. Top' \in Word
  BY <1>1 DEF Observe, FrameTypeOK, Top
<1>3. frames' \in Seq(Word)
  <2>1. CASE CallDone
    <3>1. NextPc \in Word
      BY <1>1, <2>1, CallEffect DEF CallDone
    <3> QED BY <1>1, <2>1, <3>1 DEF Observe, CallDone
  <2>2. CASE Fetched.opcode = "RET" /\ frames # << >>
    <3>1. frames' = SubSeq(frames, 1, Len(frames) - 1)
      BY <1>1, <2>2 DEF Observe
    <3> QED BY <1>1, <3>1, <2>2
  <2> QED BY <1>1, <2>1, <2>2 DEF Observe, CallDone
<1>4. disturbed' \in BOOLEAN /\ patched' \in BOOLEAN
  BY <1>1 DEF Observe
<1> QED BY <1>1, <1>2, <1>3, <1>4 DEF FrameTypeOK

\* FramesIntact read one slot at a time, with the arithmetic of slots.
LEMMA NextFrames ==
    ASSUME FrameInv, Next, ~halted
    PROVE  FramesIntact'
<1> SUFFICES ASSUME ~disturbed'
             PROVE  /\ cpu'.sp = Top - Len(frames')
                    /\ \A k \in 1 .. Len(frames') : read(Top - k)' = frames'[k]
  <2>1. start' = start
    BY StepEffect DEF FrameInv, Observe
  <2> QED BY <2>1 DEF FramesIntact, Top, read
<1>1. /\ TypeOK' /\ Observe(Fetched) /\ Execute(Fetched) /\ TypeOK /\ start' = start
      /\ Top \in Int /\ frames \in Seq(Word) /\ ~disturbed
  BY StepEffect, WordIsInt DEF FrameInv, FrameTypeOK, Observe
<1>2. /\ cpu.sp = Top - Len(frames)
      /\ \A k \in 1 .. Len(frames) : read(Top - k) = frames[k]
  BY <1>1 DEF FrameInv, FramesIntact
<1>3. Len(frames) \in Nat
  BY <1>1
<1>4. CASE Plain /\ frames' = frames
  BY <1>2, <1>4, <1>1 DEF Plain, Top, read
<1>5. CASE Fetched.opcode = "ST"
  <2>1. cpu'.sp = cpu.sp /\ \A a : a # StoreAddress(Fetched) => read(a)' = read(a)
    BY <1>1, <1>5, StoreEffect
  <2>2. frames' = frames /\ StoreAddress(Fetched) \notin LiveSlots
    BY <1>1, <1>5 DEF Observe
  <2>3. \A k \in 1 .. Len(frames) : Top - k \in LiveSlots
    BY <1>1, <1>3 DEF LiveSlots
  <2>4. \A k \in 1 .. Len(frames) : read(Top - k)' = frames[k]
    BY <1>1, <1>2, <2>1, <2>2, <2>3 DEF read, Top
  <2> QED BY <1>2, <2>1, <2>2, <2>4
<1>6. CASE CallDone
  <2>1. /\ NextPc \in Word /\ cpu'.sp = cpu.sp - 1
        /\ \A a : read(a)' = IF a = cpu.sp - 1 THEN NextPc ELSE read(a)
    BY <1>1, <1>6, CallEffect DEF CallDone
  <2>2. frames' = Append(frames, NextPc)
    BY <1>1, <1>6 DEF Observe, CallDone
  <2>3. Len(frames') = Len(frames) + 1
    BY <1>1, <2>1, <2>2
  <2>4. cpu'.sp = Top - Len(frames')
    BY <1>1, <1>2, <1>3, <2>1, <2>3
  <2>5. ASSUME NEW k \in 1 .. Len(frames') PROVE read(Top - k)' = frames'[k]
    <3>1. CASE k = Len(frames) + 1
      <4>1. Top - k = cpu.sp - 1
        BY <1>1, <1>2, <1>3, <3>1
      <4>2. frames'[k] = NextPc
        BY <1>1, <2>1, <2>2, <3>1
      <4> QED BY <1>1, <2>1, <4>1, <4>2 DEF read, Top
    <3>2. CASE k \in 1 .. Len(frames)
      <4>1. Top - k # cpu.sp - 1
        BY <1>1, <1>2, <1>3, <3>2
      <4>2. frames'[k] = frames[k]
        BY <1>1, <2>1, <2>2, <3>2
      <4> QED BY <1>1, <1>2, <2>1, <3>2, <4>1, <4>2 DEF read, Top
    <3> QED BY <1>3, <2>3, <2>5, <3>1, <3>2
  <2> QED BY <2>4, <2>5
<1>7. CASE Fetched.opcode = "RET"
  <2>1. frames # << >> /\ frames' = SubSeq(frames, 1, Len(frames) - 1)
    BY <1>1, <1>7 DEF Observe
  <2>2. Len(frames) >= 1
    BY <1>1, <2>1
  <2>3. cpu.sp + 1 \in Word
    <3>1. cpu.sp \in Word /\ Top \in Word
      BY <1>1 DEF FrameInv, FrameTypeOK, TypeOK, CPUState
    <3> QED BY <1>1, <1>2, <1>3, <2>2, <3>1, MaxValue DEF Word
  <2>4. cpu'.sp = cpu.sp + 1 /\ storage' = storage
    BY <1>1, <1>7, <2>3, RetEffect
  <2>5. /\ Len(frames') = Len(frames) - 1
        /\ \A k \in 1 .. Len(frames') : k \in 1 .. Len(frames) /\ frames'[k] = frames[k]
    <3> DEFINE n == Len(frames) - 1
    <3>1. n \in 0 .. Len(frames) /\ frames' = SubSeq(frames, 1, n)
      BY <1>3, <2>1, <2>2
    <3> HIDE DEF n
    <3>2. Len(frames') = n
      BY <1>1, <1>3, <3>1
    <3>3. \A k \in 1 .. n : k \in 1 .. Len(frames) /\ frames'[k] = frames[k]
      BY <1>1, <1>3, <3>1
    <3> QED BY <3>2, <3>3 DEF n
  <2>6. ASSUME NEW k \in 1 .. Len(frames') PROVE read(Top - k)' = frames'[k]
    <3>1. k \in 1 .. Len(frames) /\ frames'[k] = frames[k]
      BY <2>5, Zenon
    <3>2. read(Top - k)' = read(Top - k)
      BY <1>1, <2>4 DEF read, Top
    <3> QED BY <1>2, <3>1, <3>2
  <2> QED BY <1>1, <1>2, <1>3, <2>4, <2>5, <2>6
<1>8. CASE Fetched.opcode \notin {"ST", "RET"} /\ ~CallDone
  <2>1. Plain
    BY <1>8, StepEffect DEF FrameInv
  <2>2. frames' = frames
    BY <1>1, <1>8 DEF Observe, CallDone
  <2> QED BY <2>1, <2>2, <1>4
<1> QED BY <1>5, <1>6, <1>7, <1>8

LEMMA NextImage ==
    ASSUME FrameInv, Next, ~halted
    PROVE  ImageIntact'
<1> SUFFICES ASSUME ~disturbed', ~patched',
                    NEW a \in DOMAIN start.storage, a >= Top
             PROVE  read(a)' = start.storage[a]
  <2>1. start' = start
    BY StepEffect DEF FrameInv, Observe
  <2> QED BY <2>1 DEF ImageIntact, Top, read
<1>1. /\ Observe(Fetched) /\ Execute(Fetched) /\ TypeOK
      /\ Top \in Int /\ frames \in Seq(Word) /\ ~disturbed /\ ~patched
  BY StepEffect, WordIsInt DEF FrameInv, FrameTypeOK, Observe
<1>2. read(a) = start.storage[a]
  BY <1>1 DEF FrameInv, ImageIntact
<1>3. CASE storage' = storage
  BY <1>2, <1>3 DEF read
<1>4. CASE Fetched.opcode = "ST"
  <2>1. a # StoreAddress(Fetched)
    BY <1>1, <1>4 DEF Observe
  <2>2. \A b : b # StoreAddress(Fetched) => read(b)' = read(b)
    BY <1>1, <1>4, StoreEffect
  <2> QED BY <1>2, <2>1, <2>2 DEF read
<1>5. CASE CallDone
  <2>1. \A b : read(b)' = IF b = cpu.sp - 1 THEN NextPc ELSE read(b)
    BY <1>1, <1>5, CallEffect DEF CallDone
  <2>2. cpu.sp = Top - Len(frames)
    BY <1>1 DEF FrameInv, FramesIntact
  <2>3. a # cpu.sp - 1
    BY <1>1, <2>2
  <2> QED BY <1>2, <2>1, <2>3 DEF read
<1>6. CASE Fetched.opcode # "ST" /\ ~CallDone
  <2>1. storage' = storage
    <3>1. CASE Fetched.opcode = "RET"
      BY <1>1, <3>1, RetEffect
    <3>2. CASE Fetched.opcode # "RET"
      BY <1>6, <3>2, StepEffect DEF FrameInv, Plain
    <3> QED BY <3>1, <3>2
  <2> QED BY <2>1, <1>3
<1> QED BY <1>4, <1>5, <1>6

LEMMA FrameInvInductive == FrameInv /\ [Next]_<< vars, history >> => FrameInv'
<1> SUFFICES ASSUME FrameInv, [Next]_<< vars, history >> PROVE FrameInv'
  OBVIOUS
<1>1. CASE Next /\ halted
  BY <1>1, HaltedStep
<1>2. CASE Next /\ ~halted
  BY <1>2, NextFrameType, NextFrames, NextImage DEF FrameInv
<1>3. CASE UNCHANGED << vars, history >>
  BY <1>3 DEF FrameInv, FrameTypeOK, TypeOK, StorageOK, FramesIntact, ImageIntact,
              Top, read, vars, history
<1> QED BY <1>1, <1>2, <1>3

\* Type correctness of the executor: whatever program it is stepped through,
\* registers, PC, SP, STATUS and every stored word stay in their types, also
\* after a step that threw halfway (executor.hpp, step).
THEOREM FrameTypes == Spec => []FrameTypeOK
<1>1. Spec => []FrameInv
  BY InitFrameInv, FrameInvInductive, PTL DEF Spec
<1>2. FrameInv => FrameTypeOK
  BY DEF FrameInv
<1> QED BY <1>1, <1>2, PTL

\* The stack convention holds for every program, width and nesting of calls
\* until a RET without a CALL or a ST into a live slot.
THEOREM StackConvention == Spec => []FramesIntact
<1>1. Spec => []FrameInv
  BY InitFrameInv, FrameInvInductive, PTL DEF Spec
<1>2. FrameInv => FramesIntact
  BY DEF FrameInv
<1> QED BY <1>1, <1>2, PTL

\* CALL never reaches the loaded image.
THEOREM ImageSurvivesCalls == Spec => []ImageIntact
<1>1. Spec => []FrameInv
  BY InitFrameInv, FrameInvInductive, PTL DEF Spec
<1>2. FrameInv => ImageIntact
  BY DEF FrameInv
<1> QED BY <1>1, <1>2, PTL

LEMMA NextReturns ==
    ASSUME FrameInv, Next, ~halted, Fetched.opcode = "RET", frames # << >>, ~disturbed
    PROVE  ReturnStep
<1>1. /\ TypeOK /\ Execute(Fetched) /\ Observe(Fetched)
      /\ Top \in Word /\ cpu.sp \in Word /\ frames \in Seq(Word)
  BY StepEffect DEF FrameInv, FrameTypeOK, TypeOK, CPUState
<1>2. /\ cpu.sp = Top - Len(frames)
      /\ \A k \in 1 .. Len(frames) : read(Top - k) = frames[k]
  BY DEF FrameInv, FramesIntact
<1>3. Len(frames) \in 1 .. Len(frames)
  BY <1>1
<1>4. cpu.sp + 1 \in Word
  BY <1>1, <1>2, <1>3, MaxValue DEF Word
<1>5. read(cpu.sp) = frames[Len(frames)]
  BY <1>2, <1>3
<1> QED BY <1>1, <1>4, <1>5, RetEffect DEF Observe, ReturnStep

\* A RET never throws and resumes after the CALL it matches, at any depth.
THEOREM Returns == Spec => ReturnsToCaller
<1>1. FrameInv /\ [Next]_<< vars, history >> => [ReturnStep]_<< vars, history >>
  BY NextReturns DEF ReturnStep
<1> QED BY <1>1, InitFrameInv, FrameInvInductive, PTL DEF Spec, ReturnsToCaller
-----------------------------------------------------------------------------
\* What a failing step leaves, by the place where its opcode can throw.  Contained is
\* FailureStep without the condition for throwing.
Contained ==
    /\ UNCHANGED << contexts, halted >>
    /\ cpu'.sp = cpu.sp /\ cpu'.ksp = cpu.ksp /\ cpu'.privilege = cpu.privilege
    /\ RegistersLeft /\ StatusLeft /\ PcLeft /\ MemoryLeft

LEMMA ContainedFailure ==
    ASSUME Contained, MayThrow
    PROVE  FailureStep
BY DEF Contained, FailureStep

LEMMA NothingLeft ==
    ASSUME UNCHANGED machine
    PROVE  Contained
<1>1. cpu' = cpu /\ storage' = storage /\ contexts' = contexts /\ halted' = halted
  BY DEF machine
<1>2. \A a : read(a)' = read(a)
  BY <1>1 DEF read
<1> QED BY <1>1, <1>2 DEF Contained, RegistersLeft, StatusLeft, PcLeft, MemoryLeft

LEMMA FailingAdvance ==
    ASSUME TypeOK, NEW c, Advance(c), outcome' # "ok"
    PROVE  /\ cpu' = c /\ UNCHANGED << contexts, halted >>
           /\ cpu.pc = MAX_VALUE /\ outcome' = "out_of_range"
<1>1. cpu' = c /\ UNCHANGED << contexts, halted >> /\ ~Fits(NextPc) /\ outcome' = "out_of_range"
  BY DEF Advance
<1>2. cpu.pc = MAX_VALUE
  BY <1>1, MaxValue DEF NextPc, Fits, Word, TypeOK, CPUState
<1> QED BY <1>1, <1>2

\* A sequential opcode throws at the last address only.
LEMMA SequentialThrow ==
    ASSUME cpu.pc = MAX_VALUE, outcome' = "out_of_range", ~halted,
           Fetched.opcode \notin {"HLT", "JMP", "RET"}
    PROVE  MayThrow
BY DEF MayThrow

LEMMA FailingWriteBack ==
    ASSUME TypeOK, NEW v, WriteBack(Fetched, v), outcome' # "ok", ~halted,
           Fetched.opcode \in Assigning
    PROVE  FailureStep
<1>1. /\ cpu' = Set(Fetched.rd, v) /\ UNCHANGED << contexts, halted >>
      /\ storage' = storage /\ cpu.pc = MAX_VALUE /\ outcome' = "out_of_range"
  BY FailingAdvance DEF WriteBack
<1>2. /\ cpu'.sp = cpu.sp /\ cpu'.pc = cpu.pc /\ cpu'.ksp = cpu.ksp
      /\ cpu'.privilege = cpu.privilege /\ cpu'.status = cpu.status
      /\ \A r \in Register \ {Fetched.rd} : cpu'.registers[r] = cpu.registers[r]
  BY <1>1 DEF Set, TypeOK, CPUState, RegisterFile
<1>3. \A a : read(a)' = read(a)
  BY <1>1 DEF read
<1>4. Contained
  BY <1>1, <1>2, <1>3 DEF Contained, RegistersLeft, StatusLeft, PcLeft, MemoryLeft
<1>5. Fetched.opcode \notin {"HLT", "JMP", "RET"}
  BY DEF Assigning
<1> QED BY <1>1, <1>4, <1>5, SequentialThrow, ContainedFailure

LEMMA FailingNothing ==
    ASSUME TypeOK, Advance(cpu), storage' = storage, outcome' # "ok", ~halted,
           Fetched.opcode \notin {"HLT", "JMP", "RET"}
    PROVE  FailureStep
<1>1. /\ cpu' = cpu /\ UNCHANGED << contexts, halted >>
      /\ cpu.pc = MAX_VALUE /\ outcome' = "out_of_range"
  BY FailingAdvance
<1> QED BY <1>1, NothingLeft, SequentialThrow, ContainedFailure DEF machine

LEMMA FailingStore ==
    ASSUME TypeOK, St(Fetched), outcome' # "ok", ~halted
    PROVE  FailureStep
<1>1. /\ cpu' = cpu /\ UNCHANGED << contexts, halted >> /\ Fetched.opcode = "ST"
      /\ cpu.pc = MAX_VALUE /\ outcome' = "out_of_range"
  BY FailingAdvance DEF St
<1>2. ASSUME NEW a, read(a)' # read(a)
      PROVE  a = StoreAddress(Fetched) /\ read(a)' = R(Fetched.rs1)
  BY <1>2 DEF St, write, Written, read
<1>3. Contained
  BY <1>1, <1>2 DEF Contained, RegistersLeft, StatusLeft, PcLeft, MemoryLeft
<1> QED BY <1>1, <1>3, SequentialThrow, ContainedFailure

LEMMA FailingCompare ==
    ASSUME TypeOK, Cmp(Fetched), outcome' # "ok", ~halted
    PROVE  FailureStep
<1> DEFINE i == Fetched
<1>1. /\ cpu' = [cpu EXCEPT !.status = compare(R(i.rs1), R(i.rs2))]
      /\ storage' = storage /\ UNCHANGED << contexts, halted >> /\ Fetched.opcode = "CMP"
      /\ cpu.pc = MAX_VALUE /\ outcome' = "out_of_range"
  BY FailingAdvance DEF Cmp
<1>2. /\ cpu'.sp = cpu.sp /\ cpu'.pc = cpu.pc /\ cpu'.ksp = cpu.ksp
      /\ cpu'.privilege = cpu.privilege /\ cpu'.registers = cpu.registers
  BY <1>1 DEF TypeOK, CPUState
<1>3. \A a : read(a)' = read(a)
  BY <1>1 DEF read
<1>4. Contained
  BY <1>1, <1>2, <1>3 DEF Contained, RegistersLeft, StatusLeft, PcLeft, MemoryLeft
<1> QED BY <1>1, <1>4, SequentialThrow, ContainedFailure

LEMMA FailingReturn ==
    ASSUME TypeOK, Ret(Fetched), outcome' # "ok", ~halted
    PROVE  FailureStep
<1>1. /\ ~Fits(cpu.sp + 1) /\ cpu' = [cpu EXCEPT !.pc = Popped] /\ outcome' = "out_of_range"
      /\ UNCHANGED << storage, contexts, halted >> /\ Fetched.opcode = "RET"
  BY DEF Ret
<1>2. cpu.sp = MAX_VALUE
  BY <1>1, MaxValue DEF Fits, Word, TypeOK, CPUState
<1>3. /\ cpu'.sp = cpu.sp /\ cpu'.ksp = cpu.ksp /\ cpu'.privilege = cpu.privilege
      /\ cpu'.registers = cpu.registers /\ cpu'.status = cpu.status /\ cpu'.pc = read(cpu.sp)
  BY <1>1 DEF TypeOK, CPUState, Popped
<1>4. \A a : read(a)' = read(a)
  BY <1>1 DEF read
<1>5. Contained
  BY <1>1, <1>2, <1>3, <1>4 DEF Contained, RegistersLeft, StatusLeft, PcLeft, MemoryLeft
<1>6. MayThrow
  BY <1>1, <1>2 DEF MayThrow
<1> QED BY <1>5, <1>6, ContainedFailure

LEMMA FailingCall ==
    ASSUME TypeOK, Call(Fetched), outcome' # "ok", ~halted
    PROVE  FailureStep
<1>1. /\ UNCHANGED machine /\ Fetched.opcode = "CALL" /\ outcome' = "out_of_range"
      /\ ~(Fits(NextPc) /\ Fits(cpu.sp - 1))
  BY DEF Call, Pushed, Pushing
<1>2. cpu.pc = MAX_VALUE \/ cpu.sp = MIN_VALUE
  BY <1>1, MaxValue DEF NextPc, Fits, Word, MIN_VALUE, TypeOK, CPUState
<1>3. MayThrow
  BY <1>1, <1>2 DEF MayThrow
<1> QED BY <1>1, <1>3, NothingLeft, ContainedFailure

LEMMA FailingExecution ==
    ASSUME TypeOK, Execute(Fetched), ~halted, outcome' # "ok"
    PROVE  FailureStep
<1> DEFINE i == Fetched
<1>1. CASE Nop(i)
  BY <1>1, FailingNothing DEF Nop
<1>2. CASE Hlt(i) \/ Jmp(i)
  BY <1>2 DEF Hlt, Jmp, Jump
<1>3. CASE Ldi(i) \/ Mov(i) \/ Ld(i) \/ Lea(i)
  BY <1>3, FailingWriteBack DEF Ldi, Mov, Ld, Lea, Assigning
<1>4. CASE Add(i) \/ Sub(i) \/ Mul(i)
  BY <1>4, FailingWriteBack DEF Add, Sub, Mul, Assigning
<1>5. CASE Tand(i) \/ Tor(i) \/ Txor(i) \/ Tnot(i) \/ Shf(i)
  BY <1>5, FailingWriteBack DEF Tand, Tor, Txor, Tnot, Shf, Assigning
<1>6. CASE St(i)
  BY <1>6, FailingStore
<1>7. CASE Cmp(i)
  BY <1>7, FailingCompare
<1>8. ASSUME NEW op \in {"BEQ", "BGT", "BLT"}, NEW taken, Branch(i, op, taken) PROVE FailureStep
  <2>1. Advance(cpu) /\ storage' = storage /\ i.opcode = op
    BY <1>8 DEF Branch, Jump
  <2> QED BY <1>8, <2>1, FailingNothing
<1>9. CASE Beq(i) \/ Bgt(i) \/ Blt(i)
  BY <1>8, <1>9 DEF Beq, Bgt, Blt
<1>10. CASE Call(i)
  BY <1>10, FailingCall
<1>11. CASE Unsupported(i)
  <2>1. UNCHANGED machine /\ MayThrow
    BY <1>11 DEF Unsupported, MayThrow
  <2> QED BY <2>1, NothingLeft, ContainedFailure
<1>12. CASE Ret(i)
  BY <1>12, FailingReturn
<1> QED
  BY <1>1, <1>2, <1>3, <1>4, <1>5, <1>6, <1>7, <1>9, <1>10, <1>11, <1>12 DEF Execute

\* A step that throws does so at an end of the address space, on an opcode with no
\* implementation or when halted, and leaves nothing behind but the destination of
\* its opcode: at every width, for every program and on any machine.
THEOREM FailuresAreContained == Spec => FailureIsContained
<1>1. FrameInv /\ [Next]_<< vars, history >> => [FailureStep]_<< vars, history >>
  <2> SUFFICES ASSUME FrameInv, Next, outcome' # "ok" PROVE FailureStep
    BY DEF FailureStep
  <2>1. CASE halted
    <3>1. UNCHANGED machine /\ MayThrow
      BY <2>1 DEF Next, step, MayThrow
    <3> QED BY <3>1, NothingLeft, ContainedFailure
  <2>2. CASE ~halted
    <3>1. TypeOK /\ Execute(Fetched)
      BY <2>2 DEF FrameInv, FrameTypeOK, Next, step
    <3> QED BY <2>2, <3>1, FailingExecution
  <2> QED BY <2>1, <2>2
<1> QED BY <1>1, InitFrameInv, FrameInvInductive, PTL DEF Spec, FailureIsContained
-----------------------------------------------------------------------------
\* What the executor finds where nothing was written: the trits of zero are the
\* opcode ST, the register R4 three times and no offset.
LEMMA ZeroWord ==
    LET i == decode(0)
    IN  i.opcode = "ST" /\ i.rs1 = 4 /\ i.rs2 = 4 /\ i.immediate = 0
<1> DEFINE t == from_integer(0)
<1>1. t = Zeros /\ to_integer(Zeros) = 0
  BY ZerosAreZero
<1>2. \A i \in 0 .. 8 : t[i] = 0
  BY <1>1, WidthAssumption, FormatAssumption DEF Zeros, TritIndex, CARGO_OFFSET
<1>3. opcode(t) = "ST"
  <2>1. t[0] = 0 /\ t[1] = 0 /\ t[2] = 0
    BY <1>2
  <2> HIDE DEF t
  <2>2. 9 * t[0] + 3 * t[1] + t[2] + 14 = 14
    BY <2>1
  <2>3. Mnemonics[14] = "ST"
    BY DEF Mnemonics
  <2> QED BY <2>2, <2>3 DEF opcode
<1>4. ASSUME NEW o \in {5, 7} PROVE decode_register(t, o) = 4
  <2>1. t[o] = 0 /\ t[o + 1] = 0
    BY <1>2
  <2>2. \A r \in Register : REGISTER_ENCODING[r] = << 0, 0 >> <=> r = 4
    BY DEF Register, REGISTER_ENCODING
  <2>3. 4 \in Register
    BY DEF Register
  <2> HIDE DEF t
  <2>4. decode_register(t, o) = CHOOSE r \in Register : REGISTER_ENCODING[r] = << 0, 0 >>
    BY <2>1 DEF decode_register
  <2> DEFINE P(r) == REGISTER_ENCODING[r] = << 0, 0 >>
  <2>5. \A r \in Register : P(r) <=> r = 4
    BY <2>2
  <2>6. decode_register(t, o) = CHOOSE r \in Register : P(r)
    BY <2>4
  <2> HIDE DEF P
  <2>7. (CHOOSE r \in Register : P(r)) \in Register /\ P(CHOOSE r \in Register : P(r))
    BY <2>3, <2>5
  <2> QED BY <2>5, <2>6, <2>7
<1>5. immediate(t) = 0
  <2>1. [i \in TritIndex |-> IF i < CARGO_OFFSET THEN 0 ELSE t[i]] = Zeros
    BY <1>1 DEF Zeros
  <2> QED BY <1>1, <2>1 DEF immediate
<1>6. /\ decode(0).opcode = opcode(t) /\ decode(0).rs1 = decode_register(t, 5)
      /\ decode(0).rs2 = decode_register(t, 7) /\ decode(0).immediate = immediate(t)
  BY DEF decode, RS1_OFFSET, RS2_OFFSET
<1> HIDE DEF t
<1> QED BY <1>3, <1>4, <1>5, <1>6

\* Nothing is added to a word.
LEMMA AddsNothing == \A x \in Word : add(x, 0) = x
  BY MaxValue DEF add, wrap, CRem, MODULUS, HALF_MODULUS, Word, MIN_VALUE

\* A step on a word that was never written.
ZeroStep ==
    ~halted /\ read(cpu.pc) = 0 =>
        /\ storage' = Written(storage, R(4), R(4))
        /\ cpu' = [cpu EXCEPT !.pc = IF NextPc > MAX_VALUE THEN @ ELSE NextPc]

LEMMA NextStoresZero ==
    ASSUME TypeOK, Next, ~halted, read(cpu.pc) = 0
    PROVE  ZeroStep
<1> DEFINE i == Fetched
<1>1. i.opcode = "ST" /\ i.rs1 = 4 /\ i.rs2 = 4 /\ i.immediate = 0
  BY ZeroWord DEF Fetched
<1>2. Execute(i)
  BY DEF Next, step
<1> HIDE DEF i
<1>3. St(i)
  BY <1>1, <1>2 DEF Execute, Nop, Hlt, Ldi, Mov, Add, Sub, Mul, Tand, Tor, Txor, Tnot, Shf, Ld, Lea,
                    Cmp, Jmp, Beq, Bgt, Blt, Branch, Call, Ret, Unsupported
<1>4. R(4) \in Word /\ cpu.pc \in Word
  BY DEF TypeOK, CPUState, RegisterFile, Register, R
<1>5. StoreAddress(i) = R(4)
  BY <1>1, <1>4, AddsNothing DEF StoreAddress
<1>6. storage' = Written(storage, R(4), R(4))
  BY <1>1, <1>3, <1>5 DEF St, write
<1>7. Advance(cpu)
  BY <1>3 DEF St
<1>8. Fits(NextPc) <=> ~(NextPc > MAX_VALUE)
  BY <1>4, MaxValue DEF Fits, NextPc, Word
<1>9. CASE Fits(NextPc)
  BY <1>6, <1>7, <1>8, <1>9 DEF Advance, ZeroStep
<1>10. CASE ~Fits(NextPc)
  <2>1. cpu' = cpu
    BY <1>7, <1>10 DEF Advance
  <2>2. [cpu EXCEPT !.pc = cpu.pc] = cpu
    BY DEF TypeOK, CPUState
  <2> QED BY <1>6, <1>8, <1>10, <2>1, <2>2 DEF ZeroStep
<1> QED BY <1>9, <1>10

\* Memory that was never written executes as ST R4, R4, 0, at every width and under
\* every program.
THEOREM UnwrittenMemoryStores == Spec => ZeroWordStores
<1>1. FrameInv /\ [Next]_<< vars, history >> => [ZeroStep]_<< vars, history >>
  BY NextStoresZero DEF FrameInv, FrameTypeOK, ZeroStep
<1> QED BY <1>1, InitFrameInv, FrameInvInductive, PTL DEF Spec, ZeroWordStores, ZeroStep
=============================================================================
