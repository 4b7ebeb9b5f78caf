------------------------------- MODULE Machine -----------------------------
(***************************************************************************)
(* The machine of src/src/vm/machine.hpp and the objects it owns: the CPU  *)
(* state (cpu_state.hpp, register_file.hpp), the memory, the stack of      *)
(* saved contexts (context.hpp) and the halted flag.  outcome is what the  *)
(* last call returned to its caller: "ok" or the exception it threw.       *)
(***************************************************************************)
EXTENDS Memory, Instruction, ALU

VARIABLES cpu, contexts, halted, outcome

machine == << cpu, storage, contexts, halted >>
vars    == << cpu, storage, contexts, halted, outcome >>

Comparison      == {Less, Equal, Greater}
PrivilegeLevel  == {"User", "Kernel"}
TransitionCause == {"SystemCall", "Interrupt", "Exception"}
Outcome         == {"ok", "out_of_range", "ExecutionError", "ContextError",
                    "ImageLoadError"}

RegisterFile == [Register -> Word]

CPUState == [registers : RegisterFile, pc : Word, sp : Word, ksp : Word,
             status : Comparison, privilege : PrivilegeLevel]

SavedContext == [registers : RegisterFile, pc : Word, sp : Word,
                 status : Comparison, privilege : PrivilegeLevel,
                 cause : TransitionCause]

TypeOK ==
    /\ StorageOK
    /\ cpu \in CPUState
    /\ contexts \in Seq(SavedContext)
    /\ halted \in BOOLEAN
    /\ outcome \in Outcome

\* a default-constructed CPUState, which is also what reset() leaves
ResetCPU == [registers |-> [r \in Register |-> 0], pc |-> 0, sp |-> 0, ksp |-> 0,
             status |-> Equal, privilege |-> "Kernel"]

NewMachine ==
    /\ cpu = ResetCPU
    /\ storage = EmptyStorage
    /\ contexts = << >>
    /\ halted = FALSE
    /\ outcome = "ok"
-----------------------------------------------------------------------------
\* a context leaves out KSP, the memory and the halted flag
capture(cause) ==
    [registers |-> cpu.registers, pc |-> cpu.pc, sp |-> cpu.sp,
     status |-> cpu.status, privilege |-> cpu.privilege, cause |-> cause]

\* mutant: STATUS is not restored
RestoredWithoutStatus(context) ==
    [cpu EXCEPT !.registers = context.registers, !.pc = context.pc,
                !.sp = context.sp, !.privilege = context.privilege]

restored(context) ==
    [registers |-> context.registers, pc |-> context.pc, sp |-> context.sp,
     ksp |-> cpu.ksp, status |-> context.status, privilege |-> context.privilege]

save_context(cause) ==
    /\ contexts' = Append(contexts, capture(cause))
    /\ outcome' = "ok"
    /\ UNCHANGED << cpu, storage, halted >>

restore_context ==
    \/ /\ contexts = << >>
       /\ outcome' = "ContextError"
       /\ UNCHANGED machine
    \/ /\ contexts # << >>
       /\ cpu' = restored(contexts[Len(contexts)])
       /\ contexts' = SubSeq(contexts, 1, Len(contexts) - 1)
       /\ outcome' = "ok"
       /\ UNCHANGED << storage, halted >>

\* halted is a flag, not a part of the saved state
halt == halted' = TRUE

\* mutants: reset forgets the saved contexts, reset forgets the memory
ResetKeepingContexts ==
    /\ cpu' = ResetCPU
    /\ clear
    /\ halted' = FALSE
    /\ UNCHANGED contexts

ResetKeepingMemory ==
    /\ cpu' = ResetCPU
    /\ contexts' = << >>
    /\ halted' = FALSE
    /\ UNCHANGED storage

reset ==
    /\ cpu' = ResetCPU
    /\ clear
    /\ contexts' = << >>
    /\ halted' = FALSE
=============================================================================
