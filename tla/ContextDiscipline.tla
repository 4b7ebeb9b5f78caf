-------------------------- MODULE ContextDiscipline ------------------------
(***************************************************************************)
(* The context stack of a machine whose host saves and restores contexts,  *)
(* halts and resets the machine, rewrites its CPU and its memory, and has  *)
(* TVM load images and run them, in any order.  saved records the whole    *)
(* CPU at every save that is not yet restored.                             *)
(***************************************************************************)
EXTENDS TVM

VARIABLE saved

tracked == << allvars, saved >>

Save == HostSave /\ saved' = Append(saved, cpu)

Restore ==
    /\ restore_context
    /\ saved' = IF saved = << >> THEN saved ELSE SubSeq(saved, 1, Len(saved) - 1)

Reset == HostReset /\ saved' = << >>

\* what the host does to the machine, with the saves that are open after it
HostTurn ==
    /\ call = "none"
    /\ \/ Save
       \/ Restore
       \/ Reset
       \/ (HostCPU \/ HostWrite \/ HostHalt) /\ UNCHANGED saved
    /\ UNCHANGED loader

\* a load that is not rejected resets the machine
Reload == Load /\ saved' = IF outcome' = "ok" THEN << >> ELSE saved

\* no instruction and no turn of the loader saves or restores
Turn == (LoadTurn \/ Step \/ Run \/ RunTurn) /\ UNCHANGED saved

HostInit == Init /\ saved = << >>
HostNext == HostTurn \/ Reload \/ Turn
HostSpec == HostInit /\ [][HostNext]_tracked
-----------------------------------------------------------------------------
\* The context stack is the stack of the CPUs at the saves still open, without
\* their KSP: no call drops, reorders or invents a frame, whatever is loaded and
\* run in between, and a reset or a load drops all.
ContextsMatchSaves ==
    /\ saved \in Seq(CPUState)
    /\ Len(contexts) = Len(saved)
    /\ \A k \in DOMAIN saved :
          \A field \in {"registers", "pc", "sp", "status", "privilege"} :
              contexts[k][field] = saved[k][field]

RestoreStep ==
    Restore =>
        IF saved = << >>
        THEN outcome' = "ContextError" /\ UNCHANGED machine
        ELSE /\ cpu' = [saved[Len(saved)] EXCEPT !.ksp = cpu.ksp]
             /\ Len(contexts') = Len(saved')
             /\ UNCHANGED << storage, halted >>

\* IRET's contract (ARCHITECTURE 35.10) on restore_context: whatever ran since,
\* it brings back the registers, PC, SP, STATUS and privilege of the latest
\* save not yet restored, drops that frame only, and leaves KSP, the memory and
\* the halted flag as they are; with no such save it throws and changes nothing.
RestoreIsExact == [][RestoreStep]_tracked
=============================================================================
