----------------------------- MODULE Toolchain -----------------------------
(***************************************************************************)
(* The two programs of src/src/tools, one after the other: tasm assembles  *)
(* a text into a .trn file, tvm loads the file and runs it on a new        *)
(* machine.  Everything between them goes through the words of the file.   *)
(***************************************************************************)
EXTENDS Assembler, ImageMeaning

CONSTANTS Endless,     \* the texts whose programs are not meant to end
          LastAddress  \* bound: no step is taken above this address

\* tasm assembles for the virtual_base that assemble_to_file has by default
ASSUME ToolAssumption == \A input \in Inputs : input[2] = 0

VARIABLES
    file, phase, exit,                          \* on the disk; the running tool; its result
    cpu, storage, contexts, halted, answer,     \* the machine of tvm, what its last call returned
    loaded, slot, call                          \* the loader and the calls of tvm

VM  == INSTANCE TVM WITH image <- loaded, at <- slot, outcome <- answer,
                         Images <- {}, HostCPUs <- {}, HostWrites <- {}, MaxContexts <- 0

tasm    == vars
tvm     == << cpu, storage, contexts, halted, answer, loaded, slot, call >>
allvars == << tasm, tvm, file, phase, exit >>

StartTools ==
    /\ Init /\ VM!Init
    /\ file = EmptyFile /\ phase = "tasm" /\ exit = "none"

\* assemble_to_file up to the writer
Assemble == phase = "tasm" /\ Next /\ UNCHANGED << tvm, file, phase, exit >>

\* the exception of a pass leaves the file as it was; the one of serialize comes
\* when the writer has opened, and so emptied, the file
TasmExit ==
    /\ phase = "tasm" /\ pass = "done"
    /\ \/ /\ outcome = "ok"
          /\ IF Serializable(image)
             THEN file' = Whole(serialize(image)) /\ phase' = "open" /\ exit' = exit
             ELSE file' = EmptyFile /\ phase' = "done" /\ exit' = 1
       \/ /\ outcome # "ok"
          /\ phase' = "done" /\ exit' = 1 /\ file' = file
    /\ UNCHANGED << tasm, tvm >>

\* TrnLoader{}.load, then tvm.load as far as its validation
Open ==
    /\ phase = "open"
    /\ \/ Loads(file) /\ VM!load(Loaded(file)) /\ phase' = "load" /\ exit' = exit
       \/ ~Loads(file) /\ phase' = "done" /\ exit' = 1 /\ UNCHANGED tvm
    /\ UNCHANGED << tasm, file >>

LoadTurn == phase = "load" /\ VM!LoadTurn /\ UNCHANGED << tasm, file, phase, exit >>

Run ==
    /\ phase = "load" /\ call = "none" /\ answer = "ok"
    /\ VM!Run /\ phase' = "run"
    /\ UNCHANGED << tasm, file, exit >>

RunTurn ==
    /\ phase = "run" /\ cpu.pc \in 0 .. LastAddress
    /\ VM!RunTurn
    /\ UNCHANGED << tasm, file, phase, exit >>

\* main returns, normally or from its handler
TvmExit ==
    /\ call = "none"
    /\ phase = "run" \/ (phase = "load" /\ answer # "ok")
    /\ phase' = "done" /\ exit' = IF answer = "ok" THEN 0 ELSE 1
    /\ UNCHANGED << tasm, tvm, file >>

ToolStep == Assemble \/ TasmExit \/ Open \/ LoadTurn \/ Run \/ RunTurn \/ TvmExit

\* both tools are sequential programs that nothing suspends
ToolSpec == StartTools /\ [][ToolStep]_allvars /\ WF_allvars(ToolStep)

-----------------------------------------------------------------------------
(* What the statements of the program say, in terms of its labels. *)

Held(operand) == cpu.registers[operand.index]
Cell(operand) == VM!add(cpu.registers[operand.base], operand.offset)

\* the statements that assign their first operand
Computed(m, o) ==
    CASE m = "ADD"  -> VM!add(Held(o[2]), Held(o[3]))
      [] m = "SUB"  -> VM!sub(Held(o[2]), Held(o[3]))
      [] m = "MUL"  -> VM!mul(Held(o[2]), Held(o[3]))
      [] m = "TAND" -> VM!tand(Held(o[2]), Held(o[3]))
      [] m = "TOR"  -> VM!tor(Held(o[2]), Held(o[3]))
      [] m = "TXOR" -> VM!txor(Held(o[2]), Held(o[3]))
      [] m = "SHF"  -> VM!shift(Held(o[2]), Held(o[3]))
      [] m = "TNOT" -> VM!tnot(Held(o[2]))
      [] m = "MOV"  -> Held(o[2])
      [] m = "LDI"  -> o[2].value
      [] m = "LEA"  -> Cell(o[2])
      [] m = "LD"   -> VM!read(Cell(o[2]))

\* the relation of the last CMP on which a branch goes to its label
Taken == [JMP |-> {VM!Less, VM!Equal, VM!Greater}, BEQ |-> {VM!Equal},
          BLT |-> {VM!Less}, BGT |-> {VM!Greater}]

Jumps(m) == m \in DOMAIN Taken /\ cpu.status \in Taken[m]

\* the executor has no code for these
Unimplemented == {"IN", "OUT", "SYS", "IRET", "SWAP"}

Goto(address) == [cpu EXCEPT !.pc = address]
Onwards       == Goto(cpu.pc + 1)

NextCPU(m, o) ==
    CASE m \in {"NOP", "ST"}   -> Onwards
      [] m = "CMP"             -> [Onwards EXCEPT !.status = VM!compare(Held(o[1]), Held(o[2]))]
      [] m \in DOMAIN Taken    -> IF Jumps(m) THEN Goto(addresses[o[1].name]) ELSE Onwards
      [] m = "CALL"            -> [Goto(addresses[o[1].name]) EXCEPT !.sp = @ - 1]
      [] m = "RET"             -> [Goto(VM!read(cpu.sp)) EXCEPT !.sp = @ + 1]
      [] m \in Unimplemented \cup {"HLT"} -> cpu
      [] OTHER                 -> [Onwards EXCEPT !.registers[o[1].index] = Computed(m, o)]

\* the words a statement stores, as pairs of an address and a value
Stored(m, o) ==
    CASE m = "ST"   -> {<< Cell(o[1]), Held(o[2]) >>}
      [] m = "CALL" -> {<< cpu.sp - 1, cpu.pc + 1 >>}
      [] OTHER      -> {}

Meant(m, o) ==
    /\ cpu' = NextCPU(m, o)
    /\ \A store \in Stored(m, o) : VM!read(store[1])' = store[2]
    /\ \A a \in (DOMAIN storage \cup DOMAIN storage') \ {store[1] : store \in Stored(m, o)} :
          VM!read(a)' = VM!read(a)
    /\ halted' = (m = "HLT")
    /\ answer' = IF m \in Unimplemented THEN "ExecutionError" ELSE "ok"

\* the statement can do this within the address space
Room(m) ==
    CASE m = "RET"  -> Fits(cpu.sp + 1)
      [] m = "CALL" -> Fits(cpu.sp - 1) /\ Fits(cpu.pc + 1)
      [] OTHER      -> m \in Unimplemented \cup {"HLT"} \/ Jumps(m) \/ Fits(cpu.pc + 1)

\* the k-th word of .text is still the one the assembler made
Intact(k) == VM!read(cpu.pc) = image.text[k]

\* Every step of tvm does what the statement says whose turn it is: statements
\* run in the order of the text, registers, numbers and memory operands are
\* those that were written, a branch goes to its label and a call comes back
\* behind itself. (A program that overwrites its code, or opens .text twice, is
\* on its own; where PC or SP leaves the address space the step throws.)
RunsAsWritten ==
    [][ RunTurn /\ ~halted /\ ~Reopened("text") =>
          \A i \in Instructions :
              LET k == Cardinality(InstructionsBefore(i)) + 1
                  m == program[i].mnemonic
              IN  cpu.pc = base + k - 1 /\ Intact(k) /\ Room(m) => Meant(m, program[i].operands)
      ]_allvars

\* The machine that tvm starts is the program as tasm laid it out: PC at _start,
\* the words of .text from the base up and nothing else in memory. Loading it
\* does not stop halfway.
StartsAsLaidOut ==
    phase = "load" /\ call = "none" =>
        /\ answer = "ok" /\ cpu.pc = addresses["_start"]
        /\ \A k \in DOMAIN image.text : VM!read(base + k - 1) = image.text[k]
        /\ \A a \in DOMAIN storage : a - base + 1 \in DOMAIN image.text

\* tvm accepts what tasm writes exactly if an instruction stands behind every
\* label in .text and no label stands in another section: sections without
\* words have no room for one, and none but .text can have words.
LabelsHaveWords ==
    \A i \in Labels : SectionOf(i) = "text" /\ \E j \in Instructions : j > i

OpensIffLabelsHaveWords ==
    /\ phase \in {"load", "run"} => LabelsHaveWords /\ answer # "ImageLoadError"
    /\ phase = "done" /\ file # EmptyFile /\ loaded.sections = << >> => ~LabelsHaveWords

\* an address on either side of PC or SP is no word
AtTheEdge == ~Fits(cpu.pc + 1) \/ ~Fits(cpu.sp + 1) \/ ~Fits(cpu.sp - 1)

\* The exit status of tvm says how the program ended: 0 exactly if it came to a
\* HLT, which PC still stands at; otherwise it is not halted, and it stands at a
\* statement with no implementation or at an end of the address space. A tvm
\* that started nothing, and a tasm that wrote nothing to start, end with 1.
ExitTellsWhy ==
    phase = "done" =>
        \/ exit = 0 /\ loaded.sections # << >> /\ halted /\ VM!Fetched.opcode = "HLT"
        \/ exit = 1 /\ loaded.sections = << >>
        \/ exit = 1 /\ ~halted /\ (VM!Fetched.opcode \in Unimplemented \/ AtTheEdge)

\* tasm and tvm together come to an end for every program that is meant to.
ToolsReturn == source \notin Endless ~> phase = "done"

\* An executable that tasm writes has an entry point that tvm can start at
\* (TASM_MANUAL 8).
EntryPointIsValid ==
    phase = "open" => /\ has_section(Loaded(file), "Text")
                      /\ is_valid_entry_point(Loaded(file))
=============================================================================
