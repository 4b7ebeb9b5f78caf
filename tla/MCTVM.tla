-------------------------------- MODULE MCTVM ------------------------------
(* Small images near the top of the address space, so that a program that   *)
(* runs past its end soon meets it.                                          *)
EXTENDS ContextDiscipline

CONSTANT Base   \* where the images are placed

Cargo(imm) == [k \in CargoIndex |-> from_integer(imm)[CARGO_OFFSET + k]]
I(op, rd, rs1, rs2, imm) == encode(op, rd, rs1, rs2, Cargo(imm))

NopWord == I("NOP", 4, 4, 4, 0)
HltWord == I("HLT", 4, 4, 4, 0)

Sec(type, flags, va, words) ==
    [type |-> type, flags |-> flags, virtual_address |-> va,
     memory_size |-> Len(words), alignment |-> 1, words |-> words]

TextSection(va, words) == Sec("Text", {"Read", "Execute"}, va, words)
DataSection(va, words) == Sec("Data", {"Read", "Write"}, va, words)
Rodata(va, words)      == Sec("Rodata", {"Read"}, va, words)
Bss(va, extent) == [Sec("Bss", {"Read", "Write"}, va, << >>) EXCEPT !.memory_size = extent]

Image(entry, sections) ==
    [architecture_id |-> 1, isa_version |-> 1, format_version |-> 1,
     entry_point |-> entry, memory_base |-> Base, memory_size |-> 20,
     sections |-> sections]

TopWord == MAX_VALUE

\* plain, overlapping and repeated sections, payloads with zero words
GoodImages ==
    {Image(Base, << TextSection(Base, << I("LDI", 1, 4, 4, 1), HltWord >>),
                    DataSection(Base + 2, << 7, 0 >>), Bss(Base + 4, 2) >>),
     Image(Base + 1, << DataSection(Base + 3, << 5, 6, 7 >>), Bss(Base + 4, 2),
                        TextSection(Base, << NopWord, I("CALL", 4, 4, 4, 1), HltWord >>),
                        Rodata(Base + 4, << 0, 9 >>) >>),
     Image(Base, << TextSection(Base, << I("OUT", 4, 4, 4, 0), HltWord >>),
                    TextSection(Base + 1, << 0 >>), Rodata(Base + 1, << >>) >>)}

\* each section but the last word of the second lies in the address space
TooHigh ==
    {Image(TopWord, << DataSection(TopWord - 1, << 3 >>), TextSection(TopWord, << HltWord, NopWord >>),
                       DataSection(Base, << 4 >>) >>),
     Image(TopWord + 1, << TextSection(TopWord + 1, << HltWord >>) >>)}

Plain == Image(Base, << TextSection(Base, << HltWord >>), DataSection(Base + 1, << 1 >>),
                        Bss(Base + 2, 1) >>)

\* one broken field each
WrongMachine == [Plain EXCEPT !.architecture_id = 2]

BadImages ==
    {WrongMachine, [Plain EXCEPT !.isa_version = 0],
     [Plain EXCEPT !.format_version = 2], [Plain EXCEPT !.memory_base = -1],
     [Plain EXCEPT !.memory_size = 2], [Plain EXCEPT !.memory_size = INT64_MAX],
     [Plain EXCEPT !.entry_point = Base + 1], [Plain EXCEPT !.entry_point = Base - 1],
     [Plain EXCEPT !.sections = Tail(@)], [Plain EXCEPT !.memory_base = Base + 1],
     [Plain EXCEPT !.sections[1].flags = {"Read"}], [Plain EXCEPT !.sections[2].flags = {"Read"}],
     [Plain EXCEPT !.sections[2].flags = @ \union {"Execute"}],
     [Plain EXCEPT !.sections[2].memory_size = 2], [Plain EXCEPT !.sections[3].words = << 0 >>],
     [Plain EXCEPT !.sections[3].memory_size = INT64_MAX],
     [Plain EXCEPT !.sections[2].alignment = 0]}

LoadImages == GoodImages \union TooHigh \union BadImages \union {Plain}

MCHostCPUs ==
    {[registers |-> [r \in Register |-> r], pc |-> Base, sp |-> TopWord, ksp |-> 3,
      status |-> Less, privilege |-> "User"]}

\* the host writes a word that no image covers
MCHostWrites == {<< Base + 6, 2 >>}

\* the causes of the contexts, from the bottom of the stack
Causes == << "SystemCall", "Interrupt" >>

\* bounds: how far a program runs; of the loads that are rejected, which leave the
\* machine as it was, only one is gone on from; a second context is saved on top
\* of the first with the simplest program only
Bounded ==
    /\ cpu.pc \in {0} \union Base .. TopWord
    /\ image \notin BadImages \ {WrongMachine}
    /\ \A k \in DOMAIN contexts : contexts[k].cause = Causes[k]
    /\ Len(contexts) = 2 => image = Plain
=============================================================================
