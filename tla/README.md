# Verification of the balanced-ternary machine

TLA+ models of the `ternary-machine` repository: a 27-trit word machine (TVM), its
instruction set, the loader of its executables and the assembler that produces them.
Paths below are relative to the repository.

## Inventory

| Component | State | Operations | Correct when |
|---|---|---|---|
| Word (`src/ternary/word.hpp`) | 27 trits | `from_integer`, `to_integer` | the two are inverse; values that do not fit throw |
| Tryte (`src/ternary/tryte.hpp`) | 9 trits | the same, by another algorithm | it agrees with Word in both directions, and throws for what has no nine trits |
| Instruction (`src/ternary/instruction.hpp`) | a Word | `encode`, `decode`, accessors | every word decodes, and encodes back to itself |
| ALU (`src/vm/alu.hpp`) | none | ADD .. CMP | arithmetic modulo 3^27, trit-wise logic, no result that is no word |
| Memory (`src/vm/memory.hpp`) | sparse map | `read`, `write`, `size`, `clear` | indistinguishable from a flat memory |
| CPU, contexts, machine (`src/vm/cpu_state.hpp`, `register_file.hpp`, `context.hpp`, `machine.hpp`) | registers, PC, SP, KSP, STATUS, privilege; stack of saved contexts; halted | `save_context`, `restore_context`, `halt`, `reset` | restores are exact and last in first out |
| Executor (`src/vm/executor.hpp`) | the machine | `step` | stack convention of CALL and RET; a step that throws leaves contained damage |
| Image loader (`src/runtime/image_loader.cpp`, `loaded_image.hpp`) | the machine | `load` | the machine depends on the image alone; failures have known effects |
| TVM (`src/runtime/tvm.cpp`) | a machine | `load`, `step`, `run` | a program runs until it halts or throws, and the exit status tells which |
| Symbol table, resolver, layout (`src/assembler/`) | symbols, offsets, section addresses | `build`, `resolve` | labels get the address of the instruction behind them |
| Encoder, assembler (`src/assembler/encoder.hpp`, `assembler.cpp`) | the encode loop | `assemble` | branch displacements reach their labels |
| Image, format, writer (`src/assembler/trn_*.hpp`), TRN loader (`src/runtime/trn_loader.cpp`) | tables and payloads, a file | `layout`, `serialize`, `write`, `load` | what is loaded is the image that was written last, if it was `Faithful` and its file is undamaged; what is loaded of any other file is acceptable, or an error |
| Lexer, parser, semantic analysis (`src/assembler/`) | tokens, statements | `tokenize`, `parse`, `analyze` | takes and reads exactly the lines of one language, which is narrower than that of the manual (see Findings) |
| Vector table (`src/vm/vector_table.hpp`) | none | vectors of causes | the vectors fill the table, and no two causes within its bounds share a word |
| Tools (`src/tools/`) | a file, a TVM | `tasm`, `tvm` | a program runs as it is written; both end |

Interactions: everything is a direct call on one thread. The assembler's passes run one after
another over the statements and fill a `TrnImage`; the writer and the TRN loader meet in a file;
the TRN loader yields a `LoadedImage`, the image loader copies it into the machine of a TVM, and
the executor steps that machine. A host holds a reference to the machine and may change it between
calls (`TVM::machine()`): write the CPU state and memory, save and restore contexts, halt, reset.

Hard behaviours: there is no concurrency and nothing is persisted besides the executable. What is
hard is partial failure (exceptions that leave half of a step, of a load or of a written file behind),
files that were damaged or laid out for another content, the edges of
the number ranges, long sequences of legal instructions that bring the unprotected stack and the
program into conflict, state left over from an earlier program, and passes that recompute the same
offsets independently.

## Modules

| Module | Models | State and actions |
|---|---|---|
| `TernaryWord`, `Tryte` | the conversions | operators; a word is its integer, and `from_integer`, `to_integer` go through the trits where the code does |
| `Instruction` | the format | operators named as in the code |
| `ALU` | the operators | one operator per function |
| `Memory` | the sparse map | `storage` is `storage_`; `Written` is the map after a write |
| `FlatMemory`, `SparseMemory` | what memory promises, and the map under every order of calls | `RefinesFlatMemory` reads every address of the map; the latest call and its result are visible on both sides |
| `Machine` | CPU, contexts, halted, reset | `cpu`, `contexts`, `halted`; `outcome` is the exception the last call threw, or `ok` |
| `Executor` | `Executor::step` | one action per opcode; `Advance` is the last statement of a sequential opcode, which may throw after the rest |
| `CallFrames` | a program on the executor | history `frames` (addresses calls should return to), `disturbed` and `patched` |
| `LoadedImage` | the image both loaders share, `ImageLoader::validate` | operators on an image |
| `ImageLoader` | `ImageLoader::load` | one action per word copied, because the conversion of its address may throw; `at` holds the loop variables |
| `TVM` | the virtual machine | `call` says which call is in progress; composes `Executor` and `ImageLoader`; `Host` is what a host does between calls, one action per member of the machine |
| `ContextDiscipline` | the contexts a host saves on that machine | the actions of `TVM` with the history `saved`: the CPUs at the saves not yet restored, emptied by a reset and by a load |
| `VectorTable` | the vector addresses | operators and constants named as in the code |
| `Lexer`, `Parser` | `tokenize`; the recursive descent | a text is a sequence of pieces (a run of name characters, of digits, one other character); each `parse_*` takes a token position and returns a value and the next position, or `Failed` |
| `Statements` | the parser's statements and the semantic analysis | records; `analyze` is what one statement must satisfy |
| `Grammar` | the language, stated without a parser | which token sequences are programs (`Grammatical`) and which programs they spell; the reference for `Parser`. It is the language the parser reads, lower-case directives and one statement per line included, and not that of the manual |
| `Manual` | two sentences of `TASM_MANUAL.md` about the texts TASM accepts | a property of `Assembler`, with its counterexample: texts the manual makes equal (`Variants`) |
| `SourceText` | program to text | the instances write programs as statements and hand their text to the lexer |
| `Encoder` | instruction to word | `FieldsOf` per shape of instruction, `CargoFits` is the exception of `make_cargo` |
| `TrnFormat`, `TrnImage` | words of the file; `layout`, `serialize`, `set_bss_size` | operators on an image; a file word that is not all trits is `NoWord` |
| `Assembler` | `Assembler::assemble` | `pass` and `cursor` are the running loop; one action per statement in the parser, one per kind of statement in each later pass, one per section placed; `offsets`, `symbols`, `globals` are the symbol table, `sizes`, `sections`, `addresses` the layout, `image` the `TrnImage` |
| `TrnLoader` | `TrnLoader::load` | `Loads(file)` is the conjunction of its tests, `Loaded(file)` what it returns |
| `ImageMeaning` | what an image means to its client (`Meaning`), and which images a loader may pass on (`Acceptable`) | operators on an image; the two sides of a file without the file |
| `TrnFile` | writer, disk and loader | a client fills an image, lays it out, changes payloads (`PushBack`) and tables (`SetTables`) through the references it holds, before or after the layout, and writes it over an older file; the write may throw when the file is already empty or stop anywhere, and the file may be damaged; then it is loaded. `stored` is what the client has the right to get back: the meaning of the image if it was `Faithful`, `Nothing` behind a write that did not end, `Unknown` for a damaged file or an image that was not `Faithful` |
| `ImageStore` | what a `.trn` file promises | a store of whole images; of unknown content only that what comes back is acceptable; implemented by `TrnFile` (`RefinesStore`) |
| `Toolchain` | `tasm` and `tvm` | composes `Assembler`, `TrnLoader` and `TVM`; `phase` is the running tool, `file` the executable between them |
| `Codec`, `ALUAlgebra` | laws of the pure operators | the behaviour picks one value, or one pair |
| `MC*` | instances for TLC | programs, texts, images, host CPUs and bounds |
| `*Theorems` | proofs | see below |

The modules are parameterised by `WIDTH`, 27 in the code; nothing else depends on the width but the
length of the cargo (`WIDTH - 9`). Signed division and remainder are those of C++ where the code
uses them on negative numbers (`CRem`, `CDiv`). The loop of `Word::from_integer` takes `n % 3` and
rewrites 2 and -2 with a carry or a borrow; `LowTrit` and `Shifted` are the digit and the remainder
this leaves. Definitions marked `mutant` are deliberate bugs: each is swapped for the
definition behind it to make sure the properties notice.

## Runs

| Run | Instance and bounds | Shows |
|---|---|---|
| `codec` | width 10, every word: all values of a tryte (always nine trits), all opcodes and registers, one cargo trit | conversions are inverse, the three algorithms agree, encoding is canonical |
| `alu_algebra` | width 4, every pair | modular arithmetic, laws of trit-wise logic, SHF; amounts beyond the width included |
| `memory_flat` | width 1: three addresses, three values, all maps | refinement of the flat memory, `size` included; the theorem covers other widths |
| `call_frames` | width 11. Every 3-word program from 13 instructions at address 0, SP at 0 (as loaded) and at 1, call depth 3; every 2-word program of all opcodes at the top of memory, SP at both ends, extreme registers | the stack convention, the image and returns; contained failure; all opcodes fire |
| `tvm_load` | 23 images: overlapping and repeated sections, zero words, one broken field each, addresses above the last word; PC in the image or at 0; two contexts deep, the second only over the plain image | what a load leaves, with steps, runs and every host change in any order; exact, last-in-first-out restores across all of them |
| `assembler` | width 11 (cargo of two trits, numbers up to 4): texts of all programs of up to two of 13 statements, all of up to three behind `section .text`, `_start:`, every instruction shape, a list of six operands, branches over up to five words, scattered sections, based at both ends of the address space and at 0; four beginnings of lines with every continuation of up to three pieces; a well-formed program before a line that is not | the parser reads the language `Grammar` states; the passes agree with each other and with the program as a whole |
| `trn_file` | width 5. Every list of up to three sections, with the payloads it names or with all of them; a hundred images with one field or entry wrong; layouts and changes of payloads (up to `MaxPayload` words) in any order; 26 changes of the tables of two images (a section or symbol less or more, in another order, with another size or offset, another header); reservations below zero and beyond memory (`MaxReserve`); writes that stop behind or inside every word; every word of three files replaced by eleven values | `RefinesStore`, `LoadersAgree` |
| `toolchain` | width 11. Every pair of 25 instructions between an opening and an end, a counted loop, nested subroutines, endless and self-changing programs; every placement of up to four directives, labels and words | an opened executable is one with a word behind each label; `tvm` starts with the program as it was laid out; every step does what its statement says; the exit status tells how the program ended; the tools return |
| `reopened_text` | the programs of `assembler` | see Findings |
| `bss_overlap` | the good images of `tvm_load` | see Findings |
| `unloadable` | the texts of `toolchain` | see Findings |
| `manual` | one program that is accepted, and its four variants | see Findings |

Small widths are enough for the state machines because the code treats a word as a number with two
ends: the runs keep zero, both ends and the wrap between them. A program of three words holds a call,
its target and a return; deeper nesting repeats it (depth 3) and the theorems cover the rest.
`CALL` depth (`MaxDepth`), PC (`Bounded`, `LastAddress`), the number of contexts (`MaxContexts`) and of
words appended to a payload (`MaxPayload`) are the only bounds on behaviours. `INT64_MAX` and
`LLONG_MAX` are constants above every sum of two words, as they are in the code. `MaxReserve` is no
bound of the model but the memory of the writing program. `Fragile` selects the
images whose tables are changed, whose writes stop and whose files are damaged; three are enough, because
what the loader can tell of a file depends on its words and not on where they came from.

A halted machine still answers `step` with an exception, so the machine never deadlocks; `assemble`,
the tools and a file that has been loaded come to an end, and their runs end there (`CHECK_DEADLOCK FALSE`).

The order in which `resolve_symbol_addresses` walks its hash map is left out: the only thing it can
change is which addresses exist when one of them throws, and the exception discards them. `NameOrder`
lists the names in the order of `std::sort`, since the model has no order on strings.

`RunsAsWritten` states the meaning of each mnemonic on the operands of the text: it is what tells apart
the four places that know the roles of operands (signatures, encoder, decoder, executor). It leaves out
words that the program has overwritten, programs that open `.text` twice (see Findings), and steps whose
PC or SP would leave the address space (`Room`): those throw.

Fairness (`ToolSpec`): weak fairness of the step of whichever tool runs. Both are sequential programs on
one thread that wait for nothing, so an enabled step is taken. `ToolsReturn` is a property of the
programs as much as of the tools: a program that loops keeps `tvm` forever, so the property is about the
texts that are not `Endless`.

## Findings

- `reopened_text`: the encode loop restarts `current_offset` at every section directive
  (`assembler.cpp:276`) and the other passes do not, so behind a second `.text` directive
  displacements are too large and branches miss their labels (ARCHITECTURE 16.7). Nothing forbids
  opening a section again. `BranchReachesLabel` shows that programs that open `.text` once are right,
  and `LabelsPointAtInstructions` that label addresses are right in all programs.
- `bss_overlap`: the loader never writes `.bss`. It is zero because the memory was cleared, unless
  another section overlaps it, which validation admits (ARCHITECTURE 37.14 asks the loader to
  initialise every word).
- `unloadable`: `populate_header` only asks that `_start` has an address (`assembler.cpp:206`). With
  `_start` in a section without words, or behind the last word of `.text`, `tasm` reports success and
  `tvm` rejects the file; TASM_MANUAL 8 asks for a valid entry point. `OpensIffLabelsHaveWords` gives the
  exact condition, for any label: `resolve_symbol_addresses` (`layout.hpp:223`) admits the offset behind
  the last word of a section and `TrnLoader` (`trn_loader.cpp:405`) does not.
- `manual`: the language of the assembler is narrower than that of the manual. Directives and mnemonics
  are compared as they are written (`parser.hpp:44`, `semantic.hpp:125`), so `SECTION .text` is a parse
  error and `hlt` a semantic error, where TASM_MANUAL 3.3 calls both case-insensitive. A statement has to
  end with its line (`parser.hpp:56` and the other calls of `consume_statement_end`), so `_start: HLT` is a
  parse error, and `[R2 -1]` is one because a minus in front of a digit belongs to the number
  (`lexer.hpp:108`), where TASM_MANUAL 3.1 gives line breaks and spaces no meaning but that of separating
  tokens. `VariantsAreAccepted` asks for one of these four only, so that its violation shows them all.

  `ParserMatchesGrammar` is about another question: whether the parser, with its positions and its
  separate functions, takes and reads exactly the lines of the language its code describes.

Further observations, not findings of a run:

- Nothing protects `.rodata` from `ST` (ARCHITECTURE 37.13 forbids it to executable code).
- The negation in `parser.hpp:123` is undefined for the least 64-bit integer; the model keeps the value,
  as two's complement builds do, and the encoder rejects it.
- `TrnWriter::write` empties the file before `serialize` may throw, so the older executable is gone: for a
  word that does not fit (`WriteUnserializable`), and for a reservation that fails, which a negative
  `symbol_table` in the header is enough for (`WriteUnreservable`).
- `serialize` appends the payloads in the order text, data, rodata whatever the section table says; an
  image whose table has another order, or that was changed after `layout`, is written and perhaps even
  loaded with the words of one section in another. `Faithful` is the condition under which
  `RefinesStore` gives the client its image back: sections in the order of `serialize`, and nothing changed
  behind the layout (laying out again changes nothing). The assembler's images satisfy it
  (`FinalFaithful`). Of any other image only this is promised: what loads is `Acceptable`.

## Proofs

All theorems hold for every `WIDTH` (a positive natural; at least 9 where instructions are decoded)
and for every program, image, file or machine, not only for those of the runs.

| Module | Theorems | About |
|---|---|---|
| `TernaryTheorems` | `RoundTrip`, `TritsRoundTrip` | the conversion loops |
| `CodecTheorems` | `WordsRoundTrip`, `TrytesAgree`, `FormatsAgree`, `EncodingIsCanonical`, `WrapsModulo`, `TritsObeyLaws`, `ShiftsScale`, `VectorsFillTable`, `CausesCollide`, `VectorsAreWords` | the pure operators |
| `MachineTheorems` | `StorageTyped`, `SparseImplementsFlat` | the memory |
| `StackTheorems` | `FrameTypes`, `StackConvention`, `ImageSurvivesCalls`, `Returns`, `FailuresAreContained`, `UnwrittenMemoryStores` | a program on the executor |
| `TVMTheorems` | `TvmTyped`, `LoadsTheImage`, `FailedLoadsAreContained`; `StackOfSaves`, `RestoresExactly` | the virtual machine under its host; the contexts it saves |
| `AssemblerTheorems` | `AssemblerTyped`, `SectionsPartition`, `LabelsReachInstructions`, `BranchesReach`, `FilesAreDisjoint`, `SymbolsMatch`, `Assembles`, `ParserCorrect`; `ToolsAgree`, `ToolsStart`, `ToolsRun`, `ToolsExit` | the passes of the assembler; both tools |
| `FormatTheorems` | (lemmas) | the formats between the tools. One image: where its layout puts it in the file, what the loader reads back. One text: what the lexer and the parser make of each line |
| `TrnTheorems` | `SecondLoaderAgrees`, `LoadersAlwaysAgree`, `StoreImplemented` | the file and its two loaders |

### Assumptions

They are those of the constants, named where the constants are declared, and TLC evaluates them in the
runs. `WidthAssumption` and `FormatAssumption`: the width is positive, and an instruction holds its three
fixed fields. `Int64Assumption`: a sum of two words does not overflow 64 bits, as
for 27 trits it does not. `StartAssumption`: a step loop begins with a typed machine whose map stores no
zero. `HostAssumption`, `ImagesAssumption`: what a host hands over has its C++ type (a CPU of words,
sections of words). `ClientAssumption`: so have the images and tables of a client, and the older file is one that was
stored as it should be. `AssemblerAssumption`: the base is a word, and a text is a sequence of pieces that
are as long as they can be; `LexerAssumption`: `LLONG_MAX` is a natural number. `NameOrderAssumption`:
`NameOrder` is a sequence with `_start` and every name that stands in front of a colon
in it: all that can become labels. `ToolAssumption`: `tasm` passes no base, so `assemble_to_file` takes
its default, 0.

### The arguments

- **Conversions.** The recursive functions behind the loops exist and unroll (`AccumulatedDef`,
  `RemainingDef`, from `LoopTrace`, an induction over an interval that uses no operator parameter).
  `NothingRemains` is the reason why the throw behind the loop of `from_integer` is dead: half a power of
  three is left of the number after each trit. Whatever is read trit by trit goes through `Powers`, which
  splits a word into its high and low part, so `wrap` is a congruence, a shift a multiplication,
  and the three algorithms give the same digits because digits are unique (`HasDigit`).
- **Memory.** A write changes what is read at one address and stores no zero (`WriteChangesOneWord`);
  with it every call on the map is the call on the flat memory.
- **Calls.** The inductive invariant is `FrameInv == FrameTypeOK /\ FramesIntact /\ ImageIntact`. None of
  the parts is inductive alone: a RET needs SP below its first value to know that SP + 1 is a word, and
  the image survives a CALL because `FramesIntact` puts the slot it writes below the image. The step is
  split by what it does to memory and SP: ST, CALL, RET, and the other opcodes, which are `Plain`.
  `UnwrittenMemoryStores` is about the one word a program meets without having been
  given it: a zero decodes to a store, in every width.
- **TVM.** `TvmInv == TvmTypeOK /\ at \in Cursor /\ LoadInProgress`. `LoadInProgress` says of a load that
  stands at a word that the memory is what the writes in front of it leave (`Filled`), which is the
  only thing that the last word needs: a machine after a load is a function of the image.
- **Contexts.** `ContextsMatchSaves` is inductive next to `TvmInv`, which says that the frames are typed:
  no instruction touches the context stack (`StepKeepsContexts`), and a load that is not rejected empties it.
- **Assembler.** `IndInv == ProgramInv /\ TableInv /\ LayoutInv /\ ImageInv` has one part per pass, and
  each part states what a pass has made in terms of the program, never of another pass: symbols and
  sizes are counts of instructions in front of a statement, sections a chain of those counts, the words
  of `.text` the encodings of its statements. The passes recompute the same offsets independently, so
  nothing weaker is inductive; that the counts are equal at the end is what the properties need. The
  encode loop is the exception: its offset is the count only while `.text` is opened once (see Findings).
- **Which programs assemble.** `Assembles` needs what the loops have tested besides, `FitInv`: the
  operands in front of the encoder fit, and `.text` is the first section if it has instructions, since
  only there may instructions be (`OnlyTextHasWords`) and a section in front of it is empty. The attempt
  to prove it found that the property was wrong: a text whose beginning is well-formed and whose last
  line is not leaves statements behind its `ParseError`. The run now has such texts, and the property
  is about texts that were parsed.
- **Parser.** `ParserCorrect` compares a parser that reads tokens from left to right with a grammar that
  does not: a line is what lies between two ends, an operand what lies between two commas. `GrammarInv`
  says that the parser stands at the start of a line, that every line in front of it is `Grammatical` and
  spelled by its statement, and that there are as many statements as such lines (`ReadOf`).
  `ParseStatement` is exact: from the start of a line it either throws, and the line is not `Grammatical`,
  or it ends behind the end of that line with the statement the line spells (`ReadStatement`); below it
  there is one such lemma for each `parse_*` function. A list of operands is read by a recursive function,
  and followed comma by comma. The attempt to prove it found that the grammar was wrong, and not the
  parser: it had lists of up to four operands, where `parse_instruction` reads any number
  (`parser.hpp:77`) and leaves it to the analysis to reject them. The grammar and the run now have them.
- **Store.** `StoreInv` says of the file that it holds the words of an image that was laid out and is
  `Faithful`, or does not load, or that its content is unknown. That the image was laid out is part of
  `Faithful` and no part of the invariant, since a client may undo it at any time. For one image, `layout` walks over the
  sections and `serialize` over the payloads, and for a `Faithful` image both put every payload at the
  same place (`Walk`, `Placed`); the loader reads back each table and payload (`TablesRead`,
  `SectionsRead`, `SymbolsRead`), and accepts exactly the images that are `Acceptable`
  (`LoadsIffAcceptable`). A file that is cut anywhere does not load (`CutFile`).
  Of unknown content the loader's own tests must do: whatever the file, the image it returns is
  `Acceptable` (`LoadedIsAcceptable`).
- **Both tools.** `ToolsAgree` follows a program through the file. `ReadyInv` says of an assembled image
  that it is laid out and `Faithful` (`FinalFaithful`: with data and rodata empty, the text is the one
  payload, and `LayoutStays`: laying out twice changes nothing), and that it is `Acceptable` exactly if every label has a word (`FinalMeaning`): of the
  conditions of the loader all hold of every assembled image but those on the text section, the entry
  point and the offsets of symbols, and these three together say `LabelsHaveWords` (`WordsOfSymbols`).
  `LoadsIffAcceptable` carries this over to the file, and the proof of the two loaders to the machine
  (`ReadyLoads`); `ToolInv` is what each tool knows of the file when it starts. `NamesInv` is there because
  a symbol that `NameOrder` did not list would be missing from the table. The proof found that the model
  had let `tasm` write images with numbers that are no words; the writer throws there, when it has
  already emptied the file, and `TasmExit` now says so.
- **The start.** `ToolsStart` follows the words of `.text` into the memory of `tvm`. `StandingInv` says that
  `.text` is the only payload of an assembled image and stands at the base (`TextIsFirst`), with
  which the image that `TrnLoader` returns is `Prepared` (`OpenPrepares`). `LoopInv` says that
  `ImageLoader` has copied the words in front of its slot and nothing else (`StoredFrom`). No turn of its loop
  throws: the loader has tested that the text lies within the memory of the image, whose size is a word.
- **The run.** `ToolsRun` is the longest argument. What an encoded word says is stated by `Says`: `decode`
  gives back the mnemonic and the operands of the statement (`EncodedSays`, one shape of instruction after
  the other). `WordsInv` says it of the words in front of the encode loop, with displacements as
  the loop has them; `WrittenInv` of the finished image, where with `BranchesReach` they end at the
  address of the label. `RunInv` says that `tvm` runs only what was assembled and that STATUS is the result of
  a comparison, so the four branches cover it. Then every statement `Meant` is compared with the
  handler of its opcode (`StatementRuns`, from one lemma for each group of opcodes). The proof found what the
  property had left out, `Room`: at the ends of the address space PC and SP do not wrap.
- **The exit.** `ToolsExit`: only HLT sets the halted flag, and it leaves PC where it is; any other step
  that ends the run has thrown, for one of the reasons its opcode has (`StepEnds`, over the opcodes).
  `EndInv` carries this from the last turn of the run to the exit; that a load never fails in the
  middle, which would be another way to 1, is `ToolsStart`.
- **Two loaders.** What `TrnLoader` accepts passes the validation of `ImageLoader` but for the flags of its
  sections and a memory below 0, for any words in any number: the lemmas say what the loop over the
  sections has established of each.

### Only model-checked

- `ToolsReturn`: liveness under fairness, out of the prover's reach. Every other property of the runs that
  hold is stated by a theorem.

## Not modelled

- The string forms of words (`to_string`, `from_string`): used by messages and tests only.
- Lines and columns of tokens, and the wording of exceptions.
- The parsing of command-line arguments and the opening of the input file; a file that cannot be opened
  is an error before anything changes.
- A `tvm` that reads a file while a `tasm` writes it: the code takes no lock and promises nothing.
- Symbols and flags words of a `LoadedImage`: carried by the TRN loader, never read by the image loader.
- The references `SymbolResolver::resolve` returns (the assembler discards them) and the file offsets
  of `Layout` (the assembler uses those of `TrnImage::layout`).
- The order of tests inside `validate` and `TrnLoader::load`: all of them throw the same exception and
  have changed nothing.

## Plan

What is left is out of the prover's reach or changes no state:

1. `ToolsReturn`, if a prover for liveness is at hand: a variant for each loop of `tasm`, and for `tvm` the
   length of the program.
2. The string forms of words and the command-line arguments, as pure conversions.
