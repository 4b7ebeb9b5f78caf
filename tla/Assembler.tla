----------------------------- MODULE Assembler -----------------------------
(***************************************************************************)
(* Assembler::assemble (src/src/assembler/assembler.cpp): the lexer, the   *)
(* parser, semantic analysis, SymbolTable::build (symbol_table.hpp),       *)
(* SymbolResolver::resolve (resolver.hpp), Layout::build (layout.hpp), the *)
(* tables of the image, the encode loop and TrnImage::layout. Three of the *)
(* passes walk over the statements and count instructions on their own;    *)
(* each takes one step per statement. Any pass may throw, which discards   *)
(* the image.                                                              *)
(***************************************************************************)
EXTENDS Encoder, Grammar, TrnImage, FiniteSets

CONSTANTS
    Inputs,    \* the arguments: pairs of a text and a virtual_base
    NameOrder  \* every symbol name once, in the order std::sort gives them

ASSUME AssemblerAssumption ==
    \A input \in Inputs : IsText(input[1]) /\ Maximal(input[1]) /\ input[2] \in Word

\* the names of labels stand in front of a colon
ASSUME NameOrderAssumption ==
    /\ NameOrder \in Seq({NameOrder[k] : k \in DOMAIN NameOrder})
    /\ \E k \in DOMAIN NameOrder : NameOrder[k] = "_start"
    /\ \A input \in Inputs :
          LET t == tokenize(input[1])
          IN  \A i \in 1 .. Len(t) - 1 :
                 t[i].kind = "Identifier" /\ t[i + 1].kind = ":" =>
                     \E k \in DOMAIN NameOrder : NameOrder[k] = t[i].text

VARIABLES
    source, base,                \* the arguments
    tokens, program,             \* what the lexer and the parser make of it
    pass, cursor,                \* the running loop: statement, section, offset in it
    offsets, symbols, globals,   \* SymbolTable
    sizes, sections, addresses,  \* Layout
    image,                       \* TrnImage
    outcome                      \* the exception thrown, or "ok"

arguments == << source, base >>
parsed    == << tokens, program >>
table     == << offsets, symbols, globals >>
placement == << sizes, sections, addresses >>
vars      == << arguments, parsed, pass, cursor, table, placement, image, outcome >>

NoSection == ""
Start     == [at |-> 1, section |-> NoSection, offset |-> 0]

Put(f, key, value) == [k \in DOMAIN f \cup {key} |-> IF k = key THEN value ELSE f[k]]

Init ==
    /\ \E input \in Inputs : source = input[1] /\ base = input[2]
    /\ tokens = << >> /\ program = << >>
    /\ pass = "lex" /\ cursor = Start
    /\ offsets = << >> /\ symbols = << >> /\ globals = {}
    /\ sizes = << >> /\ sections = << >> /\ addresses = << >>
    /\ image = EmptyImage /\ outcome = "running"

Throw(error) ==
    /\ pass' = "done" /\ outcome' = error
    /\ UNCHANGED << arguments, parsed, cursor, table, placement, image >>

Begin(next) == pass' = next /\ cursor' = Start /\ UNCHANGED << arguments, parsed, outcome >>

\* the next turn of the loop of the running pass
Onward   == pass' = pass /\ cursor' = [cursor EXCEPT !.at = @ + 1] /\ UNCHANGED << arguments, parsed, outcome >>
Enter(s) == pass' = pass /\ cursor' = [at |-> cursor.at + 1, section |-> s, offset |-> 0]
                /\ UNCHANGED << arguments, parsed, outcome >>

Here     == program[cursor.at]
At(p, kind) == pass = p /\ cursor.at <= Len(program) /\ Here.kind = kind
AtEnd(p) == pass = p /\ cursor.at > Len(program)

-----------------------------------------------------------------------------
(* Lexer(source).tokenize() and Parser(tokens).parse(), a step for each    *)
(* turn of the loop of parse; cursor.at is position_ + 1                   *)

Tokenize ==
    /\ pass = "lex"
    /\ \/ source = << >> /\ Throw("runtime_error")
       \/ source # << >> /\ ~Lexes(source) /\ Throw("LexError")
       \/ /\ source # << >> /\ Lexes(source)
          /\ tokens' = tokenize(source) /\ pass' = "parse"
          /\ UNCHANGED << arguments, program, cursor, table, placement, image, outcome >>

ParsesOn(statements, next) ==
    /\ program' = program \o statements
    /\ cursor' = [cursor EXCEPT !.at = next]
    /\ UNCHANGED << arguments, tokens, pass, table, placement, image, outcome >>

ParseStatement ==
    /\ pass = "parse" /\ tokens[cursor.at].kind \notin {"Newline", "EndOfFile"}
    /\ \E statement \in {parse_statement(tokens, cursor.at)} :
          IF statement.ok THEN ParsesOn(<< statement.value >>, statement.next)
                          ELSE Throw("ParseError")

ParseNewline ==
    pass = "parse" /\ tokens[cursor.at].kind = "Newline" /\ ParsesOn(<< >>, cursor.at + 1)

ParseEnd ==
    /\ pass = "parse" /\ tokens[cursor.at].kind = "EndOfFile"
    /\ Begin("analyze") /\ UNCHANGED << table, placement, image >>

-----------------------------------------------------------------------------
(* SemanticAnalyzer::analyze *)

Analyze ==
    /\ pass = "analyze"
    /\ \/ /\ \A i \in DOMAIN program : analyze(program[i])
          /\ Begin("symbols") /\ UNCHANGED << table, placement, image >>
       \/ /\ \E i \in DOMAIN program : ~analyze(program[i])
          /\ Throw("SemanticError")

-----------------------------------------------------------------------------
(* SymbolTable::build: one process per kind of statement *)

\* mutant: a reopened section starts again at offset 0
SymbolSectionRestarting ==
    /\ At("symbols", "section") /\ Enter(Here.name)
    /\ offsets' = Put(offsets, Here.name, 0)
    /\ UNCHANGED << symbols, globals, placement, image >>

SymbolSection ==
    /\ At("symbols", "section") /\ Enter(Here.name)
    /\ offsets' = IF Here.name \in DOMAIN offsets THEN offsets
                                                  ELSE Put(offsets, Here.name, 0)
    /\ UNCHANGED << symbols, globals, placement, image >>

\* mutant: the directive must come before the label
SymbolGlobalForwardOnly ==
    /\ At("symbols", "global") /\ Onward
    /\ globals' = globals \cup {Here.name}
    /\ UNCHANGED << offsets, symbols, placement, image >>

SymbolGlobal ==
    /\ At("symbols", "global") /\ Onward
    /\ globals' = globals \cup {Here.name}
    /\ symbols' = IF Here.name \in DOMAIN symbols
                  THEN [symbols EXCEPT ![Here.name].binding = "Global"] ELSE symbols
    /\ UNCHANGED << offsets, placement, image >>

SymbolLabel ==
    /\ At("symbols", "label")
    /\ \/ /\ cursor.section = NoSection \/ Here.name \in DOMAIN symbols
          /\ Throw("SymbolTableError")
       \/ /\ cursor.section # NoSection /\ Here.name \notin DOMAIN symbols
          /\ symbols' = Put(symbols, Here.name,
                            [section |-> cursor.section,
                             offset  |-> offsets[cursor.section],
                             binding |-> IF Here.name \in globals THEN "Global" ELSE "Local"])
          /\ Onward /\ UNCHANGED << offsets, globals, placement, image >>

SymbolInstruction ==
    /\ At("symbols", "instruction")
    /\ \/ cursor.section = NoSection /\ Throw("SymbolTableError")
       \/ /\ cursor.section # NoSection
          /\ offsets' = [offsets EXCEPT ![cursor.section] = @ + 1]
          /\ Onward /\ UNCHANGED << symbols, globals, placement, image >>

-----------------------------------------------------------------------------
(* SymbolResolver::resolve, whose result the assembler throws away: all    *)
(* that is left of it is the exception for a name that has no symbol.      *)

References(statement) ==
    IF statement.kind # "instruction" THEN {}
    ELSE {operand \in {statement.operands[k] : k \in DOMAIN statement.operands} :
              operand.kind = "symbol"}

Unresolved == \E i \in DOMAIN program : \E r \in References(program[i]) :
                  r.name \notin DOMAIN symbols

Resolve ==
    /\ AtEnd("symbols")
    /\ \/ Unresolved /\ Throw("ResolutionError")
       \/ ~Unresolved /\ Begin("measure") /\ UNCHANGED << table, placement, image >>

-----------------------------------------------------------------------------
(* Layout::build *)

\* the order of placement; section_info throws for other names
SectionOrder == << "text", "data", "rodata", "bss" >>
SectionNames == {SectionOrder[k] : k \in 1 .. 4}

MeasureSection ==
    /\ At("measure", "section")
    /\ \/ Here.name \notin SectionNames /\ Throw("LayoutError")
       \/ /\ Here.name \in SectionNames /\ Enter(Here.name)
          /\ sizes' = IF Here.name \in DOMAIN sizes THEN sizes ELSE Put(sizes, Here.name, 0)
          /\ UNCHANGED << table, sections, addresses, image >>

MeasureInstruction ==
    /\ At("measure", "instruction") /\ Onward
    /\ sizes' = [sizes EXCEPT ![cursor.section] = @ + 1]
    /\ UNCHANGED << table, sections, addresses, image >>

MeasureOther ==
    /\ At("measure", "label") \/ At("measure", "global")
    /\ Onward /\ UNCHANGED << table, placement, image >>

Measured == AtEnd("measure") /\ Begin("place") /\ UNCHANGED << table, placement, image >>

\* mutant: the size of the last section is left out
NextAddressShort == IF sections = << >> THEN base ELSE sections[Len(sections)].address + 1

\* virtual_address at the top of the loop
NextAddress ==
    IF sections = << >> THEN base
    ELSE sections[Len(sections)].address + sections[Len(sections)].size

PlaceSection ==
    LET name == SectionOrder[cursor.at]
    IN  /\ pass = "place" /\ cursor.at <= 4
        /\ \/ name \notin DOMAIN sizes /\ Onward /\ UNCHANGED << table, placement, image >>
           \/ /\ name \in DOMAIN sizes /\ ~Fits(NextAddress)
              /\ Throw("out_of_range")
           \/ /\ name \in DOMAIN sizes /\ Fits(NextAddress)
              /\ sections' = Append(sections, [name |-> name, address |-> NextAddress,
                                               size |-> sizes[name]])
              /\ Onward /\ UNCHANGED << table, sizes, addresses, image >>

Placed(name) == \E k \in DOMAIN sections : sections[k].name = name

\* Layout::section and section_index, from 0
section_index(name) == (CHOOSE k \in DOMAIN sections : sections[k].name = name) - 1
section(name)       == sections[section_index(name) + 1]

SymbolAddress(name) == section(symbols[name].section).address + symbols[name].offset

\* resolve_symbol_addresses; an exception leaves nothing that is used
ResolveAddresses ==
    /\ pass = "place" /\ cursor.at > 4
    /\ \/ /\ \A name \in DOMAIN symbols : Fits(SymbolAddress(name))
          /\ addresses' = [name \in DOMAIN symbols |-> SymbolAddress(name)]
          /\ Begin("populate") /\ UNCHANGED << table, sizes, sections, image >>
       \/ /\ \E name \in DOMAIN symbols : ~Fits(SymbolAddress(name))
          /\ Throw("out_of_range")

-----------------------------------------------------------------------------
(* populate_header, populate_sections, populate_symbols *)

format_section_flags ==
    [text   |-> {"Read", "Execute"}, data |-> {"Read", "Write"},
     rodata |-> {"Read"},            bss  |-> {"Read", "Write"}]

\* an address that no section sets keeps the 0 of a new header
AddressOf(name) == IF Placed(name) THEN section(name).address ELSE 0

\* memory_size is accumulated over the sections
MemorySize ==
    LET total[k \in 0 .. Len(sections)] ==
            IF k = 0 THEN 0 ELSE total[k - 1] + sections[k].size
    IN  total[Len(sections)]

\* these names, sorted
Sorted(names) ==
    LET picked[k \in 0 .. Len(NameOrder)] ==
            IF k = 0 THEN << >>
            ELSE IF NameOrder[k] \in names THEN Append(picked[k - 1], NameOrder[k])
                                           ELSE picked[k - 1]
    IN  picked[Len(NameOrder)]

\* the names of the symbols in the order of the table
Ordered == Sorted(DOMAIN symbols)

SymbolEntry(identifier) ==
    LET name   == Ordered[identifier + 1]
        global == symbols[name].binding = "Global"
    IN  [identifier |-> identifier,
         type       |-> IF name = "_start" THEN "Entry" ELSE symbols[name].binding,
         section    |-> section_index(symbols[name].section),
         offset     |-> symbols[name].offset,
         visibility |-> IF global \/ name = "_start" THEN "Global" ELSE "Local"]

StartSymbol == (CHOOSE k \in DOMAIN Ordered : Ordered[k] = "_start") - 1

Populate ==
    /\ pass = "populate"
    /\ \/ "_start" \notin DOMAIN addresses /\ Throw("LayoutError")
       \/ /\ "_start" \in DOMAIN addresses
          /\ image' =
               [image EXCEPT
                  !.header   = [@ EXCEPT !.memory_base    = base,
                                         !.memory_size    = MemorySize,
                                         !.entry_point    = addresses["_start"],
                                         !.start_symbol   = StartSymbol,
                                         !.text_address   = AddressOf("text"),
                                         !.data_address   = AddressOf("data"),
                                         !.rodata_address = AddressOf("rodata"),
                                         !.bss_address    = AddressOf("bss")],
                  !.sections = [k \in DOMAIN sections |->
                                  [type |-> sections[k].name,
                                   flags |-> format_section_flags[sections[k].name],
                                   file_offset |-> 0, size |-> 0, alignment |-> 1,
                                   virtual_address |-> sections[k].address]],
                  !.symbols  = [k \in DOMAIN Ordered |-> SymbolEntry(k - 1)]]
          /\ Begin("encode") /\ UNCHANGED << table, placement >>

-----------------------------------------------------------------------------
(* the encode loop; cursor.offset is current_offset *)

EncodeSection ==
    At("encode", "section") /\ Enter(Here.name) /\ UNCHANGED << table, placement, image >>

EncodeOther ==
    /\ At("encode", "label") \/ At("encode", "global")
    /\ Onward /\ UNCHANGED << table, placement, image >>

\* mutant: displacements count from the following instruction
DisplacementFromNext(target) ==
    addresses[target] - (section(cursor.section).address + cursor.offset + 1)

\* target - pc in resolve_branch
Displacement(target) ==
    addresses[target] - (section(cursor.section).address + cursor.offset)

\* resolve_branch
ResolvedOperands ==
    IF Here.mnemonic \in Branches THEN << Imm(Displacement(Here.operands[1].name)) >>
    ELSE Here.operands

EncodeInstruction ==
    /\ At("encode", "instruction")
    /\ \/ cursor.section # "text" /\ Throw("LayoutError")
       \/ /\ cursor.section = "text" /\ ~Encodable(Here.mnemonic, ResolvedOperands)
          /\ Throw("EncodingError")
       \/ /\ cursor.section = "text" /\ Encodable(Here.mnemonic, ResolvedOperands)
          /\ image' = [image EXCEPT !.text =
                          Append(@, encode_instruction(Here.mnemonic, ResolvedOperands))]
          /\ pass' = pass
          /\ cursor' = [cursor EXCEPT !.at = @ + 1, !.offset = @ + 1]
          /\ UNCHANGED << arguments, parsed, table, placement, outcome >>

\* the loop is done: set_bss_size and layout of the image
Finish ==
    /\ AtEnd("encode")
    /\ image' = layout(IF Placed("bss") THEN set_bss_size(image, section("bss").size) ELSE image)
    /\ pass' = "done" /\ outcome' = "ok"
    /\ UNCHANGED << arguments, parsed, cursor, table, placement >>

Next ==
    \/ Tokenize \/ ParseStatement \/ ParseNewline \/ ParseEnd
    \/ Analyze
    \/ SymbolSection \/ SymbolGlobal \/ SymbolLabel \/ SymbolInstruction
    \/ Resolve
    \/ MeasureSection \/ MeasureInstruction \/ MeasureOther \/ Measured
    \/ PlaceSection \/ ResolveAddresses
    \/ Populate
    \/ EncodeSection \/ EncodeOther \/ EncodeInstruction \/ Finish

Spec == Init /\ [][Next]_vars

-----------------------------------------------------------------------------
(* Properties. They look at the program as a whole, the passes never do. *)

Assembled == outcome = "ok"

InstructionsBefore(i) == {j \in 1 .. i - 1 : program[j].kind = "instruction"}

SectionsBefore(i) == {j \in 1 .. i - 1 : program[j].kind = "section"}

\* the section statement i is in
SectionOf(i) ==
    IF SectionsBefore(i) = {} THEN NoSection
    ELSE program[CHOOSE j \in SectionsBefore(i) : \A h \in SectionsBefore(i) : h <= j].name

Reopened(name) ==
    \E i, j \in DOMAIN program :
        i < j /\ program[i] = Section(name) /\ program[j] = Section(name)

\* The state stays typed: addresses are words, offsets stay within what was
\* counted, the text holds words. Word::from_integer is where the layout
\* would leave the address space.
AssemblerTypeOK ==
    /\ pass \in {"lex", "parse", "analyze", "symbols", "measure", "place", "populate", "encode",
                "done"}
    /\ pass = "done" <=> outcome # "running"
    /\ \A name \in DOMAIN symbols :
          symbols[name].offset \in 0 .. offsets[symbols[name].section]
    /\ \A k \in DOMAIN sections : sections[k].address \in Word /\ sections[k].size \in Nat
    /\ \A name \in DOMAIN addresses : addresses[name] \in Word
    /\ \A k \in DOMAIN image.text : image.text[k] \in Word

\* The parser, which reads token by token and never looks back, accepts exactly
\* the texts whose lines all have one of the shapes of the language, and its
\* statements are the lines in their order: no token is skipped, merged into
\* the next line or read as another operand.
ParserMatchesGrammar ==
    pass = "analyze" \/ outcome = "ParseError" =>
        LET t == tokenize(source)
        IN  /\ outcome = "ParseError" <=> \E p \in Starts(t) : ~Grammatical(t, p)
            /\ pass = "analyze" =>
                   /\ Len(program) = Cardinality(Starts(t))
                   /\ \A p \in Starts(t) : Spells(t, p, program[LineNumber(t, p)])

\* Where the executor goes from the k-th word of .text, when it takes the
\* branch, is the address of the label the statement names.
BranchesReachLabels ==
    Assembled =>
        \A i \in DOMAIN program :
            program[i].kind = "instruction" /\ program[i].mnemonic \in Branches =>
                LET k == Cardinality(InstructionsBefore(i))
                IN  section("text").address + k + decode(image.text[k + 1]).immediate
                        = addresses[program[i].operands[1].name]

\* The same for programs that open .text once. The displacement comes from
\* three counts of the same instructions: the symbol table's, the layout's
\* and that of the encode loop.
BranchReachesLabel == ~Reopened("text") => BranchesReachLabels

\* A label in .text has the address at which the instruction behind it is
\* loaded, although .text may be opened many times with other sections between.
LabelsPointAtInstructions ==
    Assembled =>
        \A i \in DOMAIN program :
            program[i].kind = "label" /\ SectionOf(i) = "text" =>
                addresses[program[i].name]
                    = section("text").address + Cardinality(InstructionsBefore(i))

\* Sections follow each other without gap or overlap and fill the memory the
\* header announces; the size that placed a section is the size it has in the file.
SectionsPartitionMemory ==
    Assembled =>
        LET n == Len(sections)
        IN  /\ sections[1].address = image.header.memory_base
            /\ \A k \in 1 .. n - 1 :
                  sections[k].address + sections[k].size = sections[k + 1].address
            /\ sections[n].address + sections[n].size
                  = image.header.memory_base + image.header.memory_size
            /\ \A k \in 1 .. n : image.sections[k].size = sections[k].size

\* In the file, the payloads start behind the tables and do not overlap.
FileRangesDisjoint ==
    Assembled =>
        LET filed == {k \in DOMAIN image.sections : image.sections[k].type # "bss"}
            end(k) == image.sections[k].file_offset + image.sections[k].size
        IN  /\ \A k \in filed :
                  image.sections[k].file_offset
                      >= image.header.symbol_table + SymbolEntryWords * image.header.symbol_count
            /\ \A j, k \in filed : j < k => end(j) <= image.sections[k].file_offset

\* What a loader computes from the tables of the image alone is what the
\* assembler meant: the address of each symbol and the entry point; a name is
\* visible exactly if some directive of the program, before or after its label,
\* makes it global, or if it is the entry.
SymbolsMatchLayout ==
    Assembled =>
        /\ \A k \in DOMAIN Ordered :
              LET entry == image.symbols[k]
              IN  /\ entry.identifier = k - 1
                  /\ image.sections[entry.section + 1].virtual_address + entry.offset
                        = addresses[Ordered[k]]
                  /\ entry.visibility = "Global" <=>
                        \/ Ordered[k] = "_start"
                        \/ \E i \in DOMAIN program : program[i] = Global(Ordered[k])
        /\ LET start == image.symbols[image.header.start_symbol + 1]
           IN  /\ start.type = "Entry"
               /\ image.sections[start.section + 1].virtual_address + start.offset
                     = image.header.entry_point

\* the largest number a cargo holds
MaxCargo == power_of_three(CARGO_WIDTH) \div 2
InCargo(value) == -MaxCargo <= value /\ value <= MaxCargo

Labels == {i \in DOMAIN program : program[i].kind = "label"}
Instructions == {i \in DOMAIN program : program[i].kind = "instruction"}

\* the address of statement i: everything but .text starts behind the code
StatementAddress(i) ==
    base + (IF SectionOf(i) = "text" THEN Cardinality(InstructionsBefore(i))
            ELSE Cardinality(Instructions))

NumberFits(i) ==
    \A k \in DOMAIN program[i].operands :
        LET operand == program[i].operands[k]
        IN  CASE operand.kind = "register"  -> TRUE
              [] operand.kind = "immediate" -> InCargo(operand.value)
              [] operand.kind = "memory"    -> InCargo(operand.offset)
              [] operand.kind = "symbol"    ->
                    \E j \in Labels : /\ program[j].name = operand.name
                                      /\ InCargo(StatementAddress(j) - StatementAddress(i))

WellFormed ==
    /\ \A i \in DOMAIN program : analyze(program[i])
    /\ \A i \in Labels : SectionOf(i) # NoSection
    /\ \A i, j \in Labels : program[i].name = program[j].name => i = j
    /\ \E i \in Labels : program[i].name = "_start"
    /\ \A i \in DOMAIN program : program[i].kind = "section" =>
          /\ program[i].name \in SectionNames
          /\ program[i].name # "text" => base + Cardinality(Instructions) <= MAX_VALUE
    /\ \A i \in Labels : StatementAddress(i) <= MAX_VALUE
    /\ \A i \in Instructions : SectionOf(i) = "text" /\ NumberFits(i)

\* A program that parses and opens .text once assembles exactly if it is well
\* formed: no pass rejects what the others accept, and none lets a number pass
\* that does not fit its cargo. (A ParseError leaves only the statements in front
\* of the line it is about, which may be a program of their own.)
AssemblesIffWellFormed ==
    pass = "done" /\ outcome # "ParseError" /\ ~Reopened("text") => (Assembled <=> WellFormed)
=============================================================================
