----------------------------- MODULE TrnLoader ------------------------------
(***************************************************************************)
(* TrnLoader::load (src/src/runtime/trn_loader.cpp): a file becomes a      *)
(* LoadedImage or a TrnLoaderError.  A file is the sequence of its words   *)
(* and whether its size is a whole number of them.  Every failing test     *)
(* throws the same exception and nothing exists but locals until the end,  *)
(* so the order of the tests is left out; sums of words never overflow     *)
(* 64 bits, so checked_add is +.                                           *)
(***************************************************************************)
EXTENDS TrnFormat, LoadedImage

\* 27 trits are less than half of 63 bits
ASSUME Int64Assumption == INT64_MAX \in Nat /\ INT64_MAX >= 2 * MAX_VALUE

FileSizeOK(file) == file.whole /\ Len(file.words) >= HeaderWords

\* decode_word throws unless the word is made of trits
Decodes(file, at) == file.words[at] \in Word

header(file) == decode_header(file.words)

\* the words of the i-th entry of each table, from 0
SectionEntry(file, i) == SubSeq(file.words, HeaderWords + SectionEntryWords * i + 1,
                                HeaderWords + SectionEntryWords * (i + 1))
SymbolEntryAt(file, i) == header(file).symbol_table + SymbolEntryWords * i
SymbolEntryOf(file, i) == SubSeq(file.words, SymbolEntryAt(file, i) + 1,
                                 SymbolEntryAt(file, i + 1))

MetadataEnd(file) == SymbolEntryAt(file, header(file).symbol_count)

ValidHeader(file) ==
    /\ \A k \in 1 .. HeaderWords : Decodes(file, k)
    /\ LET h == header(file)
       IN  /\ h.architecture_id = 1 /\ h.isa_version = 1 /\ h.format_version = 1
           /\ h.section_table = HeaderWords
           /\ h.section_count >= 0 /\ h.symbol_count >= 0
           /\ h.symbol_table = HeaderWords + SectionEntryWords * h.section_count
           /\ MetadataEnd(file) <= Len(file.words)

SectionsOf(file) == 0 .. header(file).section_count - 1
SymbolsOf(file)  == 0 .. header(file).symbol_count - 1

\* the names of the fields of a section entry
Type(e)           == e[1]
Flags(e)          == e[2]
FileOffset(e)     == e[3]
Size(e)           == e[4]
VirtualAddress(e) == e[5]
Alignment(e)      == e[6]

Physical(e) == Type(e) # SectionType.bss

\* checked_range, and decode_runtime_word of every word of the payload
PayloadInside(file, e) ==
    /\ FileOffset(e) >= MetadataEnd(file) /\ FileOffset(e) + Size(e) <= Len(file.words)
    /\ \A k \in FileOffset(e) + 1 .. FileOffset(e) + Size(e) : Decodes(file, k)

\* one turn of the loop over the sections
ValidEntry(file, e) ==
    /\ \A k \in 1 .. SectionEntryWords : e[k] \in Word
    /\ Type(e) \in 0 .. 3 /\ Flags(e) \in 0 .. 7
    /\ Size(e) >= 0 /\ Alignment(e) > 0
    /\ e[7] = 0 /\ e[8] = 0
    /\ IF Physical(e) THEN PayloadInside(file, e) ELSE FileOffset(e) = 0

\* payload_ranges, which empty payloads do not enter
PayloadsDisjoint(file) ==
    \A i, j \in SectionsOf(file) :
        LET a == SectionEntry(file, i)
            b == SectionEntry(file, j)
        IN  /\ i < j /\ Physical(a) /\ Physical(b) /\ Size(a) # 0 /\ Size(b) # 0
            => ~(/\ FileOffset(a) < FileOffset(b) + Size(b)
                 /\ FileOffset(b) < FileOffset(a) + Size(a))

\* mutant: a symbol may lie at the end of its section
OffsetUpTo(offset, size) == offset >= 0 /\ offset <= size

OffsetInside(offset, size) == offset >= 0 /\ offset < size

\* one turn of the loop over the symbols
ValidSymbol(file, i) ==
    LET e == SymbolEntryOf(file, i)
    IN  /\ \A k \in 1 .. SymbolEntryWords : e[k] \in Word
        /\ e[1] = i
        /\ e[2] \in 0 .. 2
        /\ e[3] \in SectionsOf(file)
        /\ OffsetInside(e[4], Size(SectionEntry(file, e[3])))
        /\ e[5] \in {0, 1}
        /\ e[6] = 0

ValidStartSymbol(file) ==
    LET start == header(file).start_symbol
    IN  /\ start >= -1
        /\ start >= 0 => /\ start \in SymbolsOf(file)
                         /\ SymbolEntryOf(file, start)[2] = SymbolType.Entry

\* mutant: the end of a section is not compared with the end of memory
InsideMemoryBelow(file) ==
    /\ header(file).memory_size >= 0
    /\ \A i \in SectionsOf(file) :
          VirtualAddress(SectionEntry(file, i)) >= header(file).memory_base

\* the sections against the declared memory
InsideMemory(file) ==
    LET h == header(file)
    IN  /\ h.memory_size >= 0
        /\ \A i \in SectionsOf(file) :
              LET e == SectionEntry(file, i)
              IN  /\ VirtualAddress(e) >= h.memory_base
                  /\ VirtualAddress(e) + Size(e) <= h.memory_base + h.memory_size

LoadedType == << "Text", "Data", "Rodata", "Bss" >>

\* the flags word keeps its bits: decode_section_flags
FlagSet(bits) == {f \in {"Read", "Write", "Execute"} : (bits \div SectionFlag[f]) % 2 = 1}

LoadedSection(file, e) ==
    [type            |-> LoadedType[Type(e) + 1],
     flags           |-> FlagSet(Flags(e)),
     virtual_address |-> VirtualAddress(e),
     memory_size     |-> Size(e),
     alignment       |-> Alignment(e),
     words           |-> IF Physical(e)
                         THEN SubSeq(file.words, FileOffset(e) + 1, FileOffset(e) + Size(e))
                         ELSE << >>]

\* a symbol loses its visibility and its offset becomes an address
LoadedSymbol(file, i) ==
    LET e == SymbolEntryOf(file, i)
    IN  [identifier |-> e[1], type |-> e[2], section |-> e[3],
         address    |-> VirtualAddress(SectionEntry(file, e[3])) + e[4]]

LoadedHeader ==
    {"architecture_id", "isa_version", "format_version", "flags", "entry_point",
     "start_symbol", "memory_base", "memory_size"}

Loaded(file) ==
    [field \in LoadedHeader \cup {"sections", "symbols"} |->
        CASE field = "sections" ->
                [k \in 1 .. header(file).section_count |->
                    LoadedSection(file, SectionEntry(file, k - 1))]
          [] field = "symbols" ->
                [k \in 1 .. header(file).symbol_count |-> LoadedSymbol(file, k - 1)]
          [] OTHER -> header(file)[field]]

\* load returns Loaded(file), or throws if any of these fails
Loads(file) ==
    /\ FileSizeOK(file)
    /\ ValidHeader(file)
    /\ \A i \in SectionsOf(file) : ValidEntry(file, SectionEntry(file, i))
    /\ PayloadsDisjoint(file)
    /\ \A i \in SymbolsOf(file) : ValidSymbol(file, i)
    /\ ValidStartSymbol(file)
    /\ InsideMemory(file)
    /\ has_section(Loaded(file), "Text")
    /\ is_valid_entry_point(Loaded(file))
=============================================================================
