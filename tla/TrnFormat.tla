----------------------------- MODULE TrnFormat ------------------------------
(***************************************************************************)
(* The words of a .trn file (src/src/assembler/trn_format.hpp): the codes  *)
(* of its enumerations and the tables that both the assembler's image and  *)
(* the loader use.  A file word is 27 characters; one that is all trits is *)
(* the number it encodes, any other is NoWord.  That encode_word and       *)
(* decode_word are inverse on the numbers that fit, and agree with those   *)
(* of the machine's Word, is checked in Codec.                             *)
(***************************************************************************)
EXTENDS TernaryWord, Sequences

HeaderWords       == 16
SectionEntryWords == 8
SymbolEntryWords  == 6

SectionType      == [text |-> 0, data |-> 1, rodata |-> 2, bss |-> 3]
SectionFlag      == [Read |-> 1, Write |-> 2, Execute |-> 4]
SymbolType       == [Local |-> 0, Global |-> 1, Entry |-> 2]
SymbolVisibility == [Local |-> 0, Global |-> 1]

\* what 27 characters that are not all trits are to the loader
NoWord == MAX_VALUE + 1

\* mutant: the remainder of the host's division is a trit
BalancedRemainderHost(n) == IF CRem(n, 3) = 2 THEN -1 ELSE CRem(n, 3)

\* one turn of the loop of encode_word: balanced_remainder and what remains
BalancedRemainder(n) ==
    CASE CRem(n, 3) = 2  -> -1
      [] CRem(n, 3) = -2 -> 1
      [] OTHER           -> CRem(n, 3)

encode_word(value) ==
    LET remaining[k \in 0 .. WIDTH] ==
            IF k = 0 THEN value
            ELSE (remaining[k - 1] - BalancedRemainder(remaining[k - 1])) \div 3
    IN  [i \in TritIndex |-> BalancedRemainder(remaining[WIDTH - 1 - i])]

\* the fields of the header in their order in the file
HeaderFields ==
    << "architecture_id", "isa_version", "format_version", "flags", "entry_point",
       "start_symbol", "section_table", "section_count", "symbol_table", "symbol_count",
       "memory_base", "memory_size", "text_address", "data_address", "rodata_address",
       "bss_address" >>

\* a default-constructed Header
NewHeader ==
    [architecture_id |-> 1, isa_version |-> 1, format_version |-> 1, flags |-> 0,
     entry_point |-> 0, start_symbol |-> 0, section_table |-> HeaderWords,
     section_count |-> 0, symbol_table |-> 0, symbol_count |-> 0, memory_base |-> 0,
     memory_size |-> 0, text_address |-> 0, data_address |-> 0, rodata_address |-> 0,
     bss_address |-> 0]

\* flags are a set of names where they are built, one bit each in the file
Bit(flags, name) == IF name \in flags THEN SectionFlag[name] ELSE 0
FlagBits(flags)  == Bit(flags, "Read") + Bit(flags, "Write") + Bit(flags, "Execute")

FieldAt == [field \in DOMAIN NewHeader |->
               CHOOSE k \in 1 .. HeaderWords : HeaderFields[k] = field]

encode_header(header) == [k \in 1 .. HeaderWords |-> header[HeaderFields[k]]]
decode_header(words)  == [field \in DOMAIN NewHeader |-> words[FieldAt[field]]]

encode_section(entry) ==
    << SectionType[entry.type], FlagBits(entry.flags), entry.file_offset, entry.size,
       entry.virtual_address, entry.alignment, 0, 0 >>

encode_symbol(entry) ==
    << entry.identifier, SymbolType[entry.type], entry.section, entry.offset,
       SymbolVisibility[entry.visibility], 0 >>
=============================================================================
