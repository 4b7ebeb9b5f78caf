------------------------------ MODULE TrnImage ------------------------------
(***************************************************************************)
(* The image the assembler fills and the writer stores                     *)
(* (src/src/assembler/trn_image.hpp, trn_writer.hpp).  layout computes the *)
(* file offsets by walking over the section table; serialize appends the   *)
(* three payloads in an order of its own.                                  *)
(***************************************************************************)
EXTENDS TrnFormat

EmptyImage ==
    [header |-> NewHeader, sections |-> << >>, symbols |-> << >>,
     text |-> << >>, data |-> << >>, rodata |-> << >>, bss_size |-> 0, laid_out |-> FALSE]

\* the words a section puts into the file
Payload(image, type) ==
    CASE type = "text"   -> image.text
      [] type = "data"   -> image.data
      [] type = "rodata" -> image.rodata
      [] type = "bss"    -> << >>

SizeOf(image, type) ==
    IF type = "bss" THEN image.bss_size ELSE Len(Payload(image, type))

\* a negative size throws and changes nothing
set_bss_size(image, size) ==
    IF size < 0 THEN image ELSE [image EXCEPT !.bss_size = size, !.laid_out = FALSE]

SymbolTableAt(image) == HeaderWords + Len(image.sections) * SectionEntryWords

\* mutant: the first payload starts where the symbols do
PayloadAtSymbols(image) == SymbolTableAt(image)

PayloadAt(image) == SymbolTableAt(image) + Len(image.symbols) * SymbolEntryWords

\* cursor at the top of the loop over the sections
FileCursor(image) ==
    LET at[k \in DOMAIN image.sections] ==
            IF k = 1 THEN PayloadAt(image)
            ELSE at[k - 1] + Len(Payload(image, image.sections[k - 1].type))
    IN  at

layout(image) ==
    [image EXCEPT
        !.header   = [@ EXCEPT !.section_table = HeaderWords,
                               !.section_count = Len(image.sections),
                               !.symbol_table  = SymbolTableAt(image),
                               !.symbol_count  = Len(image.symbols)],
        !.sections = [k \in DOMAIN @ |->
                        [@[k] EXCEPT
                            !.file_offset = IF image.sections[k].type = "bss" THEN 0 ELSE FileCursor(image)[k],
                            !.size = SizeOf(image, image.sections[k].type)]],
        !.laid_out = TRUE]

\* mutant: the payloads are appended in another order than they are laid out
PayloadsDataFirst(image) == image.data \o image.text \o image.rodata

Payloads(image) == image.text \o image.data \o image.rodata

\* a table: the entries behind each other, each of this many words
Table(entries, words, encode(_)) ==
    [at \in 1 .. Len(entries) * words |->
        encode(entries[((at - 1) \div words) + 1])[((at - 1) % words) + 1]]

\* the words of the file; encode_word throws for one that does not fit
serialize(image) ==
    encode_header(image.header)
        \o Table(image.sections, SectionEntryWords, encode_section)
        \o Table(image.symbols, SymbolEntryWords, encode_symbol)
        \o Payloads(image)

\* where the header and the section table say the payloads end
payload_end(image) ==
    LET ends == {image.header.symbol_table + Len(image.symbols) * SymbolEntryWords}
                \cup {image.sections[k].file_offset + image.sections[k].size :
                         k \in {j \in DOMAIN image.sections : image.sections[j].type # "bss"}}
    IN  CHOOSE end \in ends : \A other \in ends : other <= end

Serializable(image) ==
    LET words == serialize(image)
    IN  \A k \in DOMAIN words : Fits(words[k])
=============================================================================
