---------------------------- MODULE ImageMeaning ----------------------------
(***************************************************************************)
(* What an image means to its client, in terms of its payloads alone, and  *)
(* which images a loader may pass on: the two sides of a .trn file without *)
(* the file.                                                               *)
(***************************************************************************)
EXTENDS TrnImage, TrnLoader

Whole(words)   == [words |-> words, whole |-> TRUE]
EmptyFile      == Whole(<< >>)

Meaning(img) ==
    [field \in LoadedHeader \cup {"sections", "symbols"} |->
        CASE field = "sections" ->
                [k \in DOMAIN img.sections |->
                    LET s == img.sections[k]
                    IN  [type |-> LoadedType[SectionType[s.type] + 1], flags |-> s.flags,
                         virtual_address |-> s.virtual_address, alignment |-> s.alignment,
                         memory_size |-> SizeOf(img, s.type), words |-> Payload(img, s.type)]]
          [] field = "symbols" ->
                [k \in DOMAIN img.symbols |->
                    LET s == img.symbols[k]
                    IN  [identifier |-> s.identifier, type |-> SymbolType[s.type],
                         section |-> s.section,
                         address |-> IF s.section + 1 \in DOMAIN img.sections
                                     THEN img.sections[s.section + 1].virtual_address + s.offset
                                     ELSE 0]]
          [] OTHER -> img.header[field]]

\* the sections that have a payload stand in the table in the order in which
\* serialize appends them, each at most once, none is missing, and nothing was
\* changed behind the last layout: laying the image out again changes nothing
Faithful(img) ==
    LET rank(k) == SectionType[img.sections[k].type]
        filed   == {k \in DOMAIN img.sections :
                       img.sections[k].type # "bss" /\ Payload(img, img.sections[k].type) # << >>}
    IN  /\ \A j, k \in filed : j < k => rank(j) < rank(k)
        /\ \A type \in {"text", "data", "rodata"} :
              Payload(img, type) # << >> => \E k \in filed : img.sections[k].type = type
        /\ layout(img) = img

\* the members of a TrnImage
TypedImages ==
    [header   : [DOMAIN NewHeader -> Int],
     sections : Seq([type : DOMAIN SectionType, flags : SUBSET DOMAIN SectionFlag,
                     file_offset : Int, size : Int, alignment : Int, virtual_address : Int]),
     symbols  : Seq([identifier : Int, type : DOMAIN SymbolType, section : Int, offset : Int,
                     visibility : DOMAIN SymbolVisibility]),
     text : Seq(Int), data : Seq(Int), rodata : Seq(Int), bss_size : Nat, laid_out : BOOLEAN]

\* ARCHITECTURE 37.20: what a loader may not pass on
Extent(s) == s.virtual_address .. s.virtual_address + s.memory_size - 1

Acceptable(m) ==
    /\ m.architecture_id = 1 /\ m.isa_version = 1 /\ m.format_version = 1
    /\ has_section(m, "Text") /\ m.entry_point \in Extent(text(m))
    /\ \A k \in DOMAIN m.sections :
          /\ m.sections[k].alignment > 0
          /\ m.sections[k].virtual_address >= m.memory_base
          /\ m.sections[k].virtual_address + m.sections[k].memory_size
                <= m.memory_base + m.memory_size
    /\ \A k \in DOMAIN m.symbols :
          /\ m.symbols[k].identifier = k - 1
          /\ m.symbols[k].section + 1 \in DOMAIN m.sections
          /\ m.symbols[k].address \in Extent(m.sections[m.symbols[k].section + 1])
    /\ \/ m.start_symbol = -1
       \/ /\ m.start_symbol + 1 \in DOMAIN m.symbols
          /\ m.symbols[m.start_symbol + 1].type = SymbolType.Entry
    /\ m.memory_size >= 0

\* what ImageLoader asks of the flags of the sections
ProperFlags(m) ==
    /\ executable(text(m))
    /\ \A k \in DOMAIN m.sections :
          LET s == m.sections[k]
          IN  /\ s.type = "Data" => writable(s)
              /\ executable(s) => s.type \in {"Text", "Bss"}
=============================================================================
