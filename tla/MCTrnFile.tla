----------------------------- MODULE MCTrnFile -----------------------------
(***************************************************************************)
(* Words of five trits, numbers up to 121: a file of up to three sections, *)
(* two symbols and seven words of payload has less than 64 words.          *)
(***************************************************************************)
EXTENDS TrnFile, Functions

Words == [text |-> << 11, 12 >>, data |-> << 13 >>, rodata |-> << -14 >>, bss |-> << 0, 0 >>]

ProperFlagsOf ==
    [text |-> {"Read", "Execute"}, data |-> {"Read", "Write"},
     rodata |-> {"Read"},          bss  |-> {"Read", "Write"}]

MemoryBase == 10

\* the section after k others, behind the words of those
AddressIn(types, k) ==
    MemoryBase + FoldFunctionOnSet(+, 0, [j \in DOMAIN types |-> Len(Words[types[j]])], 1 .. k - 1)

\* the image with these sections and with the payloads of all of `filled'; the
\* entry is the first .text, or the first section
ImageOf(types, filled) ==
    LET texts == {k \in DOMAIN types : types[k] = "text"}
        entry == IF texts = {} THEN 1 ELSE CHOOSE k \in texts : \A j \in texts : k <= j
        words(type) == IF type \in filled THEN Words[type] ELSE << >>
    IN  [EmptyImage EXCEPT
            !.header   = [@ EXCEPT !.memory_base = MemoryBase,
                                   !.memory_size = AddressIn(types, Len(types) + 1) - MemoryBase,
                                   !.entry_point = AddressIn(types, entry)],
            !.sections = [k \in DOMAIN types |->
                            [type |-> types[k], flags |-> ProperFlagsOf[types[k]],
                             file_offset |-> 0, size |-> 0, alignment |-> 1,
                             virtual_address |-> AddressIn(types, k)]],
            !.symbols  = << [identifier |-> 0, type |-> "Entry", section |-> entry - 1,
                             offset |-> 0, visibility |-> "Global"] >>,
            !.text = words("text"), !.data = words("data"), !.rodata = words("rodata"),
            !.bss_size = Len(words("bss"))]

Types == DOMAIN SectionType
Shapes == UNION {[1 .. n -> Types] : n \in 0 .. 3}
Listed(types) == {types[k] : k \in DOMAIN types}

WholeImage   == ImageOf(<< "text", "data", "bss" >>, {"text", "data", "bss"})
SwappedImage == ImageOf(<< "data", "text" >>, {"text", "data"})

Symbol(id, type, sec, offset) ==
    [identifier |-> id, type |-> type, section |-> sec, offset |-> offset, visibility |-> "Local"]

\* one thing is different
Variants(img) ==
    {[img EXCEPT !.header.start_symbol = n] : n \in {-2, -1, 1}}
    \cup {[img EXCEPT !.header.entry_point = n] : n \in {0, 9, 11, 12, 121}}
    \cup {[img EXCEPT !.header.memory_size = n] : n \in {-1, 0, 3, 4, 6}}
    \cup {[img EXCEPT !.header.memory_base = n] : n \in {9, 11}}
    \cup {[img EXCEPT !.header.memory_base = -1, !.header.memory_size = n] : n \in {15, 16}}
    \cup {[img EXCEPT !.header[field] = 2] :
             field \in {"architecture_id", "isa_version", "format_version", "flags"}}
    \cup {[img EXCEPT !.sections[k].alignment = n] : k \in 1 .. 2, n \in {-1, 0}}
    \cup {[img EXCEPT !.sections[k].flags = f] : k \in 1 .. 2, f \in SUBSET {"Write", "Execute"}}
    \cup {[img EXCEPT !.sections[3].flags = {"Execute"}]}
    \cup {[img EXCEPT !.symbols = << Symbol(id, type, sec, n) >>] :
             id \in {0, 1}, type \in {"Local", "Entry"}, sec \in {-1, 1, 2, 3}, n \in {-1, 0, 1, 2}}
    \cup {[img EXCEPT !.symbols = @ \o << Symbol(1, "Entry", 0, 1) >>, !.header.start_symbol = n] :
             n \in {-1, 1}}
    \cup {[img EXCEPT !.symbols = << >>, !.header.start_symbol = n] : n \in {-1, 0}}
    \cup {[img EXCEPT !.symbols[1].offset = 122]}

Filled     == {ImageOf(types, Listed(types)) : types \in Shapes}
Overfilled == {ImageOf(types, Types) : types \in Shapes}

AllImages == Filled \cup Overfilled \cup Variants(WholeImage)

\* what a client may do to the tables behind layout, or in front of it
TablesOf(img) == [header |-> img.header, sections |-> img.sections, symbols |-> img.symbols]

Changed(img) ==
    {[img EXCEPT !.sections = SubSeq(@, 1, Len(@) - 1)],
     [img EXCEPT !.sections = << @[2], @[1] >> \o SubSeq(@, 3, Len(@))],
     [img EXCEPT !.sections = Append(@, @[1])],
     [img EXCEPT !.sections[1].size = @ + 1],
     [img EXCEPT !.sections[1].size = @ - 1],
     [img EXCEPT !.sections[2].file_offset = @ + 1],
     [img EXCEPT !.sections[1].file_offset = 200],
     [img EXCEPT !.symbols = << >>, !.header.start_symbol = -1],
     [img EXCEPT !.symbols = @ \o << Symbol(1, "Entry", 0, 1) >>],
     [img EXCEPT !.header.entry_point = @ + 1],
     [img EXCEPT !.header.section_count = @ - 1],
     [img EXCEPT !.header.symbol_table = -100],
     [img EXCEPT !.header.symbol_table = -100, !.sections = << >>]}

MCTables == {TablesOf(img) : img \in Changed(layout(WholeImage)) \cup Changed(layout(SwappedImage))}

MCOldImage == ImageOf(<< "text" >>, {"text"})

\* the tables of the last one are changed behind layout
Damageable ==
    {layout(WholeImage), layout(SwappedImage),
     [layout(WholeImage) EXCEPT !.sections = << @[2], @[1], @[3] >>]}
MCFragile(img) == img \in Damageable

\* sizes, offsets and codes that are nearly right, and far off
AllDamagedWords == {MIN_VALUE, -1, 0, 1, 2, 3, 10, 46, 47, MAX_VALUE, NoWord}
=============================================================================
