--------------------------- MODULE FormatTheorems ---------------------------
(***************************************************************************)
(* The two formats between the tools: the .trn file and the text.          *)
(* The image of a .trn file and its loaders, for every width, every image  *)
(* and every file.  layout walks over the sections, serialize over the     *)
(* payloads, and for a Faithful image both put every payload at the same   *)
(* place (Walk, PayloadsPlaced); a loader then reads every table and       *)
(* payload back (TablesRead, SectionsRead, SymbolsRead) and each of its    *)
(* tests is one of the image (StoredHeader to StoredEntry).                *)
(* The lexer and the parser, for every text: parse_statement, from the     *)
(* start of a line, rejects a line outside the grammar and otherwise       *)
(* returns the statement that it spells (ReadStatement).                   *)
(***************************************************************************)
EXTENDS ImageMeaning, Grammar, Encoder, TernaryTheorems, SequenceTheorems, FiniteSetTheorems

File == [words : Seq(Int), whole : BOOLEAN]

\* The fields of the header are the first sixteen words.
LEMMA FieldAtRange ==
    ASSUME NEW field \in DOMAIN NewHeader
    PROVE  FieldAt[field] \in 1 .. HeaderWords
<1>1. PICK k \in 1 .. HeaderWords : HeaderFields[k] = field
  BY DEF NewHeader, HeaderWords, HeaderFields
<1> QED BY <1>1 DEF FieldAt

\* Every field of a header that was accepted is a word.
LEMMA HeaderIsWords ==
    ASSUME NEW f \in File, ValidHeader(f), NEW field \in DOMAIN NewHeader
    PROVE  header(f)[field] \in Word
<1>1. header(f)[field] = f.words[FieldAt[field]]
  BY DEF header, decode_header
<1> QED BY <1>1, FieldAtRange DEF ValidHeader, Decodes

\* What the loop over the sections has tested of a section of a file that loads.
LEMMA LoadedSectionFacts ==
    ASSUME NEW f \in File, Loads(f), NEW i \in SectionsOf(f)
    PROVE  LET e == SectionEntry(f, i)
               s == LoadedSection(f, e)
           IN  /\ s.type \in {"Text", "Data", "Rodata", "Bss"}
               /\ s.virtual_address = VirtualAddress(e) /\ VirtualAddress(e) \in Word
               /\ s.memory_size = Size(e) /\ Size(e) \in Word /\ Size(e) >= 0
               /\ s.alignment > 0
               /\ s.virtual_address >= header(f).memory_base
               /\ s.virtual_address + s.memory_size
                     <= header(f).memory_base + header(f).memory_size
               /\ s.type = "Bss" => s.words = << >>
               /\ s.type # "Bss" => Len(s.words) = s.memory_size
<1> DEFINE e == SectionEntry(f, i)
           s == LoadedSection(f, e)
<1>1. ValidEntry(f, e) /\ InsideMemory(f) /\ ValidHeader(f)
  BY DEF Loads
<1>2. /\ s.type = LoadedType[Type(e) + 1] /\ s.virtual_address = VirtualAddress(e)
      /\ s.memory_size = Size(e) /\ s.alignment = Alignment(e)
      /\ s.words = IF Physical(e)
                   THEN SubSeq(f.words, FileOffset(e) + 1, FileOffset(e) + Size(e)) ELSE << >>
  BY DEF LoadedSection
<1>3. /\ Type(e) \in 0 .. 3 /\ Size(e) >= 0 /\ Alignment(e) > 0
      /\ \A k \in 1 .. 8 : e[k] \in Word
  BY <1>1 DEF ValidEntry, SectionEntryWords
<1>4. VirtualAddress(e) \in Word /\ Size(e) \in Word /\ FileOffset(e) \in Word
  BY <1>3 DEF VirtualAddress, Size, FileOffset
<1>5. /\ VirtualAddress(e) >= header(f).memory_base
      /\ VirtualAddress(e) + Size(e) <= header(f).memory_base + header(f).memory_size
  BY <1>1 DEF InsideMemory
<1>6. /\ s.type \in {"Text", "Data", "Rodata", "Bss"}
      /\ s.type = "Bss" <=> ~Physical(e)
  BY <1>2, <1>3 DEF LoadedType, Physical, SectionType
<1>7. ASSUME Physical(e) PROVE Len(s.words) = Size(e)
  <2>1. /\ FileOffset(e) >= MetadataEnd(f)
        /\ FileOffset(e) + Size(e) <= Len(f.words)
    BY <1>1, <1>7 DEF ValidEntry, PayloadInside
  <2>2. MetadataEnd(f) \in Int /\ MetadataEnd(f) >= 0
    <3>1. /\ header(f).symbol_count >= 0 /\ header(f).section_count >= 0
          /\ header(f).symbol_table = 16 + 8 * header(f).section_count
      BY <1>1 DEF ValidHeader, HeaderWords, SectionEntryWords
    <3>2. header(f).symbol_count \in Int /\ header(f).section_count \in Int
      BY <1>1, HeaderIsWords, MaxValue DEF NewHeader, Word
    <3> QED BY <3>1, <3>2 DEF MetadataEnd, SymbolEntryAt, SymbolEntryWords
  <2>3. FileOffset(e) \in Nat /\ Size(e) \in Nat
    BY <1>3, <1>4, <2>1, <2>2, MaxValue DEF Word
  <2>4. f.words \in Seq(Int)
    BY DEF File
  <2> DEFINE a == FileOffset(e)
             z == Size(e)
             w == f.words
  <2>5. s.words = SubSeq(w, a + 1, a + z)
    BY <1>2, <1>7
  <2>6. w \in Seq(Int) /\ a \in Nat /\ z \in Nat /\ a + z <= Len(w)
    BY <2>1, <2>3, <2>4
  <2> HIDE DEF a, z, w
  <2>7. Len(SubSeq(w, a + 1, a + z)) = z
    BY <2>6
  <2> QED BY <2>5, <2>7 DEF z
<1> QED BY <1>2, <1>3, <1>4, <1>5, <1>6, <1>7

\* The parts of what a load returns.
LEMMA LoadedParts ==
    ASSUME NEW f \in File, Loads(f)
    PROVE  /\ Loaded(f).sections = [k \in 1 .. header(f).section_count |->
                                        LoadedSection(f, SectionEntry(f, k - 1))]
           /\ \A field \in LoadedHeader : Loaded(f)[field] = header(f)[field]
           /\ DOMAIN Loaded(f).sections = 1 .. header(f).section_count
           /\ \A k \in 1 .. header(f).section_count : k - 1 \in SectionsOf(f)
<1>1. header(f).section_count \in Int
  BY HeaderIsWords, MaxValue DEF Loads, NewHeader, Word
<1>2. Loaded(f).sections = [k \in 1 .. header(f).section_count |->
                                LoadedSection(f, SectionEntry(f, k - 1))]
  BY DEF Loaded
<1>3. \A field \in LoadedHeader : Loaded(f)[field] = header(f)[field]
  BY DEF Loaded, LoadedHeader
<1> QED BY <1>1, <1>2, <1>3 DEF SectionsOf

\* Of every file TrnLoader accepts, ImageLoader's validation accepts the image
\* but for the flags of its sections and a memory that begins below 0.
LEMMA SecondLoaderTests ==
    ASSUME NEW f \in File, Loads(f)
    PROVE  validate(Loaded(f)) <=> ProperFlags(Loaded(f)) /\ Loaded(f).memory_base >= 0
<1> DEFINE m == Loaded(f)
<1>1. /\ m.memory_base = header(f).memory_base /\ m.memory_size = header(f).memory_size
      /\ m.architecture_id = 1 /\ m.isa_version = 1 /\ m.format_version = 1
      /\ m.memory_size >= 0
  <2>1. \A field \in LoadedHeader : m[field] = header(f)[field]
    BY LoadedParts
  <2> QED BY <2>1 DEF LoadedHeader, Loads, ValidHeader, InsideMemory
<1>2. m.memory_base \in Int /\ m.memory_base <= MAX_VALUE /\ m.memory_size \in Int
      /\ m.memory_size <= MAX_VALUE /\ MAX_VALUE \in Nat
  BY <1>1, HeaderIsWords, MaxValue DEF Loads, NewHeader, Word
<1>3. has_section(m, "Text") /\ is_valid_entry_point(m)
  BY DEF Loads
<1>4. ASSUME NEW k \in DOMAIN m.sections
      PROVE  LET s == m.sections[k]
             IN  /\ s.type \in {"Text", "Data", "Rodata", "Bss"}
                 /\ s.virtual_address \in Int /\ s.virtual_address <= MAX_VALUE
                 /\ s.memory_size \in Int /\ s.memory_size >= 0
                 /\ s.memory_size <= MAX_VALUE
                 /\ s.alignment > 0
                 /\ s.virtual_address >= m.memory_base
                 /\ s.virtual_address + s.memory_size <= m.memory_base + m.memory_size
                 /\ s.type = "Bss" => s.words = << >>
                 /\ s.type # "Bss" => Len(s.words) = s.memory_size
  <2>1. /\ m.sections[k] = LoadedSection(f, SectionEntry(f, k - 1))
        /\ k - 1 \in SectionsOf(f)
    BY <1>4, LoadedParts
  <2> QED BY <1>1, <2>1, LoadedSectionFacts, MaxValue DEF Word
<1>5. ASSUME validate(m) PROVE ProperFlags(m) /\ m.memory_base >= 0
  <2>1. /\ m.memory_base >= 0 /\ executable(text(m))
        /\ \A k \in DOMAIN m.sections : ValidSection(m, m.sections[k])
    BY <1>5 DEF validate
  <2>2. ASSUME NEW k \in DOMAIN m.sections
        PROVE  LET s == m.sections[k]
               IN  /\ s.type = "Data" => writable(s)
                   /\ executable(s) => s.type \in {"Text", "Bss"}
    BY <2>1, <2>2 DEF ValidSection
  <2> QED BY <2>1, <2>2 DEF ProperFlags
<1>6. ASSUME ProperFlags(m), m.memory_base >= 0 PROVE validate(m)
  <2>1. ASSUME NEW k \in DOMAIN m.sections PROVE ValidSection(m, m.sections[k])
    <3>1. LET s == m.sections[k]
          IN  /\ s.type = "Data" => writable(s)
              /\ executable(s) => s.type \in {"Text", "Bss"}
      BY <1>6, <2>1 DEF ProperFlags
    <3> QED BY <1>2, <1>4, <1>6, <2>1, <3>1, Int64Assumption DEF ValidSection
  <2>2. m.memory_size <= INT64_MAX - m.memory_base
    BY <1>2, Int64Assumption
  <2> QED BY <1>1, <1>3, <1>6, <2>1, <2>2 DEF validate, ProperFlags
<1> QED BY <1>5, <1>6

\* Of every file, an image that TrnLoader returns is acceptable.
LEMMA LoadedIsAcceptable ==
    ASSUME NEW f \in File, Loads(f)
    PROVE  Acceptable(Loaded(f))
<1> DEFINE m == Loaded(f)
           n == header(f).section_count
           q == header(f).symbol_count
<1>1. /\ n \in Int /\ q \in Int /\ header(f).entry_point \in Int /\ header(f).start_symbol \in Int
      /\ \A field \in LoadedHeader : m[field] = header(f)[field]
      /\ DOMAIN m.sections = 1 .. n
      /\ \A k \in 1 .. n : k - 1 \in SectionsOf(f) /\ m.sections[k] = LoadedSection(f, SectionEntry(f, k - 1))
  <2>1. ValidHeader(f)
    BY DEF Loads
  <2>2. \A field \in DOMAIN NewHeader : header(f)[field] \in Int
    BY <2>1, HeaderIsWords, MaxValue DEF Word
  <2>3. n \in Int /\ q \in Int /\ header(f).entry_point \in Int /\ header(f).start_symbol \in Int
    BY <2>2 DEF NewHeader
  <2>4. \A field \in LoadedHeader : m[field] = header(f)[field]
    BY LoadedParts
  <2>5. /\ m.sections = [k \in 1 .. n |-> LoadedSection(f, SectionEntry(f, k - 1))]
        /\ DOMAIN m.sections = 1 .. n /\ \A k \in 1 .. n : k - 1 \in SectionsOf(f)
    BY LoadedParts
  <2> HIDE DEF m, n, q
  <2> QED BY <2>3, <2>4, <2>5
<1>2. m.symbols = [k \in 1 .. q |-> LoadedSymbol(f, k - 1)]
  BY DEF Loaded
<1>3. /\ m.entry_point = header(f).entry_point /\ m.start_symbol = header(f).start_symbol
      /\ m.memory_base = header(f).memory_base /\ m.memory_size = header(f).memory_size
      /\ m.architecture_id = 1 /\ m.isa_version = 1 /\ m.format_version = 1
      /\ m.memory_size >= 0
  BY <1>1 DEF LoadedHeader, Loads, ValidHeader, InsideMemory
<1>4. ASSUME NEW k \in 1 .. n
      PROVE  LET s == m.sections[k]
                 e == SectionEntry(f, k - 1)
             IN  /\ s.virtual_address \in Int /\ s.memory_size \in Int /\ s.alignment > 0
                 /\ s.virtual_address = VirtualAddress(e) /\ s.memory_size = Size(e)
                 /\ s.virtual_address >= m.memory_base
                 /\ s.virtual_address + s.memory_size <= m.memory_base + m.memory_size
  <2>1. k - 1 \in SectionsOf(f) /\ m.sections[k] = LoadedSection(f, SectionEntry(f, k - 1))
    BY <1>1
  <2> HIDE DEF m
  <2> QED BY <1>3, <2>1, LoadedSectionFacts, MaxValue DEF Word
<1>5. has_section(m, "Text") /\ m.entry_point \in Extent(text(m))
  <2> DEFINE T == {k \in 1 .. n : m.sections[k].type = "Text"}
  <2>1. has_section(m, "Text") /\ is_valid_entry_point(m)
    BY DEF Loads
  <2> HIDE DEF m, n
  <2>2. T # {} /\ T \in SUBSET Nat
    BY <1>1, <2>1 DEF has_section
  <2>3. PICK k \in T : \A j \in T : k <= j
    <3> HIDE DEF T
    <3> QED BY <2>2, Least
  <2>4. \A r \in 1 .. k - 1 : m.sections[r].type # "Text"
    <3> TAKE r \in 1 .. k - 1
    <3>1. r \in 1 .. n /\ ~(k <= r)
      BY <1>1
    <3> QED BY <2>3, <3>1
  <2>5. k \in DOMAIN m.sections /\ m.sections[k].type = "Text"
    BY <1>1, <2>3
  <2>6. (CHOOSE r \in DOMAIN m.sections :
            /\ m.sections[r].type = "Text"
            /\ \A p \in 1 .. r - 1 : m.sections[p].type # "Text") \in DOMAIN m.sections
    BY <2>4, <2>5
  <2>7. PICK r \in 1 .. n : text(m) = m.sections[r]
    BY <1>1, <2>6 DEF text
  <2>8. /\ m.entry_point >= text(m).virtual_address
        /\ m.entry_point < text(m).virtual_address + text(m).memory_size
    BY <2>1 DEF is_valid_entry_point
  <2>9. /\ m.entry_point \in Int /\ m.sections[r].virtual_address \in Int
        /\ m.sections[r].memory_size \in Int
    BY <1>1, <1>3, <1>4
  <2> QED BY <2>1, <2>7, <2>8, <2>9 DEF Extent
<1>6. ASSUME NEW k \in DOMAIN m.symbols
      PROVE  /\ m.symbols[k].identifier = k - 1
             /\ m.symbols[k].section + 1 \in DOMAIN m.sections
             /\ m.symbols[k].address \in Extent(m.sections[m.symbols[k].section + 1])
  <2> DEFINE e == SymbolEntryOf(f, k - 1)
             g == e[3] + 1
  <2>1. k \in 1 .. q /\ k - 1 \in SymbolsOf(f)
    BY <1>1, <1>2 DEF SymbolsOf
  <2>2. m.symbols[k] = LoadedSymbol(f, k - 1)
    BY <1>2, <2>1
  <2>3. /\ m.symbols[k].identifier = e[1] /\ m.symbols[k].section = e[3]
        /\ m.symbols[k].address = VirtualAddress(SectionEntry(f, e[3])) + e[4]
    BY <2>2 DEF LoadedSymbol
  <2>4. ValidSymbol(f, k - 1)
    BY <2>1 DEF Loads
  <2>5. /\ e[1] = k - 1 /\ e[3] \in SectionsOf(f) /\ e[4] \in Word
        /\ e[4] >= 0 /\ e[4] < Size(SectionEntry(f, e[3]))
    BY <2>4 DEF ValidSymbol, OffsetInside, SymbolEntryWords
  <2>6. g \in 1 .. n /\ g - 1 = e[3]
    BY <1>1, <2>5 DEF SectionsOf
  <2>7. e[4] \in Int
    BY <2>5, MaxValue DEF Word
  <2> HIDE DEF m, e, g, n
  <2>8. /\ m.sections[g].virtual_address \in Int /\ m.sections[g].memory_size \in Int
        /\ m.sections[g].virtual_address = VirtualAddress(SectionEntry(f, e[3]))
        /\ m.sections[g].memory_size = Size(SectionEntry(f, e[3]))
    BY <1>4, <2>6
  <2>9. m.symbols[k].address \in Extent(m.sections[g])
    BY <2>3, <2>5, <2>7, <2>8 DEF Extent
  <2> QED BY <1>1, <2>3, <2>5, <2>6, <2>9 DEF g
<1>7. \/ m.start_symbol = -1
      \/ /\ m.start_symbol + 1 \in DOMAIN m.symbols
         /\ m.symbols[m.start_symbol + 1].type = SymbolType.Entry
  <2> DEFINE b == header(f).start_symbol
             k == b + 1
  <2>1. /\ b >= -1 /\ b \in Int
        /\ b >= 0 => b \in SymbolsOf(f) /\ SymbolEntryOf(f, b)[2] = SymbolType.Entry
    BY <1>1 DEF Loads, ValidStartSymbol
  <2>2. ASSUME b >= 0
        PROVE  k \in DOMAIN m.symbols /\ m.symbols[k].type = SymbolType.Entry
    <3>1. b \in 0 .. q - 1
      BY <2>1, <2>2 DEF SymbolsOf
    <3>2. k \in 1 .. q /\ k - 1 = b
      BY <1>1, <3>1
    <3>3. k \in DOMAIN m.symbols /\ m.symbols[k] = LoadedSymbol(f, b)
      BY <1>2, <3>2
    <3> QED BY <2>1, <2>2, <3>3 DEF LoadedSymbol
  <2> HIDE DEF m, b
  <2>3. m.start_symbol = b
    BY <1>3 DEF b
  <2> QED BY <2>1, <2>2, <2>3
<1>8. ASSUME NEW k \in DOMAIN m.sections
      PROVE  /\ m.sections[k].alignment > 0
             /\ m.sections[k].virtual_address >= m.memory_base
             /\ m.sections[k].virtual_address + m.sections[k].memory_size
                   <= m.memory_base + m.memory_size
  <2> HIDE DEF m
  <2> QED BY <1>1, <1>4
<1> HIDE DEF m
<1> QED BY <1>3, <1>5, <1>6, <1>7, <1>8 DEF Acceptable, m

-----------------------------------------------------------------------------
(* The refinement: what is stored, in terms of the image that was written. *)

\* What layout leaves of an image: the counts and tables of the header, and the file
\* offsets of a walk over the sections.
Lays(h, sections, count, tables, payloads) ==
    /\ h.section_table = HeaderWords /\ h.section_count = Len(sections)
    /\ h.symbol_table = tables /\ h.symbol_count = count
    /\ \E at \in [1 .. Len(sections) -> Int] :
          /\ Len(sections) > 0 => at[1] = payloads
          /\ \A k \in 1 .. Len(sections) - 1 :
                at[k + 1] = at[k] + IF sections[k].type = "bss" THEN 0 ELSE sections[k].size
          /\ \A k \in 1 .. Len(sections) :
                sections[k].file_offset = IF sections[k].type = "bss" THEN 0 ELSE at[k]

HasLayout(img) ==
    Lays(img.header, img.sections, Len(img.symbols), SymbolTableAt(img), PayloadAt(img))

\* An image that may be stored.
Storable(img) ==
    img \in TypedImages /\ HasLayout(img) /\ Faithful(img) /\ Serializable(img)

\* The codes an image is made of.
LEMMA Codes ==
    /\ DOMAIN SectionType = {"text", "data", "rodata", "bss"}
    /\ DOMAIN SectionFlag = {"Read", "Write", "Execute"}
    /\ DOMAIN SymbolType = {"Local", "Global", "Entry"}
    /\ DOMAIN SymbolVisibility = {"Local", "Global"}
  BY DEF SectionType, SectionFlag, SymbolType, SymbolVisibility

\* What a typed image is made of.
LEMMA ImageTypes ==
    ASSUME NEW img \in TypedImages
    PROVE  /\ \A field \in DOMAIN NewHeader : img.header[field] \in Int
           /\ img.text \in Seq(Int) /\ img.data \in Seq(Int) /\ img.rodata \in Seq(Int)
           /\ img.bss_size \in Nat
           /\ Len(img.sections) \in Nat /\ DOMAIN img.sections = 1 .. Len(img.sections)
           /\ Len(img.symbols) \in Nat /\ DOMAIN img.symbols = 1 .. Len(img.symbols)
  BY DEF TypedImages

\* A section has a type, flags and numbers.
LEMMA SectionTypes ==
    ASSUME NEW img \in TypedImages, NEW k \in 1 .. Len(img.sections)
    PROVE  LET s == img.sections[k]
           IN  /\ s.type \in {"text", "data", "rodata", "bss"}
               /\ s.flags \subseteq {"Read", "Write", "Execute"}
               /\ s.file_offset \in Int /\ s.size \in Int
               /\ s.alignment \in Int /\ s.virtual_address \in Int
<1> DEFINE E == [type : DOMAIN SectionType, flags : SUBSET DOMAIN SectionFlag,
                 file_offset : Int, size : Int, alignment : Int, virtual_address : Int]
<1>1. img.sections \in Seq(E)
  BY DEF TypedImages
<1> HIDE DEF E
<1>2. img.sections[k] \in E
  BY <1>1
<1> QED BY <1>2, Codes DEF E

\* So has a symbol.
LEMMA SymbolTypes ==
    ASSUME NEW img \in TypedImages, NEW k \in 1 .. Len(img.symbols)
    PROVE  LET s == img.symbols[k]
           IN  /\ s.identifier \in Int /\ s.section \in Int /\ s.offset \in Int
               /\ s.type \in {"Local", "Global", "Entry"}
               /\ s.visibility \in {"Local", "Global"}
<1> DEFINE E == [identifier : Int, type : DOMAIN SymbolType, section : Int, offset : Int,
                 visibility : DOMAIN SymbolVisibility]
<1>1. img.symbols \in Seq(E)
  BY DEF TypedImages
<1> HIDE DEF E
<1>2. img.symbols[k] \in E
  BY <1>1
<1> QED BY <1>2, Codes DEF E

\* The flags are kept.
LEMMA FlagsKept ==
    ASSUME NEW flags, flags \subseteq {"Read", "Write", "Execute"}
    PROVE  FlagBits(flags) \in 0 .. 7 /\ FlagSet(FlagBits(flags)) = flags
<1>1. /\ Bit(flags, "Read") = IF "Read" \in flags THEN 1 ELSE 0
      /\ Bit(flags, "Write") = IF "Write" \in flags THEN 2 ELSE 0
      /\ Bit(flags, "Execute") = IF "Execute" \in flags THEN 4 ELSE 0
  BY DEF Bit, SectionFlag
<1>2. FlagBits(flags) \in 0 .. 7
  BY <1>1 DEF FlagBits
<1>3. /\ (FlagBits(flags) \div 1) % 2 = 1 <=> "Read" \in flags
      /\ (FlagBits(flags) \div 2) % 2 = 1 <=> "Write" \in flags
      /\ (FlagBits(flags) \div 4) % 2 = 1 <=> "Execute" \in flags
  BY <1>1 DEF FlagBits
<1>4. SectionFlag["Read"] = 1 /\ SectionFlag["Write"] = 2 /\ SectionFlag["Execute"] = 4
  BY DEF SectionFlag
<1> QED BY <1>2, <1>3, <1>4 DEF FlagSet

\* The entries of the tables are sequences of numbers.
LEMMA SectionWords ==
    ASSUME NEW img \in TypedImages, NEW k \in 1 .. Len(img.sections)
    PROVE  LET s == img.sections[k]
               e == encode_section(s)
           IN  /\ e \in Seq(Int) /\ Len(e) = 8
               /\ Type(e) = SectionType[s.type] /\ Flags(e) = FlagBits(s.flags)
               /\ FileOffset(e) = s.file_offset /\ Size(e) = s.size
               /\ VirtualAddress(e) = s.virtual_address /\ Alignment(e) = s.alignment
               /\ e[7] = 0 /\ e[8] = 0
<1> DEFINE s == img.sections[k]
           e == encode_section(s)
<1>1. FlagBits(s.flags) \in Int /\ SectionType[s.type] \in Int
  BY SectionTypes, FlagsKept DEF SectionType
<1>2. s.file_offset \in Int /\ s.size \in Int /\ s.alignment \in Int /\ s.virtual_address \in Int
  BY SectionTypes
<1> HIDE DEF s
<1>3. e \in Seq(Int) /\ Len(e) = 8
  BY <1>1, <1>2 DEF encode_section
<1>4. /\ Type(e) = SectionType[s.type] /\ Flags(e) = FlagBits(s.flags)
      /\ FileOffset(e) = s.file_offset /\ Size(e) = s.size
      /\ VirtualAddress(e) = s.virtual_address /\ Alignment(e) = s.alignment
      /\ e[7] = 0 /\ e[8] = 0
  BY DEF encode_section, Type, Flags, FileOffset, Size, VirtualAddress, Alignment
<1> QED BY <1>3, <1>4 DEF s

\* The same of the symbols.
LEMMA SymbolWords ==
    ASSUME NEW img \in TypedImages, NEW k \in 1 .. Len(img.symbols)
    PROVE  LET s == img.symbols[k]
               e == encode_symbol(s)
           IN  /\ e \in Seq(Int) /\ Len(e) = 6
               /\ e[1] = s.identifier /\ e[2] = SymbolType[s.type] /\ e[3] = s.section
               /\ e[4] = s.offset /\ e[5] = SymbolVisibility[s.visibility] /\ e[6] = 0
<1> DEFINE s == img.symbols[k]
           e == encode_symbol(s)
<1>1. SymbolType[s.type] \in Int /\ SymbolVisibility[s.visibility] \in Int
  BY SymbolTypes DEF SymbolType, SymbolVisibility
<1>2. s.identifier \in Int /\ s.section \in Int /\ s.offset \in Int
  BY SymbolTypes
<1> HIDE DEF s
<1>3. e \in Seq(Int) /\ Len(e) = 6
  BY <1>1, <1>2 DEF encode_symbol
<1>4. /\ e[1] = s.identifier /\ e[2] = SymbolType[s.type] /\ e[3] = s.section
      /\ e[4] = s.offset /\ e[5] = SymbolVisibility[s.visibility] /\ e[6] = 0
  BY DEF encode_symbol
<1> QED BY <1>3, <1>4 DEF s

\* Functions over an initial segment are sequences.
LEMMA IntSeq ==
    ASSUME NEW n \in Nat, NEW s, s = [k \in 1 .. n |-> s[k]], \A k \in 1 .. n : s[k] \in Int
    PROVE  s \in Seq(Int) /\ Len(s) = n
  BY SeqDef

\* The section table in the file.
LEMMA SectionTable ==
    ASSUME NEW img \in TypedImages
    PROVE  LET t == Table(img.sections, SectionEntryWords, encode_section)
           IN  /\ t \in Seq(Int) /\ Len(t) = 8 * Len(img.sections)
               /\ \A k \in 1 .. Len(img.sections), j \in 1 .. 8 :
                     t[8 * (k - 1) + j] = encode_section(img.sections[k])[j]
<1> DEFINE t == Table(img.sections, SectionEntryWords, encode_section)
           n == Len(img.sections)
           row(at) == ((at - 1) \div 8) + 1
           col(at) == ((at - 1) % 8) + 1
<1>1. t = [at \in 1 .. n * 8 |-> encode_section(img.sections[row(at)])[col(at)]]
  BY DEF Table, SectionEntryWords
<1>2. n \in Nat
  BY ImageTypes
<1>3. ASSUME NEW at \in 1 .. n * 8
      PROVE  /\ row(at) \in 1 .. n /\ col(at) \in 1 .. 8
             /\ t[at] = encode_section(img.sections[row(at)])[col(at)] /\ t[at] \in Int
  <2> HIDE DEF t, n
  <2>1. row(at) \in 1 .. n /\ col(at) \in 1 .. 8
    BY <1>2
  <2>2. t[at] = encode_section(img.sections[row(at)])[col(at)]
    BY <1>1
  <2> DEFINE r == row(at)
             c == col(at)
  <2>3. r \in 1 .. n /\ c \in 1 .. 8 /\ t[at] = encode_section(img.sections[r])[c]
    BY <2>1, <2>2
  <2> HIDE DEF r, c
  <2>4. t[at] \in Int
    <3> DEFINE e == encode_section(img.sections[r])
    <3>1. e \in Seq(Int) /\ Len(e) = 8
      BY <2>3, SectionWords DEF n
    <3> HIDE DEF e
    <3>2. c \in 1 .. Len(e)
      BY <2>3, <3>1
    <3>3. e[c] \in Int
      BY <3>1, <3>2, ElementOfSeq
    <3> QED BY <2>3, <3>3 DEF e
  <2> QED BY <2>1, <2>2, <2>4
<1>4. ASSUME NEW k \in 1 .. n, NEW j \in 1 .. 8
      PROVE  t[8 * (k - 1) + j] = encode_section(img.sections[k])[j]
  <2> DEFINE at == 8 * (k - 1) + j
  <2>1. at \in 1 .. n * 8 /\ row(at) = k /\ col(at) = j
    <3> HIDE DEF n, t
    <3> QED BY <1>2
  <2> HIDE DEF at, t, n
  <2>2. t[at] = encode_section(img.sections[row(at)])[col(at)]
    BY <1>3, <2>1
  <2>3. t[at] = encode_section(img.sections[k])[j]
    BY <2>1, <2>2
  <2> QED BY <2>3 DEF at
<1> HIDE DEF t
<1>5. t = [at \in 1 .. n * 8 |-> t[at]] /\ n * 8 \in Nat /\ n * 8 = 8 * n
  BY <1>1, <1>2
<1>6. t \in Seq(Int) /\ Len(t) = 8 * n
  <2> HIDE DEF n, row, col
  <2>1. \A at \in 1 .. n * 8 : t[at] \in Int
    BY <1>3
  <2> QED BY <1>5, <2>1, IntSeq
<1> QED BY <1>4, <1>6 DEF t

\* The symbol table in the file.
LEMMA SymbolTable ==
    ASSUME NEW img \in TypedImages
    PROVE  LET t == Table(img.symbols, SymbolEntryWords, encode_symbol)
           IN  /\ t \in Seq(Int) /\ Len(t) = 6 * Len(img.symbols)
               /\ \A k \in 1 .. Len(img.symbols), j \in 1 .. 6 :
                     t[6 * (k - 1) + j] = encode_symbol(img.symbols[k])[j]
<1> DEFINE t == Table(img.symbols, SymbolEntryWords, encode_symbol)
           n == Len(img.symbols)
           row(at) == ((at - 1) \div 6) + 1
           col(at) == ((at - 1) % 6) + 1
<1>1. t = [at \in 1 .. n * 6 |-> encode_symbol(img.symbols[row(at)])[col(at)]]
  BY DEF Table, SymbolEntryWords
<1>2. n \in Nat
  BY ImageTypes
<1>a. ASSUME NEW k \in 1 .. n, NEW j \in 1 .. 6 PROVE encode_symbol(img.symbols[k])[j] \in Int
  <2> DEFINE e == encode_symbol(img.symbols[k])
  <2>1. e \in Seq(Int) /\ Len(e) = 6
    BY SymbolWords
  <2> HIDE DEF e
  <2>2. j \in 1 .. Len(e)
    BY <2>1
  <2>3. e[j] \in Int
    BY <2>1, <2>2, ElementOfSeq
  <2> QED BY <2>3 DEF e
<1>3. ASSUME NEW at \in 1 .. n * 6
      PROVE  /\ row(at) \in 1 .. n /\ col(at) \in 1 .. 6
             /\ t[at] = encode_symbol(img.symbols[row(at)])[col(at)] /\ t[at] \in Int
  <2> HIDE DEF t, n
  <2>1. row(at) \in 1 .. n /\ col(at) \in 1 .. 6
    BY <1>2
  <2>2. t[at] = encode_symbol(img.symbols[row(at)])[col(at)]
    BY <1>1
  <2> DEFINE r == row(at)
             c == col(at)
  <2>3. r \in 1 .. n /\ c \in 1 .. 6 /\ t[at] = encode_symbol(img.symbols[r])[c]
    BY <2>1, <2>2
  <2> HIDE DEF r, c
  <2>4. encode_symbol(img.symbols[r])[c] \in Int
    BY <2>3, <1>a
  <2> QED BY <2>1, <2>2, <2>3, <2>4
<1>4. ASSUME NEW k \in 1 .. n, NEW j \in 1 .. 6
      PROVE  t[6 * (k - 1) + j] = encode_symbol(img.symbols[k])[j]
  <2> DEFINE at == 6 * (k - 1) + j
  <2>1. at \in 1 .. n * 6 /\ row(at) = k /\ col(at) = j
    <3> HIDE DEF n, t
    <3> QED BY <1>2
  <2> HIDE DEF at, t, n
  <2>2. t[at] = encode_symbol(img.symbols[row(at)])[col(at)]
    BY <1>3, <2>1
  <2>3. t[at] = encode_symbol(img.symbols[k])[j]
    BY <2>1, <2>2
  <2> QED BY <2>3 DEF at
<1> HIDE DEF t
<1>5. t = [at \in 1 .. n * 6 |-> t[at]] /\ n * 6 \in Nat /\ n * 6 = 6 * n
  BY <1>1, <1>2
<1>6. t \in Seq(Int) /\ Len(t) = 6 * n
  <2> HIDE DEF n, row, col
  <2>1. \A at \in 1 .. n * 6 : t[at] \in Int
    BY <1>3
  <2> QED BY <1>5, <2>1, IntSeq
<1> QED BY <1>4, <1>6 DEF t

\* The header in the file.
LEMMA HeaderTable ==
    ASSUME NEW img \in TypedImages
    PROVE  LET h == encode_header(img.header)
           IN  /\ h \in Seq(Int) /\ Len(h) = 16
               /\ \A field \in DOMAIN NewHeader : h[FieldAt[field]] = img.header[field]
<1> DEFINE h == encode_header(img.header)
<1>1. h = [k \in 1 .. 16 |-> img.header[HeaderFields[k]]]
  BY DEF encode_header, HeaderWords
<1>2. \A k \in 1 .. 16 : HeaderFields[k] \in DOMAIN NewHeader
  BY DEF HeaderFields, NewHeader
<1>3. \A k \in 1 .. 16 : h[k] = img.header[HeaderFields[k]] /\ h[k] \in Int
  BY <1>1, <1>2, ImageTypes
<1>4. h = [k \in 1 .. 16 |-> h[k]]
  BY <1>1
<1> HIDE DEF h
<1>5. h \in Seq(Int) /\ Len(h) = 16
  BY <1>3, <1>4, IntSeq
<1>6. ASSUME NEW field \in DOMAIN NewHeader PROVE h[FieldAt[field]] = img.header[field]
  <2>1. PICK k \in 1 .. HeaderWords : HeaderFields[k] = field
    BY DEF NewHeader, HeaderWords, HeaderFields
  <2>2. FieldAt[field] \in 1 .. HeaderWords /\ HeaderFields[FieldAt[field]] = field
    BY <2>1 DEF FieldAt
  <2> QED BY <2>2, <1>3 DEF HeaderWords
<1> QED BY <1>5, <1>6 DEF h

\* Two sequences of numbers behind each other.
LEMMA Join ==
    ASSUME NEW s \in Seq(Int), NEW t \in Seq(Int)
    PROVE  /\ s \o t \in Seq(Int) /\ Len(s \o t) = Len(s) + Len(t)
           /\ Len(s) \in Nat /\ Len(t) \in Nat
           /\ \A i \in 1 .. Len(s) : (s \o t)[i] = s[i]
           /\ \A i \in 1 .. Len(t) : (s \o t)[Len(s) + i] = t[i]
<1>1. Len(s) \in Nat /\ Len(t) \in Nat
  OBVIOUS
<1>2. /\ s \o t \in Seq(Int) /\ Len(s \o t) = Len(s) + Len(t)
      /\ \A i \in 1 .. Len(s) + Len(t) : (s \o t)[i] = IF i <= Len(s) THEN s[i] ELSE t[i - Len(s)]
  BY ConcatProperties
<1>3. ASSUME NEW i \in 1 .. Len(s) PROVE (s \o t)[i] = s[i]
  BY <1>1, <1>2
<1>4. ASSUME NEW i \in 1 .. Len(t) PROVE (s \o t)[Len(s) + i] = t[i]
  <2> DEFINE j == Len(s) + i
  <2>1. j \in 1 .. Len(s) + Len(t) /\ ~(j <= Len(s)) /\ j - Len(s) = i
    BY <1>1
  <2> HIDE DEF j
  <2>2. (s \o t)[j] = t[i]
    BY <1>2, <2>1
  <2> QED BY <2>2 DEF j
<1> QED BY <1>1, <1>2, <1>3, <1>4

\* u is the a words of s and the b words of t behind them.
Concatenated(u, s, a, t, b) ==
    /\ u \in Seq(Int) /\ Len(u) = a + b
    /\ \A i \in 1 .. a : u[i] = s[i]
    /\ \A i \in 1 .. b : u[a + i] = t[i]

\* Concatenation, with names for the lengths.
LEMMA JoinFacts ==
    ASSUME NEW s \in Seq(Int), NEW t \in Seq(Int), NEW a, a = Len(s), NEW b, b = Len(t)
    PROVE  Concatenated(s \o t, s, a, t, b)
  BY Join DEF Concatenated

\* The tables in front of the payloads are in the words w.
Tabulated(img, w) ==
    /\ \A field \in DOMAIN NewHeader : w[FieldAt[field]] = img.header[field]
    /\ \A k \in 1 .. Len(img.sections), j \in 1 .. 8 :
          w[16 + (8 * (k - 1) + j)] = encode_section(img.sections[k])[j]
    /\ \A k \in 1 .. Len(img.symbols), j \in 1 .. 6 :
          w[SymbolTableAt(img) + (6 * (k - 1) + j)] = encode_symbol(img.symbols[k])[j]

\* Where serialize puts a payload.
PayloadStart(img, type) ==
    CASE type = "text"   -> PayloadAt(img)
      [] type = "data"   -> PayloadAt(img) + Len(img.text)
      [] type = "rodata" -> PayloadAt(img) + Len(img.text) + Len(img.data)

Filed == {"text", "data", "rodata"}

FileLength(img) == PayloadAt(img) + Len(img.text) + Len(img.data) + Len(img.rodata)

\* Every payload lies behind the tables and inside the file.
LEMMA PayloadPlaces ==
    ASSUME NEW img \in TypedImages
    PROVE  /\ SymbolTableAt(img) = 16 + 8 * Len(img.sections)
           /\ PayloadAt(img) = SymbolTableAt(img) + 6 * Len(img.symbols)
           /\ PayloadAt(img) \in Nat /\ PayloadAt(img) >= 16 /\ FileLength(img) \in Nat
           /\ SymbolTableAt(img) \in Nat /\ SymbolTableAt(img) <= PayloadAt(img)
           /\ \A type \in Filed :
                 /\ Payload(img, type) \in Seq(Int) /\ Len(Payload(img, type)) \in Nat
                 /\ PayloadStart(img, type) \in Nat /\ PayloadStart(img, type) >= PayloadAt(img)
                 /\ PayloadStart(img, type) + Len(Payload(img, type)) <= FileLength(img)
<1>1. Len(img.sections) \in Nat /\ Len(img.symbols) \in Nat
  BY ImageTypes
<1>2. /\ img.text \in Seq(Int) /\ img.data \in Seq(Int) /\ img.rodata \in Seq(Int)
      /\ Len(img.text) \in Nat /\ Len(img.data) \in Nat /\ Len(img.rodata) \in Nat
  BY ImageTypes
<1> DEFINE n == Len(img.sections)
           m == Len(img.symbols)
<1>a. SymbolTableAt(img) = 16 + n * 8 /\ PayloadAt(img) = SymbolTableAt(img) + m * 6
  BY DEF SymbolTableAt, PayloadAt, HeaderWords, SectionEntryWords, SymbolEntryWords
<1>b. n \in Nat /\ m \in Nat
  BY <1>1
<1> HIDE DEF n, m
<1>3. SymbolTableAt(img) = 16 + 8 * n /\ PayloadAt(img) = SymbolTableAt(img) + 6 * m
  <2>1. n * 8 = 8 * n /\ m * 6 = 6 * m
    BY <1>b
  <2> QED BY <2>1, <1>a
<1>4. /\ PayloadAt(img) \in Nat /\ PayloadAt(img) >= 16
      /\ SymbolTableAt(img) \in Nat /\ SymbolTableAt(img) <= PayloadAt(img)
  BY <1>b, <1>3
<1>5. FileLength(img) \in Nat
  <2> DEFINE p == PayloadAt(img)
             a == Len(img.text)
             b == Len(img.data)
             c == Len(img.rodata)
  <2>1. p \in Nat /\ a \in Nat /\ b \in Nat /\ c \in Nat /\ FileLength(img) = p + a + b + c
    BY <1>2, <1>4 DEF FileLength
  <2> HIDE DEF p, a, b, c
  <2> QED BY <2>1
<1>6. ASSUME NEW type \in Filed
      PROVE  /\ Payload(img, type) \in Seq(Int) /\ Len(Payload(img, type)) \in Nat
             /\ PayloadStart(img, type) \in Nat /\ PayloadStart(img, type) >= PayloadAt(img)
             /\ PayloadStart(img, type) + Len(Payload(img, type)) <= FileLength(img)
  <2> DEFINE p == PayloadAt(img)
             t == img.text
             d == img.data
             r == img.rodata
             e == FileLength(img)
  <2>1. /\ p \in Nat /\ t \in Seq(Int) /\ d \in Seq(Int) /\ r \in Seq(Int)
        /\ Len(t) \in Nat /\ Len(d) \in Nat /\ Len(r) \in Nat
        /\ e = p + Len(t) + Len(d) + Len(r)
    BY <1>2, <1>4 DEF FileLength
  <2>2. type = "text" => Payload(img, type) = t /\ PayloadStart(img, type) = p
    BY DEF Payload, PayloadStart
  <2>3. type = "data" => Payload(img, type) = d /\ PayloadStart(img, type) = p + Len(t)
    BY DEF Payload, PayloadStart
  <2>4. type = "rodata" => Payload(img, type) = r /\ PayloadStart(img, type) = p + Len(t) + Len(d)
    BY DEF Payload, PayloadStart
  <2>5. type = "text" \/ type = "data" \/ type = "rodata"
    BY DEF Filed
  <2> HIDE DEF p, t, d, r, e
  <2>6. /\ Payload(img, type) \in Seq(Int) /\ Len(Payload(img, type)) \in Nat
        /\ PayloadStart(img, type) \in Nat /\ PayloadStart(img, type) >= p
        /\ PayloadStart(img, type) + Len(Payload(img, type)) <= e
    BY <2>1, <2>2, <2>3, <2>4, <2>5
  <2> QED BY <2>6 DEF p, e
<1> QED BY <1>3, <1>4, <1>5, <1>6 DEF n, m

\* What is where in the file.
LEMMA SerializeFacts ==
    ASSUME NEW img \in TypedImages
    PROVE  /\ serialize(img) \in Seq(Int) /\ Len(serialize(img)) = FileLength(img)
           /\ Tabulated(img, serialize(img))
           /\ \A type \in Filed : \A j \in 1 .. Len(Payload(img, type)) :
                 serialize(img)[PayloadStart(img, type) + j] = Payload(img, type)[j]
<1> DEFINE h == encode_header(img.header)
           s == Table(img.sections, SectionEntryWords, encode_section)
           y == Table(img.symbols, SymbolEntryWords, encode_symbol)
           t == img.text
           d == img.data
           r == img.rodata
           n == Len(img.sections)
           m == Len(img.symbols)
           w == serialize(img)
           p == PayloadAt(img)
<1>1. w = ((h \o s) \o y) \o ((t \o d) \o r)
  BY DEF serialize, Payloads
<1>2. /\ h \in Seq(Int) /\ Len(h) = 16
      /\ \A field \in DOMAIN NewHeader : h[FieldAt[field]] = img.header[field]
  BY HeaderTable
<1>3. /\ s \in Seq(Int) /\ Len(s) = 8 * n
      /\ \A k \in 1 .. n, j \in 1 .. 8 : s[8 * (k - 1) + j] = encode_section(img.sections[k])[j]
  BY SectionTable
<1>4. /\ y \in Seq(Int) /\ Len(y) = 6 * m
      /\ \A k \in 1 .. m, j \in 1 .. 6 : y[6 * (k - 1) + j] = encode_symbol(img.symbols[k])[j]
  BY SymbolTable
<1>5. /\ t \in Seq(Int) /\ d \in Seq(Int) /\ r \in Seq(Int) /\ n \in Nat /\ m \in Nat
  BY ImageTypes
<1>6. /\ SymbolTableAt(img) = 16 + 8 * n /\ p = SymbolTableAt(img) + 6 * m
      /\ FileLength(img) = p + Len(t) + Len(d) + Len(r)
  BY PayloadPlaces DEF FileLength
<1>7. \A field \in DOMAIN NewHeader : FieldAt[field] \in 1 .. 16
  BY FieldAtRange DEF HeaderWords
<1> HIDE DEF h, s, y, t, d, r, w, n, m, p
<1> DEFINE hs == h \o s
           hsy == hs \o y
           td == t \o d
           q == td \o r
<1>8. /\ hs \in Seq(Int) /\ Len(hs) = 16 + 8 * n
      /\ \A i \in 1 .. 16 : hs[i] = h[i]
      /\ \A i \in 1 .. 8 * n : hs[16 + i] = s[i]
  <2> DEFINE a == 16
             b == 8 * n
  <2>1. a = Len(h) /\ b = Len(s)
    BY <1>2, <1>3
  <2> HIDE DEF a, b
  <2>2. Concatenated(hs, h, a, s, b)
    BY <2>1, <1>2, <1>3, JoinFacts
  <2> HIDE DEF hs
  <2> QED BY <2>2 DEF Concatenated, a, b
<1>9. w = hsy \o q
  BY <1>1
<1>10. /\ td \in Seq(Int) /\ Len(td) = Len(t) + Len(d) /\ Len(t) \in Nat /\ Len(d) \in Nat
       /\ \A i \in 1 .. Len(t) : td[i] = t[i]
       /\ \A i \in 1 .. Len(d) : td[Len(t) + i] = d[i]
  BY <1>5, Join
<1> HIDE DEF hs, td
<1>11. /\ hsy \in Seq(Int) /\ Len(hsy) = p
       /\ \A i \in 1 .. 16 + 8 * n : hsy[i] = hs[i]
       /\ \A i \in 1 .. 6 * m : hsy[16 + 8 * n + i] = y[i]
  <2> DEFINE a == 16 + 8 * n
             b == 6 * m
  <2>1. a = Len(hs) /\ b = Len(y)
    BY <1>4, <1>8
  <2>2. p = a + b
    BY <1>6
  <2> HIDE DEF a, b
  <2>3. Concatenated(hsy, hs, a, y, b)
    BY <2>1, <1>4, <1>8, JoinFacts
  <2> HIDE DEF hsy
  <2> QED BY <2>2, <2>3 DEF Concatenated, a, b
<1>12. /\ q \in Seq(Int) /\ Len(q) = Len(t) + Len(d) + Len(r) /\ Len(r) \in Nat
       /\ \A i \in 1 .. Len(t) + Len(d) : q[i] = td[i]
       /\ \A i \in 1 .. Len(r) : q[Len(t) + Len(d) + i] = r[i]
  <2> DEFINE a == Len(t) + Len(d)
             b == Len(r)
  <2>1. a = Len(td) /\ b = Len(r) /\ b \in Nat
    BY <1>5, <1>10
  <2> HIDE DEF a, b
  <2>2. Concatenated(q, td, a, r, b)
    BY <2>1, <1>5, <1>10, JoinFacts
  <2> HIDE DEF q
  <2> QED BY <2>1, <2>2 DEF Concatenated, a, b
<1> HIDE DEF hsy, q
<1>13. /\ w \in Seq(Int) /\ Len(w) = p + Len(q) /\ p \in Nat
       /\ \A i \in 1 .. p : w[i] = hsy[i]
       /\ \A i \in 1 .. Len(q) : w[p + i] = q[i]
  BY <1>9, <1>11, <1>12, Join
<1>14. Len(w) = FileLength(img)
  BY <1>6, <1>10, <1>12, <1>13
<1>15. \A i \in 1 .. 16 : w[i] = h[i]
  <2> TAKE i \in 1 .. 16
  <2>1. i \in 1 .. 16 + 8 * n /\ i \in 1 .. p
    BY <1>5, <1>6
  <2> QED BY <2>1, <1>8, <1>11, <1>13
<1>16. \A i \in 1 .. 8 * n : w[16 + i] = s[i]
  <2> TAKE i \in 1 .. 8 * n
  <2>1. 16 + i \in 1 .. 16 + 8 * n /\ 16 + i \in 1 .. p
    BY <1>5, <1>6
  <2> QED BY <2>1, <1>8, <1>11, <1>13
<1>17. \A i \in 1 .. 6 * m : w[16 + 8 * n + i] = y[i]
  <2> TAKE i \in 1 .. 6 * m
  <2>1. 16 + 8 * n + i \in 1 .. p
    BY <1>5, <1>6
  <2> QED BY <2>1, <1>11, <1>13
<1>18. Tabulated(img, w)
  <2>1. \A field \in DOMAIN NewHeader : w[FieldAt[field]] = img.header[field]
    BY <1>2, <1>7, <1>15
  <2>2. ASSUME NEW k \in 1 .. n, NEW j \in 1 .. 8
        PROVE  w[16 + (8 * (k - 1) + j)] = encode_section(img.sections[k])[j]
    <3>1. 8 * (k - 1) + j \in 1 .. 8 * n
      BY <1>5
    <3> QED BY <3>1, <1>3, <1>16
  <2>3. ASSUME NEW k \in 1 .. m, NEW j \in 1 .. 6
        PROVE  w[SymbolTableAt(img) + (6 * (k - 1) + j)] = encode_symbol(img.symbols[k])[j]
    <3>1. 6 * (k - 1) + j \in 1 .. 6 * m
      BY <1>5
    <3> QED BY <3>1, <1>4, <1>6, <1>17
  <2> QED BY <2>1, <2>2, <2>3 DEF Tabulated, n, m
<1>19. ASSUME NEW type \in Filed, NEW j \in 1 .. Len(Payload(img, type))
       PROVE  w[PayloadStart(img, type) + j] = Payload(img, type)[j]
  <2>1. CASE type = "text"
    <3>1. Payload(img, type) = t /\ PayloadStart(img, type) = p
      BY <2>1 DEF Payload, PayloadStart, t, p
    <3>2. j \in 1 .. Len(q) /\ j \in 1 .. Len(t) + Len(d) /\ j \in 1 .. Len(t)
      BY <3>1, <1>10, <1>12
    <3>3. w[p + j] = t[j]
      BY <3>2, <1>10, <1>12, <1>13
    <3> QED BY <3>1, <3>3
  <2>2. CASE type = "data"
    <3>1. Payload(img, type) = d /\ PayloadStart(img, type) = p + Len(t)
      BY <2>2 DEF Payload, PayloadStart, t, p, d
    <3> DEFINE i == Len(t) + j
    <3>a. j \in 1 .. Len(d)
      BY <3>1
    <3>b. Len(q) = Len(t) + Len(d) + Len(r) /\ Len(t) \in Nat /\ Len(d) \in Nat /\ Len(r) \in Nat
      BY <1>10, <1>12
    <3>2. i \in 1 .. Len(q) /\ i \in 1 .. Len(t) + Len(d) /\ j \in 1 .. Len(d)
      BY <3>a, <3>b
    <3>3. PayloadStart(img, type) + j = p + i
      BY <3>1, <1>10, <1>13
    <3>4. td[i] = d[j]
      BY <3>2, <1>10
    <3> HIDE DEF i
    <3>5. w[p + i] = d[j]
      BY <3>2, <3>4, <1>12, <1>13
    <3> QED BY <3>1, <3>3, <3>5
  <2>3. CASE type = "rodata"
    <3>1. Payload(img, type) = r /\ PayloadStart(img, type) = p + Len(t) + Len(d)
      BY <2>3 DEF Payload, PayloadStart, t, p, d, r
    <3> DEFINE i == Len(t) + Len(d) + j
    <3>2. i \in 1 .. Len(q) /\ j \in 1 .. Len(r)
      BY <3>1, <1>10, <1>12
    <3>3. PayloadStart(img, type) + j = p + i
      BY <3>1, <1>10, <1>13
    <3>4. q[i] = r[j]
      BY <3>2, <1>12
    <3> HIDE DEF i
    <3>5. w[p + i] = r[j]
      BY <3>2, <3>4, <1>13
    <3> QED BY <3>1, <3>3, <3>5
  <2> QED BY <2>1, <2>2, <2>3 DEF Filed
<1> QED BY <1>13, <1>14, <1>18, <1>19 DEF w

-----------------------------------------------------------------------------
(* What a loader reads of the tables. *)

\* The header is read back.
LEMMA HeaderRead ==
    ASSUME NEW img \in TypedImages, NEW f, \A i \in 1 .. 16 : f.words[i] = serialize(img)[i]
    PROVE  header(f) = img.header
<1>1. \A field \in DOMAIN NewHeader : FieldAt[field] \in 1 .. 16
  BY FieldAtRange DEF HeaderWords
<1>2. \A field \in DOMAIN NewHeader : f.words[FieldAt[field]] = img.header[field]
  BY <1>1, SerializeFacts DEF Tabulated
<1>3. header(f) = [field \in DOMAIN NewHeader |-> img.header[field]]
  BY <1>2 DEF header, decode_header
<1>4. img.header \in [DOMAIN NewHeader -> Int]
  BY DEF TypedImages
<1>5. img.header = [field \in DOMAIN NewHeader |-> img.header[field]]
  BY <1>4
<1> QED BY <1>3, <1>5

\* The tables of f are those of img.
SameTables(img, f) ==
    /\ f \in File /\ Len(f.words) >= PayloadAt(img)
    /\ \A i \in 1 .. PayloadAt(img) : f.words[i] = serialize(img)[i]

\* The entries of the sections are read back.
LEMMA SectionRead ==
    ASSUME NEW img \in TypedImages, NEW f, SameTables(img, f), NEW k \in 1 .. Len(img.sections)
    PROVE  SectionEntry(f, k - 1) = encode_section(img.sections[k])
<1> DEFINE w == f.words
           a == 16 + 8 * (k - 1) + 1
           b == 16 + 8 * ((k - 1) + 1)
           e == encode_section(img.sections[k])
           g == SubSeq(w, a, b)
           p == PayloadAt(img)
<1>1. SectionEntry(f, k - 1) = g
  BY DEF SectionEntry, HeaderWords, SectionEntryWords
<1>2. w \in Seq(Int) /\ Len(w) >= p
  BY DEF SameTables, File
<1>3. e \in Seq(Int) /\ Len(e) = 8
  BY SectionWords
<1>4. /\ Len(img.sections) \in Nat /\ p \in Nat /\ Len(img.sections) * 8 + 16 <= p
  <2>1. Len(img.sections) \in Nat /\ p \in Nat
    BY ImageTypes, PayloadPlaces
  <2>2. SymbolTableAt(img) = 16 + 8 * Len(img.sections) /\ SymbolTableAt(img) <= p
    BY PayloadPlaces
  <2> DEFINE n == Len(img.sections)
  <2> HIDE DEF n, p
  <2> QED BY <2>1, <2>2 DEF n
<1>5. ASSUME NEW j \in 1 .. 8 PROVE w[a + j - 1] = e[j] /\ a + j - 1 \in 1 .. p
  <2> DEFINE i == 16 + (8 * (k - 1) + j)
             n == Len(img.sections)
  <2>1. i = a + j - 1 /\ i \in 1 .. p
    <3>1. k \in 1 .. n /\ n \in Nat /\ p \in Nat /\ n * 8 + 16 <= p
      BY <1>4
    <3> HIDE DEF n, p
    <3> QED BY <3>1
  <2>2. serialize(img)[i] = e[j]
    BY SerializeFacts DEF Tabulated
  <2>3. w[i] = serialize(img)[i]
    <3> HIDE DEF i
    <3> QED BY <2>1 DEF SameTables
  <2> HIDE DEF i, a, p, e, w
  <2> QED BY <2>1, <2>2, <2>3
<1>6. a \in Int /\ b \in Int /\ b - a + 1 = 8 /\ a <= b
  OBVIOUS
<1> HIDE DEF a, b, e, w, p
<1>7. ASSUME NEW i \in a .. b PROVE w[i] \in Int
  <2> DEFINE j == i - a + 1
  <2>1. j \in 1 .. 8 /\ i = a + j - 1
    BY <1>6
  <2> HIDE DEF j
  <2>2. i \in 1 .. p
    BY <2>1, <1>5
  <2>3. i \in 1 .. Len(w)
    BY <2>2, <1>2, <1>4
  <2> QED BY <2>3, <1>2, ElementOfSeq
<1>8. g \in Seq(Int) /\ Len(g) = 8 /\ \A j \in 1 .. 8 : g[j] = w[a + j - 1]
  <2>1. /\ g \in Seq(Int)
        /\ Len(g) = IF a <= b THEN b - a + 1 ELSE 0
        /\ \A j \in 1 .. b - a + 1 : g[j] = w[a + j - 1]
    BY <1>6, <1>7, SubSeqProperties
  <2> QED BY <2>1, <1>6
<1> HIDE DEF g
<1>9. g = e
  <2>1. \A j \in 1 .. Len(g) : g[j] = e[j]
    BY <1>5, <1>8
  <2> QED BY <2>1, <1>3, <1>8, SeqEqual
<1> QED BY <1>1, <1>9 DEF e

\* The entries of the symbols are read back.
LEMMA SymbolRead ==
    ASSUME NEW img \in TypedImages, NEW f, SameTables(img, f), NEW k \in 1 .. Len(img.symbols),
           header(f).symbol_table = SymbolTableAt(img)
    PROVE  SymbolEntryOf(f, k - 1) = encode_symbol(img.symbols[k])
<1> DEFINE w == f.words
           s == SymbolTableAt(img)
           a == s + 6 * (k - 1) + 1
           b == s + 6 * ((k - 1) + 1)
           e == encode_symbol(img.symbols[k])
           g == SubSeq(w, a, b)
           p == PayloadAt(img)
           n == Len(img.symbols)
<1>0. k \in 1 .. n /\ n \in Nat /\ p \in Nat /\ s \in Nat /\ s + 6 * n = p
  BY ImageTypes, PayloadPlaces
<1>1. SymbolEntryOf(f, k - 1) = g
  BY DEF SymbolEntryOf, SymbolEntryAt, SymbolEntryWords
<1>2. w \in Seq(Int) /\ Len(w) >= p
  BY DEF SameTables, File
<1>3. e \in Seq(Int) /\ Len(e) = 6
  BY SymbolWords
<1>5. ASSUME NEW j \in 1 .. 6 PROVE w[a + j - 1] = e[j] /\ a + j - 1 \in 1 .. p
  <2> DEFINE i == s + (6 * (k - 1) + j)
  <2>1. i = a + j - 1 /\ i \in 1 .. p
    <3> HIDE DEF n, p, s
    <3> QED BY <1>0
  <2>2. serialize(img)[i] = e[j]
    BY SerializeFacts DEF Tabulated
  <2>3. w[i] = serialize(img)[i]
    <3> HIDE DEF i
    <3> QED BY <2>1 DEF SameTables
  <2> HIDE DEF i, a, p, e, w
  <2> QED BY <2>1, <2>2, <2>3
<1>6. a \in Int /\ b \in Int /\ b - a + 1 = 6 /\ a <= b
  <2> HIDE DEF s, n
  <2> QED BY <1>0
<1> HIDE DEF a, b, e, w, p
<1>7. ASSUME NEW i \in a .. b PROVE w[i] \in Int
  <2> DEFINE j == i - a + 1
  <2>1. j \in 1 .. 6 /\ i = a + j - 1
    BY <1>6
  <2> HIDE DEF j
  <2>2. i \in 1 .. p
    BY <2>1, <1>5
  <2>3. i \in 1 .. Len(w)
    BY <2>2, <1>2, <1>0
  <2> QED BY <2>3, <1>2, ElementOfSeq
<1>8. g \in Seq(Int) /\ Len(g) = 6 /\ \A j \in 1 .. 6 : g[j] = w[a + j - 1]
  <2>1. /\ g \in Seq(Int)
        /\ Len(g) = IF a <= b THEN b - a + 1 ELSE 0
        /\ \A j \in 1 .. b - a + 1 : g[j] = w[a + j - 1]
    BY <1>6, <1>7, SubSeqProperties
  <2> QED BY <2>1, <1>6
<1> HIDE DEF g
<1>9. g = e
  <2>1. \A j \in 1 .. Len(g) : g[j] = e[j]
    BY <1>5, <1>8
  <2> QED BY <2>1, <1>3, <1>8, SeqEqual
<1> QED BY <1>1, <1>9 DEF e


-----------------------------------------------------------------------------
(* Where the walk of layout puts the payloads. *)

Empty(img, type) == Payload(img, type) = << >>

\* layout gives every section the size of its payload.
LEMMA LayoutSizes ==
    ASSUME NEW img \in TypedImages, NEW z, z = layout(img), NEW k \in DOMAIN img.sections
    PROVE  z.sections[k].size = SizeOf(img, img.sections[k].type)
<1> DEFINE h == [img.header EXCEPT !.section_table = HeaderWords, !.section_count = Len(img.sections),
                                   !.symbol_table = SymbolTableAt(img), !.symbol_count = Len(img.symbols)]
           s == [j \in DOMAIN img.sections |->
                   [img.sections[j] EXCEPT
                      !.file_offset = IF img.sections[j].type = "bss" THEN 0 ELSE FileCursor(img)[j],
                      !.size = SizeOf(img, img.sections[j].type)]]
<1>1. z = [img EXCEPT !.header = h, !.sections = s, !.laid_out = TRUE]
  BY DEF layout
<1>2. "size" \in DOMAIN img.sections[k]
  <2> DEFINE S == [type : DOMAIN SectionType, flags : SUBSET DOMAIN SectionFlag,
                   file_offset : Int, size : Int, alignment : Int, virtual_address : Int]
  <2>1. img.sections \in Seq(S)
    BY DEF TypedImages
  <2>2. img.sections[k] \in S
    <3> HIDE DEF S
    <3>1. k \in 1 .. Len(img.sections)
      BY <2>1
    <3> QED BY <2>1, <3>1, ElementOfSeq
  <2> QED BY <2>2
<1>3. s[k].size = SizeOf(img, img.sections[k].type)
  BY <1>2
<1> HIDE DEF h, s
<1>4. z.sections = s
  BY <1>1 DEF TypedImages
<1> QED BY <1>3, <1>4

\* What Faithful says of the sections with a payload.
LEMMA FaithfulFacts ==
    ASSUME NEW img \in TypedImages, Faithful(img)
    PROVE  /\ \A j, k \in 1 .. Len(img.sections) :
                 /\ img.sections[j].type # "bss" /\ ~Empty(img, img.sections[j].type)
                 /\ img.sections[k].type # "bss" /\ ~Empty(img, img.sections[k].type)
                 /\ j < k
                 => SectionType[img.sections[j].type] < SectionType[img.sections[k].type]
           /\ \A type \in Filed : ~Empty(img, type) =>
                 \E k \in 1 .. Len(img.sections) : img.sections[k].type = type
           /\ \A k \in 1 .. Len(img.sections) :
                 /\ img.sections[k].type = "bss" => img.sections[k].size = img.bss_size
                 /\ img.sections[k].type # "bss" =>
                       img.sections[k].size = Len(Payload(img, img.sections[k].type))
<1> DEFINE filed == {k \in DOMAIN img.sections :
                        img.sections[k].type # "bss" /\ Payload(img, img.sections[k].type) # << >>}
<1>1. DOMAIN img.sections = 1 .. Len(img.sections)
  BY ImageTypes
<1>2. /\ \A j, k \in filed : j < k => SectionType[img.sections[j].type] < SectionType[img.sections[k].type]
      /\ \A type \in {"text", "data", "rodata"} :
            Payload(img, type) # << >> => \E k \in filed : img.sections[k].type = type
      /\ layout(img) = img
  BY DEF Faithful
<1>l. \A k \in DOMAIN img.sections : img.sections[k].size = SizeOf(img, img.sections[k].type)
  <2> TAKE k \in DOMAIN img.sections
  <2> QED BY <1>2, LayoutSizes
<1>3. \A k \in 1 .. Len(img.sections) :
         k \in filed <=> img.sections[k].type # "bss" /\ ~Empty(img, img.sections[k].type)
  BY <1>1 DEF Empty
<1>4. filed \subseteq 1 .. Len(img.sections)
  BY <1>1
<1> HIDE DEF filed
<1>5. ASSUME NEW j \in 1 .. Len(img.sections), NEW k \in 1 .. Len(img.sections),
             img.sections[j].type # "bss", ~Empty(img, img.sections[j].type),
             img.sections[k].type # "bss", ~Empty(img, img.sections[k].type), j < k
      PROVE  SectionType[img.sections[j].type] < SectionType[img.sections[k].type]
  BY <1>2, <1>3, <1>5
<1>6. ASSUME NEW type \in Filed, ~Empty(img, type)
      PROVE  \E k \in 1 .. Len(img.sections) : img.sections[k].type = type
  BY <1>2, <1>4, <1>6 DEF Filed, Empty
<1>7. ASSUME NEW k \in 1 .. Len(img.sections)
      PROVE  /\ img.sections[k].type = "bss" => img.sections[k].size = img.bss_size
             /\ img.sections[k].type # "bss" =>
                   img.sections[k].size = Len(Payload(img, img.sections[k].type))
  BY <1>1, <1>l DEF SizeOf
<1> QED BY <1>5, <1>6, <1>7

\* The words of this payload that the sections in front of the k-th one have.
Seen(img, type, k) ==
    IF \E j \in 1 .. k - 1 : img.sections[j].type = type THEN Len(Payload(img, type)) ELSE 0

\* One section further.
LEMMA SeenNext ==
    ASSUME NEW img \in TypedImages, Faithful(img), NEW k \in 1 .. Len(img.sections), NEW type \in Filed
    PROVE  /\ img.sections[k].type # type => Seen(img, type, k + 1) = Seen(img, type, k)
           /\ img.sections[k].type = type =>
                 /\ Seen(img, type, k) = 0
                 /\ Seen(img, type, k + 1) = Len(Payload(img, type))
<1> DEFINE p == Payload(img, type)
           s == img.sections
           before(q) == \E j \in 1 .. q - 1 : s[j].type = type
<1>1. k \in Nat /\ k <= Len(s) /\ Len(s) \in Nat /\ p \in Seq(Int)
  BY ImageTypes, PayloadPlaces
<1>2. 1 .. (k + 1) - 1 = (1 .. k - 1) \cup {k}
  BY <1>1
<1>3. before(k + 1) <=> before(k) \/ s[k].type = type
  <2> HIDE DEF s
  <2> QED BY <1>2
<1>4. ASSUME s[k].type = type, before(k) PROVE p = << >>
  <2>1. PICK j \in 1 .. k - 1 : s[j].type = type
    BY <1>4
  <2>2. j \in 1 .. Len(s) /\ j < k
    BY <1>1
  <2>3. SUFFICES ASSUME p # << >> PROVE FALSE
    OBVIOUS
  <2>4. type # "bss" /\ ~Empty(img, type)
    BY <2>3 DEF Filed, Empty
  <2>5. SectionType[s[j].type] < SectionType[s[k].type]
    BY <1>4, <2>1, <2>2, <2>4, FaithfulFacts
  <2>6. SectionType[type] \in Int
    BY DEF Filed, SectionType
  <2> QED BY <1>4, <2>1, <2>5, <2>6
<1>5. /\ Seen(img, type, k) = IF before(k) THEN Len(p) ELSE 0
      /\ Seen(img, type, k + 1) = IF before(k + 1) THEN Len(p) ELSE 0
  BY DEF Seen
<1> HIDE DEF before, p, s
<1>6. s[k].type # type => Seen(img, type, k + 1) = Seen(img, type, k)
  BY <1>3, <1>5
<1>7. ASSUME s[k].type = type
      PROVE  Seen(img, type, k) = 0 /\ Seen(img, type, k + 1) = Len(p)
  <2>1. p = << >> => Len(p) = 0
    OBVIOUS
  <2> QED BY <1>3, <1>4, <1>5, <1>7, <2>1
<1> QED BY <1>6, <1>7 DEF p, s

\* The cursor of the walk in front of the k-th section.
LEMMA Walk ==
    ASSUME NEW img \in TypedImages, Faithful(img), HasLayout(img), NEW k \in 1 .. Len(img.sections),
           img.sections[k].type # "bss"
    PROVE  img.sections[k].file_offset
               = PayloadAt(img) + Seen(img, "text", k) + Seen(img, "data", k) + Seen(img, "rodata", k)
<1> DEFINE n == Len(img.sections)
           cursor(q) == PayloadAt(img) + Seen(img, "text", q) + Seen(img, "data", q)
                            + Seen(img, "rodata", q)
<1>1. PICK at \in [1 .. n -> Int] :
          /\ n > 0 => at[1] = PayloadAt(img)
          /\ \A q \in 1 .. n - 1 :
                at[q + 1] = at[q] + IF img.sections[q].type = "bss" THEN 0 ELSE img.sections[q].size
          /\ \A q \in 1 .. n :
                img.sections[q].file_offset = IF img.sections[q].type = "bss" THEN 0 ELSE at[q]
  BY DEF HasLayout, Lays
<1>2. n \in Nat /\ PayloadAt(img) \in Nat
  BY ImageTypes, PayloadPlaces
<1> DEFINE S == {q \in 0 .. n - 1 : at[q + 1] = cursor(q + 1)}
<1>3. n > 0 => 0 \in S
  <2>1. \A type \in Filed : Seen(img, type, 1) = 0
    BY DEF Seen
  <2>2. cursor(1) = PayloadAt(img)
    BY <1>2, <2>1 DEF Filed
  <2> QED BY <1>1, <1>2, <2>2
<1>4. ASSUME NEW q \in 0 .. (n - 1) - 1, q \in S PROVE q + 1 \in S
  <2> DEFINE i == q + 1
             t == img.sections[i].type
  <2>1. i \in 1 .. n - 1 /\ i \in 1 .. n /\ i \in 0 .. n - 1
    BY <1>2
  <2>2. at[i] = cursor(i)
    BY <1>4
  <2>3. at[i + 1] = at[i] + IF t = "bss" THEN 0 ELSE img.sections[i].size
    BY <1>1, <2>1
  <2>4. t \in {"text", "data", "rodata", "bss"}
    BY <2>1, SectionTypes
  <2>5. t # "bss" => img.sections[i].size = Len(Payload(img, t)) /\ Len(Payload(img, t)) \in Nat
    BY <2>1, <2>4, FaithfulFacts, PayloadPlaces DEF Filed
  <2>6. \A type \in Filed :
           /\ t # type => Seen(img, type, i + 1) = Seen(img, type, i)
           /\ t = type => Seen(img, type, i) = 0 /\ Seen(img, type, i + 1) = Len(Payload(img, type))
           /\ Seen(img, type, i) \in Int
    <3> TAKE type \in Filed
    <3>1. Seen(img, type, i) \in Int
      BY PayloadPlaces DEF Seen
    <3> QED BY <2>1, <3>1, SeenNext
  <2> HIDE DEF i, t
  <2>7. at[i + 1] = cursor(i + 1)
    <3> DEFINE x == Seen(img, "text", i)
               y == Seen(img, "data", i)
               z == Seen(img, "rodata", i)
               l == Len(Payload(img, t))
               p == PayloadAt(img)
    <3>1. x \in Int /\ y \in Int /\ z \in Int
      BY <2>6 DEF Filed
    <3>2. at[i + 1] = p + x + y + z + IF t = "bss" THEN 0 ELSE l
      BY <2>2, <2>3, <2>5
    <3>3. cursor(i + 1) = p + Seen(img, "text", i + 1) + Seen(img, "data", i + 1)
                              + Seen(img, "rodata", i + 1)
      OBVIOUS
    <3>4. t # "bss" => l \in Nat
      BY <2>5
    <3>5. p \in Nat
      BY <1>2
    <3>6. CASE t = "bss"
      <4>1. /\ Seen(img, "text", i + 1) = x /\ Seen(img, "data", i + 1) = y
            /\ Seen(img, "rodata", i + 1) = z
        BY <3>6, <2>6 DEF Filed
      <4> HIDE DEF x, y, z, l, p, cursor
      <4> QED BY <3>1, <3>2, <3>3, <3>5, <3>6, <4>1
    <3>7. CASE t = "text"
      <4>1. /\ x = 0 /\ Seen(img, "text", i + 1) = l /\ Seen(img, "data", i + 1) = y
            /\ Seen(img, "rodata", i + 1) = z
        BY <3>7, <2>6 DEF Filed
      <4> HIDE DEF x, y, z, l, p, cursor
      <4> QED BY <3>1, <3>2, <3>3, <3>4, <3>5, <3>7, <4>1
    <3>8. CASE t = "data"
      <4>1. /\ y = 0 /\ Seen(img, "text", i + 1) = x /\ Seen(img, "data", i + 1) = l
            /\ Seen(img, "rodata", i + 1) = z
        BY <3>8, <2>6 DEF Filed
      <4> HIDE DEF x, y, z, l, p, cursor
      <4> QED BY <3>1, <3>2, <3>3, <3>4, <3>5, <3>8, <4>1
    <3>9. CASE t = "rodata"
      <4>1. /\ z = 0 /\ Seen(img, "text", i + 1) = x /\ Seen(img, "data", i + 1) = y
            /\ Seen(img, "rodata", i + 1) = l
        BY <3>9, <2>6 DEF Filed
      <4> HIDE DEF x, y, z, l, p, cursor
      <4> QED BY <3>1, <3>2, <3>3, <3>4, <3>5, <3>9, <4>1
    <3> HIDE DEF cursor
    <3> QED BY <2>4, <3>6, <3>7, <3>8, <3>9
  <2> QED BY <2>1, <2>7 DEF i
<1>5. k - 1 \in 0 .. n - 1 /\ n - 1 \in Nat /\ n > 0 /\ (k - 1) + 1 = k
  BY <1>2
<1>6. \A q \in S : at[q + 1] = cursor(q + 1)
  OBVIOUS
<1> HIDE DEF S
<1>7. k - 1 \in S
  <2>1. 0 .. n - 1 \subseteq S
    BY <1>3, <1>4, <1>5, UpTo
  <2> QED BY <2>1, <1>5
<1>8. at[k] = cursor(k)
  BY <1>5, <1>6, <1>7
<1> QED BY <1>1, <1>8

\* Every section that has a payload is where serialize puts it, and one without words
\* points into the file.
LEMMA PayloadsPlaced ==
    ASSUME NEW img \in TypedImages, Faithful(img), HasLayout(img), NEW k \in 1 .. Len(img.sections),
           img.sections[k].type # "bss"
    PROVE  LET s == img.sections[k]
           IN  /\ s.type \in Filed
               /\ s.size = Len(Payload(img, s.type)) /\ s.size \in Nat
               /\ s.file_offset \in Int /\ s.file_offset >= PayloadAt(img)
               /\ s.file_offset + s.size <= FileLength(img)
               /\ ~Empty(img, s.type) => s.file_offset = PayloadStart(img, s.type)
<1> DEFINE s == img.sections[k]
           t == s.type
           n == Len(img.sections)
<1>1. t \in Filed
  BY SectionTypes DEF Filed
<1>2. s.size = Len(Payload(img, t)) /\ s.size \in Nat
  BY <1>1, FaithfulFacts, PayloadPlaces
<1>3. s.file_offset = PayloadAt(img) + Seen(img, "text", k) + Seen(img, "data", k) + Seen(img, "rodata", k)
  BY Walk
<1>4. \A type \in Filed : Seen(img, type, k) \in 0 .. Len(Payload(img, type))
  BY PayloadPlaces DEF Seen
<1>5. /\ Payload(img, "text") = img.text /\ Payload(img, "data") = img.data
      /\ Payload(img, "rodata") = img.rodata
  BY DEF Payload
<1>6. /\ Seen(img, "text", k) \in 0 .. Len(img.text) /\ Seen(img, "data", k) \in 0 .. Len(img.data)
      /\ Seen(img, "rodata", k) \in 0 .. Len(img.rodata)
      /\ Len(img.text) \in Nat /\ Len(img.data) \in Nat /\ Len(img.rodata) \in Nat
      /\ PayloadAt(img) \in Nat
  <2>1. \A type \in Filed : Len(Payload(img, type)) \in Nat
    BY PayloadPlaces
  <2> QED BY <1>4, <1>5, <2>1, PayloadPlaces DEF Filed
<1>7. /\ t = "text" => Seen(img, "text", k) = 0
      /\ t = "data" => Seen(img, "data", k) = 0
      /\ t = "rodata" => Seen(img, "rodata", k) = 0
  BY SeenNext DEF Filed
<1>8. ASSUME NEW type \in Filed, ~Empty(img, t), SectionType[type] < SectionType[t]
      PROVE  Seen(img, type, k) = Len(Payload(img, type))
  <2>1. CASE Empty(img, type)
    <3>1. Len(Payload(img, type)) = 0
      BY <2>1 DEF Empty
    <3> QED BY <3>1 DEF Seen
  <2>2. CASE ~Empty(img, type)
    <3>1. PICK j \in 1 .. n : img.sections[j].type = type
      BY <2>2, FaithfulFacts
    <3>2. type # "bss" /\ t # "bss"
      BY <1>1 DEF Filed
    <3>3. SectionType[type] \in Int /\ SectionType[t] \in Int
      BY <1>1 DEF Filed, SectionType
    <3>4. ~(k < j)
      BY <1>8, <2>2, <3>1, <3>2, <3>3, FaithfulFacts
    <3>5. j # k
      BY <1>8, <3>1, <3>3
    <3>6. j \in 1 .. k - 1
      BY <3>4, <3>5, ImageTypes
    <3> QED BY <3>1, <3>6 DEF Seen
  <2> QED BY <2>1, <2>2
<1>9. ASSUME NEW type \in Filed, ~Empty(img, t), SectionType[t] < SectionType[type]
      PROVE  Seen(img, type, k) = 0
  <2>1. CASE Empty(img, type)
    <3>1. Len(Payload(img, type)) = 0
      BY <2>1 DEF Empty
    <3> QED BY <3>1 DEF Seen
  <2>2. CASE ~Empty(img, type)
    <3>1. SUFFICES ASSUME NEW j \in 1 .. k - 1, img.sections[j].type = type PROVE FALSE
      BY DEF Seen
    <3>2. type # "bss" /\ t # "bss"
      BY <1>1 DEF Filed
    <3>3. SectionType[type] \in Int /\ SectionType[t] \in Int
      BY <1>1 DEF Filed, SectionType
    <3>4. j \in 1 .. n /\ j < k
      BY ImageTypes
    <3> QED BY <1>9, <2>2, <3>1, <3>2, <3>3, <3>4, FaithfulFacts
  <2> QED BY <2>1, <2>2
<1>10. SectionType["text"] = 0 /\ SectionType["data"] = 1 /\ SectionType["rodata"] = 2
  BY DEF SectionType
<1> HIDE DEF s, t, n
<1>11. s.file_offset \in Int /\ s.file_offset >= PayloadAt(img)
  BY <1>3, <1>6
<1>12. s.file_offset + s.size <= FileLength(img)
  <2> DEFINE x == Seen(img, "text", k)
             y == Seen(img, "data", k)
             z == Seen(img, "rodata", k)
             lx == Len(img.text)
             ly == Len(img.data)
             lz == Len(img.rodata)
             p == PayloadAt(img)
  <2>1. /\ x \in 0 .. lx /\ y \in 0 .. ly /\ z \in 0 .. lz
        /\ lx \in Nat /\ ly \in Nat /\ lz \in Nat /\ p \in Nat
    BY <1>6
  <2>2. s.file_offset = p + x + y + z /\ FileLength(img) = p + lx + ly + lz
    BY <1>3 DEF FileLength
  <2>3. /\ t = "text" => s.size = lx /\ x = 0
        /\ t = "data" => s.size = ly /\ y = 0
        /\ t = "rodata" => s.size = lz /\ z = 0
    BY <1>2, <1>5, <1>7
  <2> HIDE DEF x, y, z, lx, ly, lz, p
  <2>4. \/ s.size = lx /\ x = 0
        \/ s.size = ly /\ y = 0
        \/ s.size = lz /\ z = 0
    BY <1>1, <2>3 DEF Filed
  <2> QED BY <2>1, <2>2, <2>4
<1>13. ASSUME ~Empty(img, t) PROVE s.file_offset = PayloadStart(img, t)
  <2>1. CASE t = "text"
    <3>1. Seen(img, "data", k) = 0 /\ Seen(img, "rodata", k) = 0
      BY <2>1, <1>9, <1>10, <1>13 DEF Filed
    <3> QED BY <3>1, <2>1, <1>3, <1>6, <1>7 DEF PayloadStart
  <2>2. CASE t = "data"
    <3>1. Seen(img, "text", k) = Len(img.text) /\ Seen(img, "rodata", k) = 0
      BY <2>2, <1>5, <1>8, <1>9, <1>10, <1>13 DEF Filed
    <3> QED BY <3>1, <2>2, <1>3, <1>6, <1>7 DEF PayloadStart
  <2>3. CASE t = "rodata"
    <3>1. Seen(img, "text", k) = Len(img.text) /\ Seen(img, "data", k) = Len(img.data)
      BY <2>3, <1>5, <1>8, <1>10, <1>13 DEF Filed
    <3> QED BY <3>1, <2>3, <1>3, <1>6, <1>7 DEF PayloadStart
  <2> QED BY <1>1, <2>1, <2>2, <2>3 DEF Filed
<1> QED BY <1>1, <1>2, <1>11, <1>12, <1>13 DEF s, t


\* The cursor of layout: a walk from the end of the tables.
LEMMA CursorWalks ==
    ASSUME NEW img \in TypedImages
    PROVE  LET n == Len(img.sections)
               c == FileCursor(img)
           IN  /\ c \in [1 .. n -> Int]
               /\ n > 0 => c[1] = PayloadAt(img)
               /\ \A k \in 1 .. n - 1 : c[k + 1] = c[k] + Len(Payload(img, img.sections[k].type))
<1> DEFINE n == Len(img.sections)
           a == PayloadAt(img)
           w == [k \in 1 .. n |-> Len(Payload(img, img.sections[k].type))]
           Eq(f) == f = [k \in DOMAIN img.sections |->
                           IF k = 1 THEN PayloadAt(img)
                           ELSE f[k - 1] + Len(Payload(img, img.sections[k - 1].type))]
           c == FileCursor(img)
<1>0. n \in Nat /\ DOMAIN img.sections = 1 .. n /\ a \in Int
  BY ImageTypes, PayloadPlaces
<1>1. \A k \in 1 .. n : w[k] = Len(Payload(img, img.sections[k].type)) /\ w[k] \in Nat
  <2> TAKE k \in 1 .. n
  <2>1. img.sections[k].type \in {"text", "data", "rodata", "bss"}
    BY SectionTypes
  <2>2. Len(Payload(img, img.sections[k].type)) \in Nat
    <3>1. Len(<< >>) = 0
      OBVIOUS
    <3> QED BY <2>1, <3>1, PayloadPlaces DEF Filed, Payload
  <2> QED BY <2>2
<1> HIDE DEF n, a, w
<1>2. PICK g : Running(g, n, a, w)
  BY <1>0, <1>1, RunningSum
<1> DEFINE f == [k \in 1 .. n |-> g[k - 1]]
<1>3. g \in [0 .. n -> Int] /\ g[0] = a /\ \A k \in 1 .. n : g[k] = g[k - 1] + w[k]
  BY <1>2 DEF Running
<1>4. \A k \in 1 .. n : f[k] = IF k = 1 THEN a
                               ELSE f[k - 1] + Len(Payload(img, img.sections[k - 1].type))
  <2> TAKE k \in 1 .. n
  <2>1. f[k] = g[k - 1]
    OBVIOUS
  <2>2. CASE k = 1
    BY <2>1, <2>2, <1>3
  <2>3. CASE k # 1
    <3>1. k - 1 \in 1 .. n
      BY <1>0, <2>3
    <3>2. f[k - 1] = g[(k - 1) - 1]
      BY <3>1
    <3>3. g[k - 1] = g[(k - 1) - 1] + w[k - 1]
      BY <1>3, <3>1
    <3>4. w[k - 1] = Len(Payload(img, img.sections[k - 1].type))
      BY <1>1, <3>1
    <3> HIDE DEF f
    <3> QED BY <2>1, <2>3, <3>2, <3>3, <3>4
  <2> QED BY <2>2, <2>3
<1>5. f = [k \in 1 .. n |-> f[k]]
  OBVIOUS
<1> HIDE DEF f
<1>6. Eq(f)
  BY <1>0, <1>4, <1>5 DEF a
<1>7. Eq(c)
  <2>1. Eq(CHOOSE h : Eq(h))
    <3> HIDE DEF Eq
    <3> QED BY <1>6
  <2>2. c = CHOOSE h : Eq(h)
    BY DEF FileCursor
  <2> HIDE DEF c, Eq
  <2> QED BY <2>1, <2>2
<1> HIDE DEF c
<1>8. \A k \in 1 .. n : c[k] = IF k = 1 THEN a ELSE c[k - 1] + Len(Payload(img, img.sections[k - 1].type))
  BY <1>0, <1>7 DEF a
<1>9. c = [k \in 1 .. n |-> c[k]]
  BY <1>0, <1>7
<1> HIDE DEF Eq
<1>10. ASSUME NEW k \in 1 .. n - 1
       PROVE  c[k + 1] = c[k] + Len(Payload(img, img.sections[k].type))
  <2>1. k + 1 \in 1 .. n /\ k + 1 # 1 /\ (k + 1) - 1 = k
    BY <1>0
  <2> QED BY <1>8, <2>1
<1>11. n > 0 => c[1] = a
  BY <1>0, <1>8
<1> DEFINE S == {k \in 0 .. n : k > 0 => c[k] \in Int}
<1>12. 0 \in S
  BY <1>0
<1>13. ASSUME NEW k \in 0 .. n - 1, k \in S PROVE k + 1 \in S
  <2>1. k + 1 \in 0 .. n /\ k \in 0 .. n
    BY <1>0
  <2>2. CASE k = 0
    BY <2>1, <2>2, <1>0, <1>11
  <2>3. CASE k > 0
    <3>1. k \in 1 .. n - 1 /\ k \in 1 .. n /\ c[k] \in Int
      BY <1>0, <1>13, <2>3
    <3>2. c[k + 1] = c[k] + w[k] /\ w[k] \in Nat
      BY <3>1, <1>1, <1>10
    <3> QED BY <2>1, <3>1, <3>2
  <2> QED BY <2>2, <2>3, <1>0
<1>14. \A k \in S : k > 0 => c[k] \in Int
  OBVIOUS
<1> HIDE DEF S
<1>15. \A k \in 1 .. n : c[k] \in Int
  <2>1. 0 .. n \subseteq S
    BY <1>0, <1>12, <1>13, UpTo
  <2>2. \A k \in 1 .. n : k \in 0 .. n /\ k > 0
    BY <1>0
  <2> QED BY <2>1, <2>2, <1>14
<1>16. c \in [1 .. n -> Int]
  BY <1>9, <1>15
<1> QED BY <1>10, <1>11, <1>16 DEF n, a, c

SectionEntries ==
    [type : DOMAIN SectionType, flags : SUBSET DOMAIN SectionFlag,
     file_offset : Int, size : Int, alignment : Int, virtual_address : Int]

\* An entry with another offset and another size.
Moved(s, o, l) == [s EXCEPT !.file_offset = o, !.size = l]

\* It keeps its type.
LEMMA EntryMoved ==
    ASSUME NEW s \in SectionEntries, NEW o \in Int, NEW l \in Int
    PROVE  /\ Moved(s, o, l) \in SectionEntries /\ Moved(s, o, l).type = s.type
           /\ Moved(s, o, l).file_offset = o /\ Moved(s, o, l).size = l
  BY DEF SectionEntries, Moved

\* layout lays out, and keeps payloads and symbols.
LEMMA LayoutLays ==
    ASSUME NEW img \in TypedImages
    PROVE  layout(img) \in TypedImages /\ HasLayout(layout(img))
<1> DEFINE z == layout(img)
           n == Len(img.sections)
           c == FileCursor(img)
           h == [img.header EXCEPT !.section_table = HeaderWords, !.section_count = Len(img.sections),
                                   !.symbol_table = SymbolTableAt(img), !.symbol_count = Len(img.symbols)]
           s == [k \in DOMAIN img.sections |->
                   [img.sections[k] EXCEPT
                      !.file_offset = IF img.sections[k].type = "bss" THEN 0 ELSE FileCursor(img)[k],
                      !.size = SizeOf(img, img.sections[k].type)]]
<1>1. z = [img EXCEPT !.header = h, !.sections = s, !.laid_out = TRUE]
  BY DEF layout
<1>2. /\ h \in [DOMAIN NewHeader -> Int]
      /\ h.section_table = HeaderWords /\ h.section_count = n
      /\ h.symbol_table = SymbolTableAt(img) /\ h.symbol_count = Len(img.symbols)
  <2> DEFINE y == img.header
             t == SymbolTableAt(img)
             m == Len(img.symbols)
             a == HeaderWords
             D == DOMAIN NewHeader
  <2>1. y \in [D -> Int]
    BY DEF TypedImages
  <2>2. a \in Int /\ n \in Int /\ t \in Int /\ m \in Int
    BY ImageTypes, PayloadPlaces DEF HeaderWords
  <2>3. {"section_table", "section_count", "symbol_table", "symbol_count"} \subseteq D
    BY DEF NewHeader
  <2>4. h = [y EXCEPT !.section_table = a, !.section_count = n, !.symbol_table = t, !.symbol_count = m]
    OBVIOUS
  <2> HIDE DEF h, y, t, m, a, D, n
  <2>5. h \in [D -> Int] /\ h.section_table = a /\ h.section_count = n /\ h.symbol_table = t /\ h.symbol_count = m
    BY <2>1, <2>2, <2>3, <2>4
  <2> QED BY <2>5 DEF a, t, m, D
<1>3. /\ n \in Nat /\ DOMAIN img.sections = 1 .. n
      /\ c \in [1 .. n -> Int]
      /\ n > 0 => c[1] = PayloadAt(img)
      /\ \A k \in 1 .. n - 1 : c[k + 1] = c[k] + Len(Payload(img, img.sections[k].type))
  BY ImageTypes, CursorWalks
<1>4. ASSUME NEW k \in 1 .. n
      PROVE  /\ s[k] \in SectionEntries /\ s[k].type = img.sections[k].type
             /\ s[k].file_offset = IF img.sections[k].type = "bss" THEN 0 ELSE c[k]
             /\ s[k].size = SizeOf(img, img.sections[k].type)
  <2> DEFINE x == img.sections[k]
             o == IF x.type = "bss" THEN 0 ELSE c[k]
             l == SizeOf(img, x.type)
  <2>1. x \in SectionEntries
    <3>1. img.sections \in Seq(SectionEntries)
      BY DEF TypedImages, SectionEntries
    <3> QED BY <3>1, ElementOfSeq
  <2>2. o \in Int
    BY <1>3
  <2>3. l \in Int
    <3>1. x.type \in Filed \cup {"bss"}
      BY SectionTypes DEF Filed
    <3>2. img.bss_size \in Int /\ \A type \in Filed : Len(Payload(img, type)) \in Int
      BY ImageTypes, PayloadPlaces
    <3> QED BY <3>1, <3>2 DEF SizeOf
  <2>4. s[k] = [x EXCEPT !.file_offset = o, !.size = l]
    BY <1>3
  <2> DEFINE e == s[k]
  <2>5. e = Moved(x, o, l)
    BY <2>4 DEF Moved
  <2> HIDE DEF x, o, l, e
  <2>6. e \in SectionEntries /\ e.type = x.type /\ e.file_offset = o /\ e.size = l
    BY <2>1, <2>2, <2>3, <2>5, EntryMoved
  <2> QED BY <2>6 DEF x, o, l, e
<1>5. s \in Seq(SectionEntries) /\ Len(s) = n
  <2>1. s = [k \in 1 .. n |-> s[k]]
    BY <1>3
  <2> HIDE DEF s, n
  <2> QED BY <1>3, <1>4, <2>1, SeqDef
<1> HIDE DEF h, s
<1>6. /\ z.header = h /\ z.sections = s /\ z.laid_out = TRUE
      /\ z.symbols = img.symbols /\ z.text = img.text /\ z.data = img.data /\ z.rodata = img.rodata
      /\ z.bss_size = img.bss_size
  BY <1>1 DEF TypedImages
<1>7. z \in TypedImages
  <2>1. z \in [header : [DOMAIN NewHeader -> Int], sections : Seq(SectionEntries),
               symbols : Seq([identifier : Int, type : DOMAIN SymbolType, section : Int, offset : Int,
                     visibility : DOMAIN SymbolVisibility]),
               text : Seq(Int), data : Seq(Int), rodata : Seq(Int), bss_size : Nat, laid_out : BOOLEAN]
    <3> DEFINE A == [DOMAIN NewHeader -> Int]
               B == Seq(SectionEntries)
               C == Seq([identifier : Int, type : DOMAIN SymbolType, section : Int, offset : Int,
                     visibility : DOMAIN SymbolVisibility])
               D == Seq([type : DOMAIN SectionType, flags : SUBSET DOMAIN SectionFlag,
                     file_offset : Int, size : Int, alignment : Int, virtual_address : Int])
    <3>1. img \in [header : A, sections : D, symbols : C, text : Seq(Int), data : Seq(Int),
                   rodata : Seq(Int), bss_size : Nat, laid_out : BOOLEAN]
      BY DEF TypedImages
    <3>2. h \in A /\ s \in B
      BY <1>2, <1>5
    <3> HIDE DEF A, B, C, D, z
    <3>3. z \in [header : A, sections : B, symbols : C, text : Seq(Int), data : Seq(Int),
                 rodata : Seq(Int), bss_size : Nat, laid_out : BOOLEAN]
      BY <1>1, <3>1, <3>2
    <3> QED BY <3>3 DEF A, B, C
  <2> HIDE DEF z
  <2> QED BY <2>1 DEF TypedImages, SectionEntries
<1> HIDE DEF z
<1>8. SymbolTableAt(z) = SymbolTableAt(img) /\ PayloadAt(z) = PayloadAt(img)
  BY <1>5, <1>6 DEF SymbolTableAt, PayloadAt
<1>9. HasLayout(z)
  <2>1. /\ z.header.section_table = HeaderWords /\ z.header.section_count = Len(z.sections)
        /\ z.header.symbol_table = SymbolTableAt(z) /\ z.header.symbol_count = Len(z.symbols)
    BY <1>2, <1>5, <1>6, <1>8
  <2>2. ASSUME NEW k \in 1 .. n - 1
        PROVE  c[k + 1] = c[k] + IF z.sections[k].type = "bss" THEN 0 ELSE z.sections[k].size
    <3>1. k \in 1 .. n
      BY <1>3
    <3>2. z.sections[k].type = img.sections[k].type
      BY <3>1, <1>4, <1>6
    <3>3. z.sections[k].size = SizeOf(img, img.sections[k].type)
      BY <3>1, <1>4, <1>6
    <3>4. Len(Payload(img, img.sections[k].type)) =
              IF img.sections[k].type = "bss" THEN 0 ELSE SizeOf(img, img.sections[k].type)
      <4> DEFINE t == img.sections[k].type
      <4>1. t = "bss" => Payload(img, t) = << >>
        BY DEF Payload
      <4>2. t # "bss" => SizeOf(img, t) = Len(Payload(img, t))
        BY DEF SizeOf
      <4>3. Len(<< >>) = 0
        OBVIOUS
      <4> HIDE DEF t
      <4> QED BY <4>1, <4>2, <4>3 DEF t
    <3> QED BY <1>3, <3>2, <3>3, <3>4
  <2>3. \A k \in 1 .. n : z.sections[k].file_offset = IF z.sections[k].type = "bss" THEN 0 ELSE c[k]
    BY <1>4, <1>6
  <2>4. Len(z.sections) = n
    BY <1>5, <1>6
  <2>5. n > 0 => c[1] = PayloadAt(z)
    BY <1>3, <1>8
  <2> HIDE DEF n, c
  <2> QED BY <1>3, <2>1, <2>2, <2>3, <2>4, <2>5 DEF HasLayout, Lays
<1> QED BY <1>7, <1>9 DEF z

\* layout says so.
LEMMA LayoutMarks ==
    ASSUME NEW img \in TypedImages, NEW z, z = layout(img)
    PROVE  z.laid_out = TRUE
<1>1. PICK h, s : z = [img EXCEPT !.header = h, !.sections = s, !.laid_out = TRUE]
  BY DEF layout
<1> QED BY <1>1 DEF TypedImages

\* An entry whose offset and size are replaced by themselves.
LEMMA EntryStays ==
    ASSUME NEW s \in SectionEntries
    PROVE  Moved(s, s.file_offset, s.size) = s
  BY DEF SectionEntries, Moved

\* Laying out again an image that has its layout and its sizes changes nothing.
LEMMA LayoutStays ==
    ASSUME NEW z \in TypedImages, z.laid_out = TRUE, HasLayout(z),
           \A k \in DOMAIN z.sections : z.sections[k].size = SizeOf(z, z.sections[k].type)
    PROVE  layout(z) = z
<1> DEFINE n == Len(z.sections)
           c == FileCursor(z)
           h == [z.header EXCEPT !.section_table = HeaderWords, !.section_count = Len(z.sections),
                                 !.symbol_table = SymbolTableAt(z), !.symbol_count = Len(z.symbols)]
           s == [k \in DOMAIN z.sections |->
                   [z.sections[k] EXCEPT
                      !.file_offset = IF z.sections[k].type = "bss" THEN 0 ELSE FileCursor(z)[k],
                      !.size = SizeOf(z, z.sections[k].type)]]
<1>1. layout(z) = [z EXCEPT !.header = h, !.sections = s, !.laid_out = TRUE]
  BY DEF layout
<1>2. /\ n \in Nat /\ DOMAIN z.sections = 1 .. n /\ c \in [1 .. n -> Int]
      /\ n > 0 => c[1] = PayloadAt(z)
      /\ \A k \in 1 .. n - 1 : c[k + 1] = c[k] + Len(Payload(z, z.sections[k].type))
  BY ImageTypes, CursorWalks
<1>3. PICK at \in [1 .. n -> Int] :
         /\ n > 0 => at[1] = PayloadAt(z)
         /\ \A k \in 1 .. n - 1 :
               at[k + 1] = at[k] + IF z.sections[k].type = "bss" THEN 0 ELSE z.sections[k].size
         /\ \A k \in 1 .. n :
               z.sections[k].file_offset = IF z.sections[k].type = "bss" THEN 0 ELSE at[k]
  BY DEF HasLayout, Lays
<1>4. ASSUME NEW k \in 1 .. n
      PROVE  Len(Payload(z, z.sections[k].type)) =
                IF z.sections[k].type = "bss" THEN 0 ELSE z.sections[k].size
  <2> DEFINE t == z.sections[k].type
  <2>1. t = "bss" => Payload(z, t) = << >>
    BY DEF Payload
  <2>2. t # "bss" => z.sections[k].size = Len(Payload(z, t))
    BY <1>2 DEF SizeOf
  <2>3. Len(<< >>) = 0
    OBVIOUS
  <2> HIDE DEF t
  <2> QED BY <2>1, <2>2, <2>3 DEF t
<1> HIDE DEF n, c
<1>5. \A k \in 1 .. n : c[k] = at[k]
  <2> DEFINE S == {k \in 0 .. n : k > 0 => c[k] = at[k]}
  <2>1. 0 \in S
    BY <1>2
  <2>2. ASSUME NEW k \in 0 .. n - 1, k \in S PROVE k + 1 \in S
    <3>1. k + 1 \in 0 .. n
      BY <1>2
    <3>2. CASE k = 0
      BY <3>1, <3>2, <1>2, <1>3
    <3>3. CASE k > 0
      <4>1. k \in 1 .. n - 1 /\ k \in 1 .. n /\ c[k] = at[k]
        BY <1>2, <2>2, <3>3
      <4>2. c[k + 1] = at[k + 1]
        BY <1>2, <1>3, <1>4, <4>1
      <4> QED BY <3>1, <4>2
    <3> QED BY <3>2, <3>3, <1>2
  <2>3. \A k \in S : k > 0 => c[k] = at[k]
    OBVIOUS
  <2> HIDE DEF S
  <2>4. 0 .. n \subseteq S
    BY <1>2, <2>1, <2>2, UpTo
  <2>5. \A k \in 1 .. n : k \in 0 .. n /\ k > 0
    BY <1>2
  <2> QED BY <2>3, <2>4, <2>5
<1>6. ASSUME NEW k \in 1 .. n PROVE s[k] = z.sections[k]
  <2> DEFINE x == z.sections[k]
             o == IF x.type = "bss" THEN 0 ELSE c[k]
             l == SizeOf(z, x.type)
  <2>1. x \in SectionEntries
    <3>1. z.sections \in Seq(SectionEntries)
      BY DEF TypedImages, SectionEntries
    <3> QED BY <3>1, ElementOfSeq DEF n
  <2>2. s[k] = [x EXCEPT !.file_offset = o, !.size = l]
    BY <1>2 DEF c
  <2>3. x.file_offset = o /\ x.size = l
    BY <1>2, <1>3, <1>5
  <2> DEFINE e == s[k]
  <2>4. e = Moved(x, o, l)
    BY <2>2 DEF Moved
  <2> HIDE DEF x, o, l, e
  <2>5. e = x
    BY <2>1, <2>3, <2>4, EntryStays
  <2> QED BY <2>5 DEF e, x
<1>7. s = z.sections
  <2>1. s = [k \in 1 .. n |-> s[k]]
    BY <1>2
  <2>2. z.sections = [k \in 1 .. n |-> z.sections[k]]
    <3>1. z.sections \in Seq(SectionEntries)
      BY DEF TypedImages, SectionEntries
    <3> HIDE DEF s
    <3> QED BY <1>2, <3>1
  <2> HIDE DEF s
  <2> QED BY <1>6, <2>1, <2>2
<1>8. h = z.header
  <2> DEFINE y == z.header
             t == SymbolTableAt(z)
             m == Len(z.symbols)
             b == Len(z.sections)
             a == HeaderWords
             D == DOMAIN NewHeader
  <2>1. y \in [D -> Int]
    BY DEF TypedImages
  <2>2. y.section_table = a /\ y.section_count = b /\ y.symbol_table = t /\ y.symbol_count = m
    BY DEF HasLayout, Lays
  <2>3. h = [y EXCEPT !.section_table = a, !.section_count = b, !.symbol_table = t, !.symbol_count = m]
    OBVIOUS
  <2> HIDE DEF h, y, t, m, a, b, D
  <2>4. h = y
    BY <2>1, <2>2, <2>3
  <2> QED BY <2>4 DEF y
<1> HIDE DEF h, s
<1> QED BY <1>1, <1>7, <1>8 DEF TypedImages

-----------------------------------------------------------------------------
(* A whole file is the image that was written. *)

\* What a loader finds in the tables.
LEMMA TablesRead ==
    ASSUME NEW img \in TypedImages, HasLayout(img), NEW f, SameTables(img, f)
    PROVE  /\ header(f) = img.header
           /\ header(f).section_count = Len(img.sections) /\ header(f).symbol_count = Len(img.symbols)
           /\ header(f).section_table = HeaderWords /\ header(f).symbol_table = SymbolTableAt(img)
           /\ MetadataEnd(f) = PayloadAt(img)
           /\ \A k \in 1 .. Len(img.sections) :
                 SectionEntry(f, k - 1) = encode_section(img.sections[k])
           /\ \A k \in 1 .. Len(img.symbols) :
                 SymbolEntryOf(f, k - 1) = encode_symbol(img.symbols[k])
<1>1. header(f) = img.header
  <2>1. \A i \in 1 .. 16 : f.words[i] = serialize(img)[i]
    BY PayloadPlaces DEF SameTables
  <2> QED BY <2>1, HeaderRead
<1>2. /\ header(f).section_count = Len(img.sections) /\ header(f).symbol_count = Len(img.symbols)
      /\ header(f).section_table = HeaderWords /\ header(f).symbol_table = SymbolTableAt(img)
  BY <1>1 DEF HasLayout, Lays
<1>3. MetadataEnd(f) = PayloadAt(img)
  <2> DEFINE m == Len(img.symbols)
  <2>1. MetadataEnd(f) = SymbolTableAt(img) + 6 * m
    BY <1>2 DEF MetadataEnd, SymbolEntryAt, SymbolEntryWords
  <2>2. PayloadAt(img) = SymbolTableAt(img) + 6 * m
    BY PayloadPlaces
  <2> HIDE DEF m
  <2> QED BY <2>1, <2>2
<1> QED BY <1>1, <1>2, <1>3, SectionRead, SymbolRead

\* A whole file has these tables.
LEMMA WholeFile ==
    ASSUME NEW img \in TypedImages
    PROVE  LET f == Whole(serialize(img))
           IN  /\ f \in File /\ f.words = serialize(img) /\ f.whole = TRUE
               /\ Len(f.words) = FileLength(img) /\ SameTables(img, f)
<1> DEFINE w == serialize(img)
<1>1. w \in Seq(Int) /\ Len(w) = FileLength(img)
  BY SerializeFacts
<1>2. FileLength(img) >= PayloadAt(img)
  <2>1. /\ "text" \in Filed /\ PayloadStart(img, "text") \in Int /\ Len(Payload(img, "text")) \in Nat
        /\ PayloadStart(img, "text") + Len(Payload(img, "text")) <= FileLength(img)
        /\ PayloadStart(img, "text") >= PayloadAt(img) /\ PayloadAt(img) \in Nat /\ FileLength(img) \in Nat
    BY PayloadPlaces DEF Filed
  <2> QED BY <2>1
<1> HIDE DEF w
<1>3. /\ Whole(w) \in File /\ Whole(w).words = w /\ Whole(w).whole = TRUE
  BY <1>1 DEF Whole, File
<1>4. SameTables(img, Whole(w))
  BY <1>1, <1>2, <1>3 DEF SameTables, w
<1> QED BY <1>1, <1>3, <1>4 DEF w

\* What the meaning of an image says of a section and of a symbol, and with what it has
\* in common with them.
SectionMeant(img, k) ==
    [type |-> LoadedType[SectionType[img.sections[k].type] + 1], flags |-> img.sections[k].flags,
     virtual_address |-> img.sections[k].virtual_address, alignment |-> img.sections[k].alignment,
     memory_size |-> SizeOf(img, img.sections[k].type), words |-> Payload(img, img.sections[k].type)]

SymbolMeant(img, k) ==
    [identifier |-> img.symbols[k].identifier, type |-> SymbolType[img.symbols[k].type],
     section |-> img.symbols[k].section,
     address |-> IF img.symbols[k].section + 1 \in DOMAIN img.sections
                 THEN img.sections[img.symbols[k].section + 1].virtual_address + img.symbols[k].offset
                 ELSE 0]

\* Their fields.
LEMMA MeantFields ==
    /\ \A img, k : /\ SectionMeant(img, k).alignment = img.sections[k].alignment
                   /\ SectionMeant(img, k).virtual_address = img.sections[k].virtual_address
                   /\ SectionMeant(img, k).memory_size = SizeOf(img, img.sections[k].type)
    /\ \A img, k : /\ SymbolMeant(img, k).identifier = img.symbols[k].identifier
                   /\ SymbolMeant(img, k).type = SymbolType[img.symbols[k].type]
                   /\ SymbolMeant(img, k).section = img.symbols[k].section
                   /\ img.symbols[k].section + 1 \in DOMAIN img.sections =>
                         SymbolMeant(img, k).address
                             = img.sections[img.symbols[k].section + 1].virtual_address
                                   + img.symbols[k].offset
  BY DEF SectionMeant, SymbolMeant

\* The parts of what an image means.
LEMMA MeaningParts ==
    ASSUME NEW img \in TypedImages
    PROVE  /\ Meaning(img).sections = [k \in 1 .. Len(img.sections) |-> SectionMeant(img, k)]
           /\ Meaning(img).symbols = [k \in 1 .. Len(img.symbols) |-> SymbolMeant(img, k)]
           /\ \A field \in LoadedHeader : Meaning(img)[field] = img.header[field]
           /\ DOMAIN Meaning(img) = LoadedHeader \cup {"sections", "symbols"}
           /\ Meaning(img) = [field \in LoadedHeader \cup {"sections", "symbols"} |-> Meaning(img)[field]]
<1>1. /\ DOMAIN img.sections = 1 .. Len(img.sections) /\ DOMAIN img.symbols = 1 .. Len(img.symbols)
  BY ImageTypes
<1>2. Meaning(img).sections = [k \in 1 .. Len(img.sections) |-> SectionMeant(img, k)]
  BY <1>1 DEF Meaning, SectionMeant
<1>3. Meaning(img).symbols = [k \in 1 .. Len(img.symbols) |-> SymbolMeant(img, k)]
  BY <1>1 DEF Meaning, SymbolMeant
<1>4. \A field \in LoadedHeader : Meaning(img)[field] = img.header[field]
  BY DEF Meaning, LoadedHeader
<1>5. DOMAIN Meaning(img) = LoadedHeader \cup {"sections", "symbols"}
  BY DEF Meaning
<1>6. Meaning(img) = [field \in LoadedHeader \cup {"sections", "symbols"} |-> Meaning(img)[field]]
  BY DEF Meaning
<1> QED BY <1>2, <1>3, <1>4, <1>5, <1>6

\* A payload is read back.
LEMMA PayloadRead ==
    ASSUME NEW img \in TypedImages, Faithful(img), HasLayout(img), NEW k \in 1 .. Len(img.sections),
           img.sections[k].type # "bss"
    PROVE  LET s == img.sections[k]
           IN  SubSeq(serialize(img), s.file_offset + 1, s.file_offset + s.size)
                   = Payload(img, s.type)
<1> DEFINE s == img.sections[k]
           p == Payload(img, s.type)
           o == s.file_offset
           l == s.size
           w == serialize(img)
<1>1. /\ s.type \in Filed /\ l = Len(p) /\ l \in Nat /\ o \in Int
      /\ ~Empty(img, s.type) => o = PayloadStart(img, s.type)
  BY PayloadsPlaced
<1>2. p \in Seq(Int)
  BY <1>1, PayloadPlaces
<1>3. CASE Empty(img, s.type)
  <2>1. p = << >> /\ l = 0
    BY <1>1, <1>3 DEF Empty
  <2> HIDE DEF w, o, l, p
  <2>2. o + l < o + 1 /\ o + 1 \in Int /\ o + l \in Int
    BY <1>1, <2>1
  <2>3. SubSeq(w, o + 1, o + l) = << >>
    BY <2>2, SubSeqEmpty
  <2> QED BY <2>1, <2>3 DEF w, o, l, p
<1>4. CASE ~Empty(img, s.type)
  <2> DEFINE g == SubSeq(w, o + 1, o + l)
             t == s.type
  <2>1. o = PayloadStart(img, t) /\ t \in Filed
    BY <1>1, <1>4
  <2>2. \A j \in 1 .. l : w[o + j] = p[j]
    BY <1>1, <2>1, SerializeFacts
  <2> HIDE DEF t, w, o, l, p, s
  <2>3. \A j \in 1 .. l : p[j] \in Int
    BY <1>1, <1>2
  <2>4. ASSUME NEW i \in o + 1 .. o + l PROVE w[i] \in Int
    <3> DEFINE j == i - o
    <3>1. j \in 1 .. l /\ i = o + j
      BY <1>1
    <3> HIDE DEF j
    <3> QED BY <2>2, <2>3, <3>1
  <2>5. l # 0
    <3>1. p # << >>
      BY <1>4 DEF Empty, p
    <3> QED BY <3>1, <1>1, <1>2
  <2>6. /\ g \in Seq(Int)
        /\ Len(g) = IF o + 1 <= o + l THEN (o + l) - (o + 1) + 1 ELSE 0
        /\ \A j \in 1 .. (o + l) - (o + 1) + 1 : g[j] = w[(o + 1) + j - 1]
    <3> DEFINE a == o + 1
               b == o + l
    <3>1. a \in Int /\ b \in Int /\ \A i \in a .. b : w[i] \in Int
      BY <1>1, <2>4
    <3> HIDE DEF a, b
    <3>2. /\ SubSeq(w, a, b) \in Seq(Int)
          /\ Len(SubSeq(w, a, b)) = IF a <= b THEN b - a + 1 ELSE 0
          /\ \A j \in 1 .. b - a + 1 : SubSeq(w, a, b)[j] = w[a + j - 1]
      BY <3>1, SubSeqProperties
    <3> QED BY <3>2 DEF a, b
  <2> HIDE DEF g
  <2>7. Len(g) = l
    BY <1>1, <2>5, <2>6
  <2>8. ASSUME NEW j \in 1 .. Len(g) PROVE g[j] = p[j]
    <3>1. j \in 1 .. l /\ j \in 1 .. (o + l) - (o + 1) + 1 /\ (o + 1) + j - 1 = o + j
      BY <1>1, <2>7
    <3> QED BY <3>1, <2>2, <2>6
  <2>9. g = p
    BY <1>1, <1>2, <2>6, <2>7, <2>8, SeqEqual
  <2> QED BY <2>9 DEF g, w, o, l, p, s
<1> QED BY <1>3, <1>4

\* Sections are read back.
LEMMA SectionsRead ==
    ASSUME NEW img, Storable(img), NEW f, f = Whole(serialize(img))
    PROVE  /\ \A k \in 1 .. Len(img.sections) :
                 LoadedSection(f, SectionEntry(f, k - 1)) = SectionMeant(img, k)
           /\ Loaded(f).sections = Meaning(img).sections
<1>1. img \in TypedImages /\ HasLayout(img) /\ Faithful(img)
  BY DEF Storable
<1>2. f.words = serialize(img) /\ SameTables(img, f)
  BY <1>1, WholeFile
<1>3. ASSUME NEW k \in 1 .. Len(img.sections)
      PROVE  LoadedSection(f, SectionEntry(f, k - 1)) = SectionMeant(img, k)
  <2> DEFINE s == img.sections[k]
             e == encode_section(s)
  <2>1. SectionEntry(f, k - 1) = e
    BY <1>1, <1>2, TablesRead
  <2>2. /\ Type(e) = SectionType[s.type] /\ Flags(e) = FlagBits(s.flags)
        /\ FileOffset(e) = s.file_offset /\ Size(e) = s.size
        /\ VirtualAddress(e) = s.virtual_address /\ Alignment(e) = s.alignment
    BY <1>1, SectionWords
  <2>3. s.type \in {"text", "data", "rodata", "bss"} /\ s.flags \subseteq {"Read", "Write", "Execute"}
    BY <1>1, SectionTypes
  <2>4. FlagSet(Flags(e)) = s.flags
    BY <2>2, <2>3, FlagsKept
  <2>5. Size(e) = SizeOf(img, s.type)
    BY <1>1, <2>2, FaithfulFacts DEF SizeOf
  <2>6. Physical(e) <=> s.type # "bss"
    BY <2>2, <2>3 DEF Physical, SectionType
  <2>7. (IF Physical(e) THEN SubSeq(f.words, FileOffset(e) + 1, FileOffset(e) + Size(e)) ELSE << >>)
            = Payload(img, s.type)
    <3>1. CASE s.type = "bss"
      <4>1. Payload(img, s.type) = << >>
        BY <3>1 DEF Payload
      <4> QED BY <3>1, <4>1, <2>6
    <3>2. CASE s.type # "bss"
      <4>1. SubSeq(serialize(img), s.file_offset + 1, s.file_offset + s.size) = Payload(img, s.type)
        BY <1>1, <3>2, PayloadRead
      <4> HIDE DEF s, e
      <4> QED BY <4>1, <1>2, <2>2, <2>6, <3>2
    <3> QED BY <3>1, <3>2
  <2>8. LoadedSection(f, e) = SectionMeant(img, k)
    <3>1. SectionMeant(img, k) =
            [type |-> LoadedType[SectionType[s.type] + 1], flags |-> s.flags,
             virtual_address |-> s.virtual_address, alignment |-> s.alignment,
             memory_size |-> SizeOf(img, s.type), words |-> Payload(img, s.type)]
      BY DEF SectionMeant
    <3> HIDE DEF s, e
    <3> QED BY <3>1, <2>2, <2>4, <2>5, <2>7 DEF LoadedSection
  <2> QED BY <2>1, <2>8
<1>4. Loaded(f).sections = [k \in 1 .. header(f).section_count |-> LoadedSection(f, SectionEntry(f, k - 1))]
  BY DEF Loaded
<1>5. header(f).section_count = Len(img.sections)
  BY <1>1, <1>2, TablesRead
<1>6. Loaded(f).sections = Meaning(img).sections
  <2> DEFINE n == Len(img.sections)
  <2>1. Meaning(img).sections = [k \in 1 .. n |-> SectionMeant(img, k)]
    BY <1>1, MeaningParts
  <2>2. Loaded(f).sections = [k \in 1 .. n |-> LoadedSection(f, SectionEntry(f, k - 1))]
    BY <1>4, <1>5
  <2>3. \A k \in 1 .. n : LoadedSection(f, SectionEntry(f, k - 1)) = SectionMeant(img, k)
    BY <1>3
  <2> HIDE DEF n
  <2> QED BY <2>1, <2>2, <2>3
<1> QED BY <1>3, <1>6

\* Symbols are read back when each belongs to a section.
LEMMA SymbolsRead ==
    ASSUME NEW img, Storable(img), NEW f, f = Whole(serialize(img)),
           \A k \in 1 .. Len(img.symbols) : img.symbols[k].section + 1 \in 1 .. Len(img.sections)
    PROVE  Loaded(f) = Meaning(img)
<1>1. img \in TypedImages /\ HasLayout(img) /\ Faithful(img)
  BY DEF Storable
<1>2. f.words = serialize(img) /\ SameTables(img, f)
  BY <1>1, WholeFile
<1>3. ASSUME NEW k \in 1 .. Len(img.symbols)
      PROVE  LoadedSymbol(f, k - 1) = SymbolMeant(img, k)
  <2> DEFINE s == img.symbols[k]
             e == encode_symbol(s)
             i == s.section + 1
  <2>1. SymbolEntryOf(f, k - 1) = e
    BY <1>1, <1>2, TablesRead
  <2>2. /\ e[1] = s.identifier /\ e[2] = SymbolType[s.type] /\ e[3] = s.section
        /\ e[4] = s.offset
    BY <1>1, SymbolWords
  <2>3. i \in 1 .. Len(img.sections) /\ i - 1 = s.section /\ i \in DOMAIN img.sections
    <3>1. s.section \in Int
      BY <1>1, SymbolTypes
    <3>2. i \in 1 .. Len(img.sections)
      OBVIOUS
    <3>3. DOMAIN img.sections = 1 .. Len(img.sections)
      BY <1>1, ImageTypes
    <3> QED BY <3>1, <3>2, <3>3
  <2>4. SectionEntry(f, s.section) = encode_section(img.sections[i])
    <3>1. SectionEntry(f, i - 1) = encode_section(img.sections[i])
      BY <1>1, <1>2, <2>3, TablesRead
    <3> HIDE DEF i
    <3> QED BY <2>3, <3>1
  <2>5. VirtualAddress(SectionEntry(f, s.section)) = img.sections[i].virtual_address
    BY <1>1, <2>3, <2>4, SectionWords
  <2>6. LoadedSymbol(f, k - 1) =
          [identifier |-> e[1], type |-> e[2], section |-> e[3],
           address    |-> VirtualAddress(SectionEntry(f, e[3])) + e[4]]
    BY <2>1 DEF LoadedSymbol
  <2>7. SymbolMeant(img, k) =
          [identifier |-> s.identifier, type |-> SymbolType[s.type], section |-> s.section,
           address |-> img.sections[i].virtual_address + s.offset]
    BY <2>3 DEF SymbolMeant
  <2> HIDE DEF s, e, i
  <2> QED BY <2>2, <2>5, <2>6, <2>7
<1>4. Loaded(f).symbols = [k \in 1 .. header(f).symbol_count |-> LoadedSymbol(f, k - 1)]
  BY DEF Loaded
<1>5. header(f).symbol_count = Len(img.symbols) /\ header(f) = img.header
  BY <1>1, <1>2, TablesRead
<1>6. Loaded(f).symbols = Meaning(img).symbols
  <2> DEFINE n == Len(img.symbols)
  <2>1. Meaning(img).symbols = [k \in 1 .. n |-> SymbolMeant(img, k)]
    BY <1>1, MeaningParts
  <2>2. Loaded(f).symbols = [k \in 1 .. n |-> LoadedSymbol(f, k - 1)]
    BY <1>4, <1>5
  <2>3. \A k \in 1 .. n : LoadedSymbol(f, k - 1) = SymbolMeant(img, k)
    BY <1>3
  <2> HIDE DEF n
  <2> QED BY <2>1, <2>2, <2>3
<1>7. \A field \in LoadedHeader : Loaded(f)[field] = header(f)[field]
  BY DEF Loaded, LoadedHeader
<1>8. Loaded(f) = [field \in LoadedHeader \cup {"sections", "symbols"} |-> Loaded(f)[field]]
  BY DEF Loaded
<1>9. \A field \in LoadedHeader \cup {"sections", "symbols"} : Loaded(f)[field] = Meaning(img)[field]
  <2>1. ASSUME NEW field \in LoadedHeader PROVE Loaded(f)[field] = Meaning(img)[field]
    <3>1. Loaded(f)[field] = header(f)[field]
      BY <1>7
    <3>2. Meaning(img)[field] = img.header[field]
      BY <1>1, MeaningParts
    <3> QED BY <3>1, <3>2, <1>5
  <2>2. Loaded(f).sections = Meaning(img).sections
    BY SectionsRead
  <2> QED BY <1>6, <2>1, <2>2
<1> QED BY <1>1, <1>8, <1>9, MeaningParts


-----------------------------------------------------------------------------
(* A whole file loads exactly if its image is acceptable. *)

\* Every word of a file that was written is a word of the machine.
LEMMA WrittenWords ==
    ASSUME NEW img, Storable(img)
    PROVE  /\ \A i \in 1 .. FileLength(img) : serialize(img)[i] \in Word
           /\ \A k \in 1 .. Len(img.sections), j \in 1 .. 8 : encode_section(img.sections[k])[j] \in Word
           /\ \A k \in 1 .. Len(img.symbols), j \in 1 .. 6 : encode_symbol(img.symbols[k])[j] \in Word
<1> DEFINE w == serialize(img)
           l == FileLength(img)
           n == Len(img.sections)
           q == Len(img.symbols)
           p == PayloadAt(img)
           t == SymbolTableAt(img)
<1>1. img \in TypedImages /\ Serializable(img)
  BY DEF Storable
<1>2. w \in Seq(Int) /\ Len(w) = l /\ Tabulated(img, w)
  BY <1>1, SerializeFacts
<1>3. /\ n \in Nat /\ q \in Nat /\ t = 16 + 8 * n /\ p = t + 6 * q /\ p \in Nat /\ l \in Nat
  BY <1>1, ImageTypes, PayloadPlaces
<1>4. p <= l
  BY <1>1, WholeFile DEF SameTables
<1>5. \A i \in 1 .. l : w[i] \in Word
  <2>1. \A i \in DOMAIN w : Fits(w[i])
    BY <1>1 DEF Serializable
  <2> HIDE DEF w, l
  <2>2. DOMAIN w = 1 .. l /\ \A i \in 1 .. l : w[i] \in Int
    BY <1>2
  <2> QED BY <2>1, <2>2, MaxValue DEF Fits, Word
<1>6. ASSUME NEW k \in 1 .. n, NEW j \in 1 .. 8 PROVE encode_section(img.sections[k])[j] \in Word
  <2> DEFINE i == 16 + (8 * (k - 1) + j)
  <2>1. w[i] = encode_section(img.sections[k])[j]
    BY <1>2 DEF Tabulated
  <2>2. i \in 1 .. l
    <3> HIDE DEF n, l, p, q, t
    <3> QED BY <1>3, <1>4
  <2> HIDE DEF i
  <2> QED BY <1>5, <2>1, <2>2
<1>7. ASSUME NEW k \in 1 .. q, NEW j \in 1 .. 6 PROVE encode_symbol(img.symbols[k])[j] \in Word
  <2> DEFINE i == t + (6 * (k - 1) + j)
  <2>1. w[i] = encode_symbol(img.symbols[k])[j]
    BY <1>2 DEF Tabulated
  <2>2. i \in 1 .. l
    <3> HIDE DEF n, l, p, q, t
    <3> QED BY <1>3, <1>4
  <2> HIDE DEF i
  <2> QED BY <1>5, <2>1, <2>2
<1> QED BY <1>5, <1>6, <1>7

\* The tests of the file, each for an image that was written to its end.
StoredAs(img, f) == Storable(img) /\ f = Whole(serialize(img))

\* What is known of such a file.
LEMMA StoredFacts ==
    ASSUME NEW img, NEW f, StoredAs(img, f)
    PROVE  /\ img \in TypedImages /\ HasLayout(img) /\ Faithful(img) /\ Serializable(img)
           /\ f \in File /\ f.words = serialize(img) /\ f.whole = TRUE /\ SameTables(img, f)
           /\ Len(f.words) = FileLength(img) /\ FileLength(img) >= PayloadAt(img)
           /\ FileLength(img) \in Nat /\ PayloadAt(img) \in Nat
           /\ SectionsOf(f) = 0 .. Len(img.sections) - 1
           /\ SymbolsOf(f) = 0 .. Len(img.symbols) - 1
           /\ \A i \in SectionsOf(f) :
                 i + 1 \in 1 .. Len(img.sections)
                 /\ SectionEntry(f, i) = encode_section(img.sections[i + 1])
           /\ \A i \in SymbolsOf(f) :
                 i + 1 \in 1 .. Len(img.symbols)
                 /\ SymbolEntryOf(f, i) = encode_symbol(img.symbols[i + 1])
<1>1. /\ img \in TypedImages /\ HasLayout(img) /\ Faithful(img) /\ Serializable(img)
      /\ f = Whole(serialize(img))
  BY DEF StoredAs, Storable
<1>2. /\ f \in File /\ f.words = serialize(img) /\ f.whole = TRUE /\ SameTables(img, f)
      /\ Len(f.words) = FileLength(img)
  BY <1>1, WholeFile
<1>3. FileLength(img) >= PayloadAt(img) /\ FileLength(img) \in Nat /\ PayloadAt(img) \in Nat
  BY <1>1, <1>2, PayloadPlaces DEF SameTables
<1>4. SectionsOf(f) = 0 .. Len(img.sections) - 1 /\ SymbolsOf(f) = 0 .. Len(img.symbols) - 1
  BY <1>1, <1>2, TablesRead DEF SectionsOf, SymbolsOf
<1>5. Len(img.sections) \in Nat /\ Len(img.symbols) \in Nat
  BY <1>1, ImageTypes
<1>6. ASSUME NEW i \in SectionsOf(f)
      PROVE  i + 1 \in 1 .. Len(img.sections) /\ SectionEntry(f, i) = encode_section(img.sections[i + 1])
  <2> DEFINE k == i + 1
  <2>1. k \in 1 .. Len(img.sections) /\ k - 1 = i
    BY <1>4, <1>5
  <2> HIDE DEF k
  <2>2. SectionEntry(f, k - 1) = encode_section(img.sections[k])
    BY <1>1, <1>2, <2>1, TablesRead
  <2> QED BY <2>1, <2>2 DEF k
<1>7. ASSUME NEW i \in SymbolsOf(f)
      PROVE  i + 1 \in 1 .. Len(img.symbols) /\ SymbolEntryOf(f, i) = encode_symbol(img.symbols[i + 1])
  <2> DEFINE k == i + 1
  <2>1. k \in 1 .. Len(img.symbols) /\ k - 1 = i
    BY <1>4, <1>5
  <2> HIDE DEF k
  <2>2. SymbolEntryOf(f, k - 1) = encode_symbol(img.symbols[k])
    BY <1>1, <1>2, <2>1, TablesRead
  <2> QED BY <2>1, <2>2 DEF k
<1> QED BY <1>1, <1>2, <1>3, <1>4, <1>6, <1>7

\* Its header is valid if its versions are.
LEMMA StoredHeader ==
    ASSUME NEW img, NEW f, StoredAs(img, f)
    PROVE  /\ FileSizeOK(f)
           /\ ValidHeader(f) <=> /\ img.header.architecture_id = 1 /\ img.header.isa_version = 1
                                 /\ img.header.format_version = 1
<1>1. /\ img \in TypedImages /\ HasLayout(img) /\ f.words = serialize(img) /\ f.whole = TRUE
      /\ SameTables(img, f) /\ Len(f.words) = FileLength(img) /\ FileLength(img) >= PayloadAt(img)
      /\ FileLength(img) \in Nat /\ PayloadAt(img) \in Nat /\ PayloadAt(img) >= 16
  BY StoredFacts, PayloadPlaces
<1>2. FileSizeOK(f)
  BY <1>1 DEF FileSizeOK, HeaderWords
<1>3. \A k \in 1 .. HeaderWords : Decodes(f, k)
  <2>1. \A k \in 1 .. FileLength(img) : serialize(img)[k] \in Word
    BY WrittenWords DEF StoredAs
  <2> TAKE k \in 1 .. HeaderWords
  <2>2. k \in 1 .. FileLength(img)
    BY <1>1 DEF HeaderWords
  <2> QED BY <1>1, <2>1, <2>2 DEF Decodes
<1>4. /\ header(f) = img.header /\ MetadataEnd(f) = PayloadAt(img)
      /\ header(f).section_table = HeaderWords
      /\ header(f).section_count = Len(img.sections) /\ header(f).symbol_count = Len(img.symbols)
      /\ header(f).symbol_table = SymbolTableAt(img)
  BY <1>1, TablesRead
<1>5. /\ Len(img.sections) >= 0 /\ Len(img.symbols) >= 0
      /\ SymbolTableAt(img) = HeaderWords + SectionEntryWords * Len(img.sections)
  <2>1. Len(img.sections) \in Nat /\ Len(img.symbols) \in Nat
    BY <1>1, ImageTypes
  <2>2. SymbolTableAt(img) = 16 + 8 * Len(img.sections)
    BY <1>1, PayloadPlaces
  <2> QED BY <2>1, <2>2 DEF HeaderWords, SectionEntryWords
<1> QED BY <1>1, <1>2, <1>3, <1>4, <1>5 DEF ValidHeader

\* Its sections are valid if their alignments are.
LEMMA StoredSections ==
    ASSUME NEW img, NEW f, StoredAs(img, f)
    PROVE  (\A i \in SectionsOf(f) : ValidEntry(f, SectionEntry(f, i)))
               <=> \A k \in 1 .. Len(img.sections) : img.sections[k].alignment > 0
<1>1. /\ img \in TypedImages /\ HasLayout(img) /\ Faithful(img) /\ f.words = serialize(img)
      /\ SameTables(img, f) /\ Len(f.words) = FileLength(img)
      /\ FileLength(img) \in Nat /\ PayloadAt(img) \in Nat
      /\ SectionsOf(f) = 0 .. Len(img.sections) - 1
      /\ \A i \in SectionsOf(f) :
            i + 1 \in 1 .. Len(img.sections) /\ SectionEntry(f, i) = encode_section(img.sections[i + 1])
  BY StoredFacts
<1>2. MetadataEnd(f) = PayloadAt(img)
  BY <1>1, TablesRead
<1>3. ASSUME NEW k \in 1 .. Len(img.sections)
      PROVE  ValidEntry(f, encode_section(img.sections[k])) <=> img.sections[k].alignment > 0
  <2> DEFINE s == img.sections[k]
             e == encode_section(s)
  <2>1. /\ Type(e) = SectionType[s.type] /\ Flags(e) = FlagBits(s.flags)
        /\ FileOffset(e) = s.file_offset /\ Size(e) = s.size
        /\ VirtualAddress(e) = s.virtual_address /\ Alignment(e) = s.alignment
        /\ e[7] = 0 /\ e[8] = 0
    BY <1>1, SectionWords
  <2>2. s.type \in {"text", "data", "rodata", "bss"} /\ s.flags \subseteq {"Read", "Write", "Execute"}
    BY <1>1, SectionTypes
  <2>3. \A j \in 1 .. SectionEntryWords : e[j] \in Word
    BY WrittenWords DEF StoredAs, SectionEntryWords
  <2>4. Type(e) \in 0 .. 3 /\ Flags(e) \in 0 .. 7 /\ (Physical(e) <=> s.type # "bss")
    BY <2>1, <2>2, FlagsKept DEF SectionType, Physical
  <2>5. CASE s.type = "bss"
    <3>1. FileOffset(e) = 0
      <4>1. s.file_offset = 0
        BY <1>1, <2>5 DEF HasLayout, Lays
      <4> QED BY <4>1, <2>1
    <3>2. Size(e) >= 0
      <4>1. s.size = img.bss_size
        BY <1>1, <2>5, FaithfulFacts
      <4>2. img.bss_size \in Nat
        BY <1>1, ImageTypes
      <4> QED BY <4>1, <4>2, <2>1
    <3> HIDE DEF s, e
    <3>3. ValidEntry(f, e) <=> s.alignment > 0
      BY <3>1, <3>2, <2>1, <2>3, <2>4, <2>5 DEF ValidEntry
    <3> QED BY <3>3 DEF s, e
  <2>6. CASE s.type # "bss"
    <3>1. /\ s.size \in Nat /\ s.file_offset \in Int /\ s.file_offset >= PayloadAt(img)
          /\ s.file_offset + s.size <= FileLength(img)
      BY <1>1, <2>6, PayloadsPlaced
    <3>2. PayloadInside(f, e)
      <4>1. ASSUME NEW j \in FileOffset(e) + 1 .. FileOffset(e) + Size(e) PROVE Decodes(f, j)
        <5>1. j \in 1 .. FileLength(img)
          <6> HIDE DEF s, e
          <6> QED BY <3>1, <2>1, <1>1
        <5>2. serialize(img)[j] \in Word
          BY <5>1, WrittenWords DEF StoredAs
        <5> QED BY <5>2, <1>1 DEF Decodes
      <4> HIDE DEF s, e
      <4> QED BY <3>1, <4>1, <1>1, <1>2, <2>1 DEF PayloadInside
    <3> HIDE DEF s, e
    <3>3. ValidEntry(f, e) <=> s.alignment > 0
      BY <3>1, <3>2, <2>1, <2>3, <2>4, <2>6 DEF ValidEntry
    <3> QED BY <3>3 DEF s, e
  <2> QED BY <2>5, <2>6
<1>4. ASSUME \A i \in SectionsOf(f) : ValidEntry(f, SectionEntry(f, i)), NEW k \in 1 .. Len(img.sections)
      PROVE  img.sections[k].alignment > 0
  <2> DEFINE i == k - 1
  <2>1. i \in SectionsOf(f) /\ i + 1 = k
    BY <1>1, ImageTypes
  <2> HIDE DEF i
  <2>2. ValidEntry(f, encode_section(img.sections[k]))
    BY <1>1, <1>4, <2>1
  <2> QED BY <1>3, <2>2
<1>5. ASSUME \A k \in 1 .. Len(img.sections) : img.sections[k].alignment > 0, NEW i \in SectionsOf(f)
      PROVE  ValidEntry(f, SectionEntry(f, i))
  BY <1>1, <1>3, <1>5
<1> QED BY <1>4, <1>5

\* Its payloads are disjoint.
LEMMA StoredDisjoint ==
    ASSUME NEW img, NEW f, StoredAs(img, f)
    PROVE  PayloadsDisjoint(f)
<1>1. /\ img \in TypedImages /\ HasLayout(img) /\ Faithful(img)
      /\ \A i \in SectionsOf(f) :
            i + 1 \in 1 .. Len(img.sections) /\ SectionEntry(f, i) = encode_section(img.sections[i + 1])
      /\ SectionsOf(f) \subseteq Int
  <2>1. SectionsOf(f) = 0 .. Len(img.sections) - 1 /\ img \in TypedImages
    BY StoredFacts
  <2>2. SectionsOf(f) \subseteq Int
    BY <2>1, ImageTypes
  <2> QED BY <2>2, StoredFacts
<1> SUFFICES ASSUME NEW i \in SectionsOf(f), NEW j \in SectionsOf(f), i < j,
                    Physical(SectionEntry(f, i)), Physical(SectionEntry(f, j)),
                    Size(SectionEntry(f, i)) # 0, Size(SectionEntry(f, j)) # 0
             PROVE  ~(/\ FileOffset(SectionEntry(f, i)) < FileOffset(SectionEntry(f, j)) + Size(SectionEntry(f, j))
                      /\ FileOffset(SectionEntry(f, j)) < FileOffset(SectionEntry(f, i)) + Size(SectionEntry(f, i)))
  BY DEF PayloadsDisjoint
<1>2. ASSUME NEW g \in SectionsOf(f), Physical(SectionEntry(f, g)), Size(SectionEntry(f, g)) # 0
      PROVE  LET s == img.sections[g + 1]
             IN  /\ s.type \in Filed /\ s.type # "bss" /\ ~Empty(img, s.type)
                 /\ FileOffset(SectionEntry(f, g)) = PayloadStart(img, s.type)
                 /\ Size(SectionEntry(f, g)) = Len(Payload(img, s.type))
  <2> DEFINE s == img.sections[g + 1]
             e == encode_section(s)
  <2>1. SectionEntry(f, g) = e /\ g + 1 \in 1 .. Len(img.sections)
    BY <1>1
  <2>2. /\ Type(e) = SectionType[s.type] /\ FileOffset(e) = s.file_offset /\ Size(e) = s.size
    BY <1>1, <2>1, SectionWords
  <2>3. s.type # "bss"
    BY <1>2, <2>1, <2>2 DEF Physical
  <2>4. /\ s.type \in Filed /\ s.size = Len(Payload(img, s.type))
        /\ ~Empty(img, s.type) => s.file_offset = PayloadStart(img, s.type)
    BY <1>1, <2>1, <2>3, PayloadsPlaced
  <2>5. ~Empty(img, s.type)
    <3>1. Len(<< >>) = 0
      OBVIOUS
    <3> QED BY <1>2, <2>1, <2>2, <2>4, <3>1 DEF Empty
  <2> QED BY <2>1, <2>2, <2>3, <2>4, <2>5
<1> DEFINE s == img.sections[i + 1].type
           t == img.sections[j + 1].type
<1>3. /\ s \in Filed /\ s # "bss" /\ ~Empty(img, s) /\ t \in Filed /\ t # "bss" /\ ~Empty(img, t)
      /\ FileOffset(SectionEntry(f, i)) = PayloadStart(img, s) /\ Size(SectionEntry(f, i)) = Len(Payload(img, s))
      /\ FileOffset(SectionEntry(f, j)) = PayloadStart(img, t) /\ Size(SectionEntry(f, j)) = Len(Payload(img, t))
  BY <1>2
<1>4. SectionType[s] < SectionType[t]
  <2>1. i + 1 \in 1 .. Len(img.sections) /\ j + 1 \in 1 .. Len(img.sections) /\ i + 1 < j + 1
    BY <1>1
  <2> QED BY <1>1, <1>3, <2>1, FaithfulFacts
<1> HIDE DEF s, t
<1>5. PayloadStart(img, s) + Len(Payload(img, s)) <= PayloadStart(img, t)
  <2>1. SectionType["text"] = 0 /\ SectionType["data"] = 1 /\ SectionType["rodata"] = 2
    BY DEF SectionType
  <2>2. \/ s = "text" /\ t \in {"data", "rodata"}
        \/ s = "data" /\ t = "rodata"
    BY <1>3, <1>4, <2>1 DEF Filed
  <2>3. /\ Payload(img, "text") = img.text /\ Payload(img, "data") = img.data
        /\ PayloadStart(img, "text") = PayloadAt(img) /\ PayloadStart(img, "data") = PayloadAt(img) + Len(img.text)
        /\ PayloadStart(img, "rodata") = PayloadAt(img) + Len(img.text) + Len(img.data)
    BY DEF Payload, PayloadStart
  <2>4. PayloadAt(img) \in Nat /\ Len(img.text) \in Nat /\ Len(img.data) \in Nat
    BY <1>1, <2>3, PayloadPlaces DEF Filed
  <2> QED BY <2>2, <2>3, <2>4
<1>6. /\ PayloadStart(img, s) \in Int /\ PayloadStart(img, t) \in Int
      /\ Len(Payload(img, s)) \in Int /\ Len(Payload(img, t)) \in Int
  BY <1>1, <1>3, PayloadPlaces
<1> QED BY <1>3, <1>5, <1>6


\* What the k-th symbol has to be.
SymbolAccepted(img, k) ==
    /\ img.symbols[k].identifier = k - 1
    /\ img.symbols[k].section + 1 \in 1 .. Len(img.sections)
    /\ img.symbols[k].offset >= 0
    /\ img.symbols[k].offset < img.sections[img.symbols[k].section + 1].size

\* Its symbols are valid if they count up and lie inside their sections.
LEMMA StoredSymbols ==
    ASSUME NEW img, NEW f, StoredAs(img, f)
    PROVE  (\A i \in SymbolsOf(f) : ValidSymbol(f, i))
               <=> \A k \in 1 .. Len(img.symbols) : SymbolAccepted(img, k)
<1>1. /\ img \in TypedImages
      /\ SectionsOf(f) = 0 .. Len(img.sections) - 1
      /\ SymbolsOf(f) = 0 .. Len(img.symbols) - 1
      /\ \A i \in SectionsOf(f) :
            i + 1 \in 1 .. Len(img.sections) /\ SectionEntry(f, i) = encode_section(img.sections[i + 1])
      /\ \A i \in SymbolsOf(f) :
            i + 1 \in 1 .. Len(img.symbols) /\ SymbolEntryOf(f, i) = encode_symbol(img.symbols[i + 1])
      /\ Len(img.sections) \in Nat /\ Len(img.symbols) \in Nat
  BY StoredFacts, ImageTypes
<1>2. ASSUME NEW i \in SymbolsOf(f) PROVE ValidSymbol(f, i) <=> SymbolAccepted(img, i + 1)
  <2> DEFINE k == i + 1
             s == img.symbols[k]
             e == encode_symbol(s)
             z == img.sections[s.section + 1].size
  <2>1. k \in 1 .. Len(img.symbols) /\ SymbolEntryOf(f, i) = e /\ i = k - 1
    BY <1>1
  <2>2. /\ e[1] = s.identifier /\ e[2] = SymbolType[s.type] /\ e[3] = s.section
        /\ e[4] = s.offset /\ e[5] = SymbolVisibility[s.visibility] /\ e[6] = 0
    BY <1>1, <2>1, SymbolWords
  <2>3. e[2] \in 0 .. 2 /\ e[5] \in {0, 1} /\ s.section \in Int
    <3>1. /\ s.type \in {"Local", "Global", "Entry"} /\ s.visibility \in {"Local", "Global"}
          /\ s.section \in Int
      BY <1>1, <2>1, SymbolTypes
    <3> HIDE DEF s, e
    <3>2. SymbolType[s.type] \in 0 .. 2
      BY <3>1 DEF SymbolType
    <3>3. SymbolVisibility[s.visibility] \in {0, 1}
      BY <3>1 DEF SymbolVisibility
    <3> QED BY <2>2, <3>1, <3>2, <3>3
  <2>4. \A j \in 1 .. SymbolEntryWords : e[j] \in Word
    BY <2>1, WrittenWords DEF StoredAs, SymbolEntryWords
  <2>5. s.section \in SectionsOf(f) <=> s.section + 1 \in 1 .. Len(img.sections)
    BY <1>1, <2>3
  <2>6. s.section \in SectionsOf(f) => Size(SectionEntry(f, s.section)) = z
    BY <1>1, SectionWords
  <2>7. SymbolAccepted(img, k) <=> /\ s.identifier = i /\ s.section + 1 \in 1 .. Len(img.sections)
                                   /\ s.offset >= 0 /\ s.offset < z
    BY <2>1 DEF SymbolAccepted
  <2> HIDE DEF s, e, z
  <2>8. ValidSymbol(f, i) <=> /\ s.identifier = i /\ s.section \in SectionsOf(f)
                              /\ s.offset >= 0 /\ s.offset < Size(SectionEntry(f, s.section))
    BY <2>1, <2>2, <2>3, <2>4 DEF ValidSymbol, OffsetInside
  <2> QED BY <2>5, <2>6, <2>7, <2>8
<1>3. ASSUME \A i \in SymbolsOf(f) : ValidSymbol(f, i), NEW k \in 1 .. Len(img.symbols)
      PROVE  SymbolAccepted(img, k)
  <2> DEFINE i == k - 1
  <2>1. i \in SymbolsOf(f) /\ i + 1 = k
    BY <1>1
  <2> HIDE DEF i
  <2>2. SymbolAccepted(img, i + 1)
    BY <1>2, <1>3, <2>1
  <2> QED BY <2>1, <2>2
<1>4. ASSUME \A k \in 1 .. Len(img.symbols) : SymbolAccepted(img, k), NEW i \in SymbolsOf(f)
      PROVE  ValidSymbol(f, i)
  BY <1>1, <1>2, <1>4
<1> QED BY <1>3, <1>4

\* Its start symbol is none or an entry.
LEMMA StoredStart ==
    ASSUME NEW img, NEW f, StoredAs(img, f)
    PROVE  ValidStartSymbol(f) <=>
             \/ img.header.start_symbol = -1
             \/ /\ img.header.start_symbol + 1 \in 1 .. Len(img.symbols)
                /\ SymbolType[img.symbols[img.header.start_symbol + 1].type] = SymbolType.Entry
<1> DEFINE a == img.header.start_symbol
           q == Len(img.symbols)
<1>1. /\ img \in TypedImages /\ HasLayout(img) /\ SameTables(img, f)
      /\ SymbolsOf(f) = 0 .. q - 1 /\ q \in Nat
      /\ \A i \in SymbolsOf(f) :
            i + 1 \in 1 .. q /\ SymbolEntryOf(f, i) = encode_symbol(img.symbols[i + 1])
  BY StoredFacts, ImageTypes
<1>2. header(f).start_symbol = a /\ a \in Int
  <2>1. "start_symbol" \in DOMAIN NewHeader
    BY DEF NewHeader
  <2> QED BY <1>1, <2>1, TablesRead, ImageTypes
<1>3. a \in SymbolsOf(f) => SymbolEntryOf(f, a)[2] = SymbolType[img.symbols[a + 1].type]
  BY <1>1, SymbolWords
<1>4. a \in SymbolsOf(f) <=> a + 1 \in 1 .. q
  <2> HIDE DEF a, q
  <2> QED BY <1>1, <1>2
<1> HIDE DEF a, q
<1>5. a \in SymbolsOf(f) => a >= 0
  BY <1>1, <1>2
<1>6. ValidStartSymbol(f) <=> a >= -1 /\ (a >= 0 => a \in SymbolsOf(f) /\ SymbolEntryOf(f, a)[2] = SymbolType.Entry)
  BY <1>2 DEF ValidStartSymbol
<1>7. ValidStartSymbol(f) <=> \/ a = -1
                              \/ a + 1 \in 1 .. q /\ SymbolType[img.symbols[a + 1].type] = SymbolType.Entry
  BY <1>2, <1>3, <1>4, <1>5, <1>6
<1> QED BY <1>7 DEF a, q

\* Its sections are in memory if they are in the memory of the image.
LEMMA StoredMemory ==
    ASSUME NEW img, NEW f, StoredAs(img, f)
    PROVE  InsideMemory(f) <=>
             /\ img.header.memory_size >= 0
             /\ \A k \in 1 .. Len(img.sections) :
                   /\ img.sections[k].virtual_address >= img.header.memory_base
                   /\ img.sections[k].virtual_address + img.sections[k].size
                         <= img.header.memory_base + img.header.memory_size
<1> DEFINE In(k) == /\ img.sections[k].virtual_address >= img.header.memory_base
                    /\ img.sections[k].virtual_address + img.sections[k].size
                          <= img.header.memory_base + img.header.memory_size
<1>1. /\ img \in TypedImages /\ HasLayout(img) /\ SameTables(img, f)
      /\ SectionsOf(f) = 0 .. Len(img.sections) - 1 /\ Len(img.sections) \in Nat
      /\ \A i \in SectionsOf(f) :
            i + 1 \in 1 .. Len(img.sections) /\ SectionEntry(f, i) = encode_section(img.sections[i + 1])
  BY StoredFacts, ImageTypes
<1>2. header(f) = img.header
  BY <1>1, TablesRead
<1>3. ASSUME NEW i \in SectionsOf(f)
      PROVE  In(i + 1) <=> /\ VirtualAddress(SectionEntry(f, i)) >= img.header.memory_base
                           /\ VirtualAddress(SectionEntry(f, i)) + Size(SectionEntry(f, i))
                                 <= img.header.memory_base + img.header.memory_size
  BY <1>1, SectionWords
<1>4. InsideMemory(f) <=> img.header.memory_size >= 0 /\ \A i \in SectionsOf(f) : In(i + 1)
  <2> HIDE DEF In
  <2> QED BY <1>2, <1>3 DEF InsideMemory
<1>5. (\A i \in SectionsOf(f) : In(i + 1)) <=> \A k \in 1 .. Len(img.sections) : In(k)
  <2> HIDE DEF In
  <2>1. ASSUME \A i \in SectionsOf(f) : In(i + 1), NEW k \in 1 .. Len(img.sections) PROVE In(k)
    <3> DEFINE i == k - 1
    <3>1. i \in SectionsOf(f) /\ i + 1 = k
      BY <1>1
    <3> HIDE DEF i
    <3> QED BY <2>1, <3>1
  <2>2. ASSUME \A k \in 1 .. Len(img.sections) : In(k), NEW i \in SectionsOf(f) PROVE In(i + 1)
    BY <1>1, <2>2
  <2> QED BY <2>1, <2>2
<1> QED BY <1>4, <1>5

\* The .text section of what an image means is one of its sections.
LEMMA TextMeant ==
    ASSUME NEW img \in TypedImages, has_section(Meaning(img), "Text")
    PROVE  \E k \in 1 .. Len(img.sections) : text(Meaning(img)) = SectionMeant(img, k)
<1> DEFINE m == Meaning(img)
           n == Len(img.sections)
           T == {k \in 1 .. n : m.sections[k].type = "Text"}
<1>1. m.sections = [k \in 1 .. n |-> SectionMeant(img, k)] /\ n \in Nat
  BY MeaningParts, ImageTypes
<1>2. DOMAIN m.sections = 1 .. n /\ \A k \in 1 .. n : m.sections[k] = SectionMeant(img, k)
  BY <1>1
<1> HIDE DEF m, n
<1>3. T # {} /\ T \in SUBSET Nat
  BY <1>2 DEF has_section, m
<1>4. PICK k \in T : \A j \in T : k <= j
  <2> HIDE DEF T
  <2> QED BY <1>3, Least
<1>5. \A q \in 1 .. k - 1 : m.sections[q].type # "Text"
  <2> TAKE q \in 1 .. k - 1
  <2>1. q \in 1 .. n /\ ~(k <= q)
    BY <1>1
  <2> QED BY <1>4, <2>1
<1>6. text(m) \in {m.sections[q] : q \in 1 .. n}
  <2>1. k \in DOMAIN m.sections /\ m.sections[k].type = "Text"
    BY <1>2
  <2>2. (CHOOSE q \in DOMAIN m.sections :
            /\ m.sections[q].type = "Text"
            /\ \A r \in 1 .. q - 1 : m.sections[r].type # "Text") \in DOMAIN m.sections
    BY <2>1, <1>5
  <2> QED BY <1>2, <2>2 DEF text
<1> QED BY <1>2, <1>6 DEF m, n

\* Its entry is valid if it is in the .text of what the image means.
LEMMA StoredEntry ==
    ASSUME NEW img, NEW f, StoredAs(img, f)
    PROVE  has_section(Loaded(f), "Text") /\ is_valid_entry_point(Loaded(f)) <=>
             /\ has_section(Meaning(img), "Text")
             /\ Meaning(img).entry_point \in Extent(text(Meaning(img)))
<1> DEFINE m == Meaning(img)
           l == Loaded(f)
           t == text(m)
<1>1. img \in TypedImages /\ HasLayout(img) /\ SameTables(img, f) /\ Faithful(img)
  BY StoredFacts
<1>2. l.sections = m.sections
  BY SectionsRead DEF StoredAs
<1>3. l.entry_point = img.header.entry_point /\ m.entry_point = img.header.entry_point
  <2>1. header(f) = img.header
    BY <1>1, TablesRead
  <2>2. l.entry_point = header(f).entry_point
    BY DEF Loaded, LoadedHeader
  <2>3. "entry_point" \in LoadedHeader
    BY DEF LoadedHeader
  <2> QED BY <1>1, <2>1, <2>2, <2>3, MeaningParts
<1>4. img.header.entry_point \in Int
  <2>1. "entry_point" \in DOMAIN NewHeader
    BY DEF NewHeader
  <2> QED BY <1>1, <2>1, ImageTypes
<1>5. has_section(l, "Text") <=> has_section(m, "Text")
  BY <1>2 DEF has_section
<1>6. text(l) = t
  BY <1>2 DEF text
<1>7. ASSUME has_section(m, "Text")
      PROVE  is_valid_entry_point(l) <=> m.entry_point \in Extent(t)
  <2>1. PICK k \in 1 .. Len(img.sections) : t = SectionMeant(img, k)
    BY <1>1, <1>7, TextMeant
  <2>2. t.virtual_address \in Int /\ t.memory_size \in Int
    <3>1. img.sections[k].virtual_address \in Int
      BY <1>1, SectionTypes
    <3>2. SizeOf(img, img.sections[k].type) = img.sections[k].size /\ img.sections[k].size \in Int
      BY <1>1, FaithfulFacts, SectionTypes DEF SizeOf
    <3> QED BY <2>1, <3>1, <3>2 DEF SectionMeant
  <2> HIDE DEF t, l, m
  <2> QED BY <1>3, <1>4, <1>6, <2>2 DEF is_valid_entry_point, Extent
<1> QED BY <1>5, <1>7


\* A whole file loads exactly if its image is acceptable, and then it is what was written.
LEMMA LoadsIffAcceptable ==
    ASSUME NEW img, NEW f, StoredAs(img, f)
    PROVE  /\ Loads(f) <=> Acceptable(Meaning(img))
           /\ Loads(f) => Loaded(f) = Meaning(img)
<1> DEFINE m == Meaning(img)
           h == img.header
           n == Len(img.sections)
           q == Len(img.symbols)
           versions == h.architecture_id = 1 /\ h.isa_version = 1 /\ h.format_version = 1
           entry == has_section(m, "Text") /\ m.entry_point \in Extent(text(m))
           aligned == \A k \in 1 .. n : img.sections[k].alignment > 0
           inside == \A k \in 1 .. n :
                       /\ img.sections[k].virtual_address >= h.memory_base
                       /\ img.sections[k].virtual_address + img.sections[k].size
                             <= h.memory_base + h.memory_size
           named == \A k \in 1 .. q : SymbolAccepted(img, k)
           starts == \/ h.start_symbol = -1
                     \/ /\ h.start_symbol + 1 \in 1 .. q
                        /\ SymbolType[img.symbols[h.start_symbol + 1].type] = SymbolType.Entry
<1>1. img \in TypedImages /\ HasLayout(img) /\ SameTables(img, f) /\ Faithful(img)
  BY StoredFacts
<1>2. Loads(f) <=> versions /\ aligned /\ named /\ starts /\ (h.memory_size >= 0 /\ inside) /\ entry
  <2>1. FileSizeOK(f) /\ (ValidHeader(f) <=> versions)
    BY StoredHeader
  <2>2. (\A i \in SectionsOf(f) : ValidEntry(f, SectionEntry(f, i))) <=> aligned
    BY StoredSections
  <2>3. PayloadsDisjoint(f)
    BY StoredDisjoint
  <2>4. (\A i \in SymbolsOf(f) : ValidSymbol(f, i)) <=> named
    BY StoredSymbols
  <2>5. ValidStartSymbol(f) <=> starts
    BY StoredStart
  <2>6. InsideMemory(f) <=> h.memory_size >= 0 /\ inside
    BY StoredMemory
  <2>7. has_section(Loaded(f), "Text") /\ is_valid_entry_point(Loaded(f)) <=> entry
    BY StoredEntry
  <2> HIDE DEF versions, aligned, named, starts, inside, entry, h
  <2> QED BY <2>1, <2>2, <2>3, <2>4, <2>5, <2>6, <2>7 DEF Loads
<1>3. /\ m.sections = [k \in 1 .. n |-> SectionMeant(img, k)]
      /\ m.symbols = [k \in 1 .. q |-> SymbolMeant(img, k)]
      /\ \A field \in LoadedHeader : m[field] = h[field]
  BY <1>1, MeaningParts
<1>4. /\ m.architecture_id = h.architecture_id /\ m.isa_version = h.isa_version
      /\ m.format_version = h.format_version /\ m.start_symbol = h.start_symbol
      /\ m.memory_base = h.memory_base /\ m.memory_size = h.memory_size
  BY <1>3 DEF LoadedHeader
<1>5. /\ DOMAIN m.sections = 1 .. n /\ \A k \in 1 .. n : m.sections[k] = SectionMeant(img, k)
      /\ DOMAIN m.symbols = 1 .. q /\ \A k \in 1 .. q : m.symbols[k] = SymbolMeant(img, k)
  BY <1>3
<1>6. \A k \in 1 .. n : /\ m.sections[k].alignment = img.sections[k].alignment
                        /\ m.sections[k].virtual_address = img.sections[k].virtual_address
                        /\ m.sections[k].memory_size = img.sections[k].size
                        /\ img.sections[k].size \in Int /\ img.sections[k].virtual_address \in Int
  <2> TAKE k \in 1 .. n
  <2>1. img.sections[k].size = SizeOf(img, img.sections[k].type)
    BY <1>1, FaithfulFacts DEF SizeOf
  <2>2. img.sections[k].size \in Int /\ img.sections[k].virtual_address \in Int
    BY <1>1, SectionTypes
  <2>3. m.sections[k] = SectionMeant(img, k)
    BY <1>5
  <2> HIDE DEF m
  <2> QED BY <2>1, <2>2, <2>3, MeantFields
<1>7. ASSUME NEW k \in 1 .. q
      PROVE  SymbolAccepted(img, k) <=>
                /\ m.symbols[k].identifier = k - 1
                /\ m.symbols[k].section + 1 \in DOMAIN m.sections
                /\ m.symbols[k].address \in Extent(m.sections[m.symbols[k].section + 1])
  <2> DEFINE s == img.symbols[k]
             g == s.section + 1
             x == m.sections[g]
  <2>0. m.symbols[k] = SymbolMeant(img, k)
    BY <1>5
  <2>1. m.symbols[k].identifier = s.identifier /\ m.symbols[k].section = s.section
    <3> HIDE DEF m
    <3> QED BY <2>0, MeantFields
  <2>2. g \in DOMAIN m.sections <=> g \in 1 .. n
    BY <1>5
  <2>3. DOMAIN img.sections = 1 .. n
    BY <1>1, ImageTypes
  <2>4. ASSUME g \in 1 .. n
        PROVE  s.offset >= 0 /\ s.offset < img.sections[g].size <=> m.symbols[k].address \in Extent(x)
    <3>1. m.symbols[k].address = img.sections[g].virtual_address + s.offset
      <4> HIDE DEF m
      <4> QED BY <2>0, <2>3, <2>4, MeantFields
    <3>2. /\ x.virtual_address = img.sections[g].virtual_address /\ x.memory_size = img.sections[g].size
          /\ img.sections[g].size \in Int /\ img.sections[g].virtual_address \in Int
      BY <1>6, <2>4
    <3>3. s.offset \in Int
      BY <1>1, SymbolTypes
    <3> HIDE DEF s, g, x, m
    <3> QED BY <3>1, <3>2, <3>3 DEF Extent
  <2>5. SymbolAccepted(img, k) <=> s.identifier = k - 1 /\ g \in 1 .. n /\ s.offset >= 0 /\ s.offset < img.sections[g].size
    BY DEF SymbolAccepted
  <2>6. Extent(m.sections[m.symbols[k].section + 1]) = Extent(x)
    BY <2>1
  <2> HIDE DEF s, x, m
  <2> QED BY <2>1, <2>2, <2>4, <2>5, <2>6
<1>8. named <=> \A k \in DOMAIN m.symbols :
                   /\ m.symbols[k].identifier = k - 1
                   /\ m.symbols[k].section + 1 \in DOMAIN m.sections
                   /\ m.symbols[k].address \in Extent(m.sections[m.symbols[k].section + 1])
  <2> HIDE DEF m, q
  <2> QED BY <1>5, <1>7
<1>9. starts <=> \/ m.start_symbol = -1
                 \/ /\ m.start_symbol + 1 \in DOMAIN m.symbols
                    /\ m.symbols[m.start_symbol + 1].type = SymbolType.Entry
  <2> DEFINE a == h.start_symbol + 1
  <2>1. a \in 1 .. q => m.symbols[a].type = SymbolType[img.symbols[a].type]
    <3> HIDE DEF m, a
    <3> QED BY <1>5, MeantFields
  <2>2. m.start_symbol + 1 = a /\ m.start_symbol = h.start_symbol
    BY <1>4
  <2> HIDE DEF a, m, q
  <2>3. DOMAIN m.symbols = 1 .. q
    BY <1>5
  <2>4. starts <=> \/ h.start_symbol = -1
                   \/ a \in 1 .. q /\ SymbolType[img.symbols[a].type] = SymbolType.Entry
    BY DEF a
  <2> HIDE DEF starts, h
  <2> QED BY <2>1, <2>2, <2>3, <2>4
<1>10. aligned /\ inside <=>
         \A k \in DOMAIN m.sections :
            /\ m.sections[k].alignment > 0
            /\ m.sections[k].virtual_address >= m.memory_base
            /\ m.sections[k].virtual_address + m.sections[k].memory_size
                  <= m.memory_base + m.memory_size
  <2>1. DOMAIN m.sections = 1 .. n
    BY <1>5
  <2>2. ASSUME NEW k \in 1 .. n
        PROVE  /\ m.sections[k].alignment > 0
               /\ m.sections[k].virtual_address >= m.memory_base
               /\ m.sections[k].virtual_address + m.sections[k].memory_size
                     <= m.memory_base + m.memory_size
               <=> /\ img.sections[k].alignment > 0
                   /\ img.sections[k].virtual_address >= h.memory_base
                   /\ img.sections[k].virtual_address + img.sections[k].size
                         <= h.memory_base + h.memory_size
    <3> HIDE DEF m, n, h
    <3> QED BY <1>4, <1>6
  <2> HIDE DEF m, n, h
  <2> QED BY <2>1, <2>2
<1>11. versions <=> m.architecture_id = 1 /\ m.isa_version = 1 /\ m.format_version = 1
  BY <1>4
<1>12. h.memory_size >= 0 <=> m.memory_size >= 0
  BY <1>4
<1>13. Loads(f) <=> Acceptable(m)
  <2> HIDE DEF m, versions, aligned, named, starts, inside, h, n, q
  <2> QED BY <1>2, <1>8, <1>9, <1>10, <1>11, <1>12 DEF Acceptable
<1>14. ASSUME Loads(f) PROVE Loaded(f) = m
  <2>1. named
    <3> HIDE DEF m, versions, aligned, named, starts, inside, h, n, q
    <3> QED BY <1>2, <1>14
  <2>2. \A k \in 1 .. Len(img.symbols) : img.symbols[k].section + 1 \in 1 .. Len(img.sections)
    BY <2>1 DEF SymbolAccepted
  <2> QED BY <2>2, SymbolsRead DEF StoredAs
<1> QED BY <1>13, <1>14

-----------------------------------------------------------------------------
(* A file that was not written to its end does not load. *)

\* A payload that is not empty ends the file.
LEMMA LastPayload ==
    ASSUME NEW img \in TypedImages, Faithful(img), HasLayout(img), PayloadAt(img) < FileLength(img)
    PROVE  \E k \in 1 .. Len(img.sections) :
              /\ img.sections[k].type # "bss"
              /\ img.sections[k].file_offset + img.sections[k].size = FileLength(img)
<1>1. /\ Payload(img, "text") = img.text /\ Payload(img, "data") = img.data
      /\ Payload(img, "rodata") = img.rodata
  BY DEF Payload
<1>2. /\ img.text \in Seq(Int) /\ img.data \in Seq(Int) /\ img.rodata \in Seq(Int)
      /\ Len(img.text) \in Nat /\ Len(img.data) \in Nat /\ Len(img.rodata) \in Nat
      /\ PayloadAt(img) \in Nat
  BY ImageTypes, PayloadPlaces
<1>3. ASSUME NEW type \in Filed, ~Empty(img, type), PayloadStart(img, type) + Len(Payload(img, type)) = FileLength(img)
      PROVE  \E k \in 1 .. Len(img.sections) :
                /\ img.sections[k].type # "bss"
                /\ img.sections[k].file_offset + img.sections[k].size = FileLength(img)
  <2>1. PICK k \in 1 .. Len(img.sections) : img.sections[k].type = type
    BY <1>3, FaithfulFacts
  <2>2. img.sections[k].type # "bss"
    BY <2>1 DEF Filed
  <2>3. /\ img.sections[k].size = Len(Payload(img, type))
        /\ img.sections[k].file_offset = PayloadStart(img, type)
    BY <1>3, <2>1, <2>2, PayloadsPlaced
  <2> QED BY <1>3, <2>2, <2>3
<1>4. CASE img.rodata # << >>
  <2>1. PayloadStart(img, "rodata") + Len(Payload(img, "rodata")) = FileLength(img)
    BY <1>1, <1>2 DEF PayloadStart, FileLength
  <2> QED BY <1>1, <1>3, <1>4, <2>1 DEF Filed, Empty
<1>5. CASE img.rodata = << >> /\ img.data # << >>
  <2>1. Len(img.rodata) = 0
    BY <1>5
  <2>2. PayloadStart(img, "data") + Len(Payload(img, "data")) = FileLength(img)
    BY <1>1, <1>2, <2>1 DEF PayloadStart, FileLength
  <2> QED BY <1>1, <1>3, <1>5, <2>2 DEF Filed, Empty
<1>6. CASE img.rodata = << >> /\ img.data = << >>
  <2>1. Len(img.rodata) = 0 /\ Len(img.data) = 0
    BY <1>6
  <2>2. PayloadStart(img, "text") + Len(Payload(img, "text")) = FileLength(img)
    BY <1>1, <1>2, <2>1 DEF PayloadStart, FileLength
  <2>3. img.text # << >>
    <3>1. Len(img.text) # 0
      BY <1>2, <2>1 DEF FileLength
    <3>2. Len(<< >>) = 0
      OBVIOUS
    <3> QED BY <3>1, <3>2
  <2> QED BY <1>1, <1>3, <2>2, <2>3 DEF Filed, Empty
<1> QED BY <1>4, <1>5, <1>6

\* The first words of a file, or all of them and a part of one more.
LEMMA CutFile ==
    ASSUME NEW img, Storable(img), NEW n \in 0 .. FileLength(img) - 1, NEW b \in BOOLEAN,
           NEW f, f = [words |-> SubSeq(serialize(img), 1, n), whole |-> b]
    PROVE  f \in File /\ ~Loads(f)
<1> DEFINE w == serialize(img)
           p == PayloadAt(img)
<1>1. img \in TypedImages /\ HasLayout(img) /\ Faithful(img)
  BY DEF Storable
<1>2. w \in Seq(Int) /\ Len(w) = FileLength(img) /\ FileLength(img) \in Nat /\ p \in Nat /\ p >= 16
  BY <1>1, SerializeFacts, PayloadPlaces
<1>3. f.words \in Seq(Int) /\ Len(f.words) = n /\ \A i \in 1 .. n : f.words[i] = w[i]
  <2>1. \A i \in 1 .. n : w[i] \in Int
    <3> TAKE i \in 1 .. n
    <3>1. i \in 1 .. Len(w)
      BY <1>2
    <3> HIDE DEF w
    <3> QED BY <1>2, <3>1, ElementOfSeq
  <2>2. f.words = SubSeq(w, 1, n)
    OBVIOUS
  <2> HIDE DEF w
  <2>3. /\ SubSeq(w, 1, n) \in Seq(Int) /\ Len(SubSeq(w, 1, n)) = IF 1 <= n THEN n - 1 + 1 ELSE 0
        /\ \A i \in 1 .. n - 1 + 1 : SubSeq(w, 1, n)[i] = w[1 + i - 1]
    BY <2>1, SubSeqProperties
  <2>4. \A i \in 1 .. n : SubSeq(w, 1, n)[i] = w[i]
    <3> TAKE i \in 1 .. n
    <3>1. i \in 1 .. n - 1 + 1 /\ 1 + i - 1 = i
      OBVIOUS
    <3> QED BY <2>3, <3>1
  <2>5. Len(SubSeq(w, 1, n)) = n
    BY <2>3
  <2> QED BY <2>2, <2>3, <2>4, <2>5
<1>4. f \in File
  <2>1. f = [words |-> f.words, whole |-> b]
    OBVIOUS
  <2> QED BY <1>3, <2>1 DEF File
<1>5. SUFFICES ASSUME Loads(f) PROVE FALSE
  BY <1>4
<1> HIDE DEF w, p
<1>6. Len(f.words) >= 16 /\ ValidHeader(f)
  BY <1>5 DEF Loads, FileSizeOK, HeaderWords
<1>7. header(f) = img.header
  <2>1. \A i \in 1 .. 16 : f.words[i] = serialize(img)[i]
    BY <1>2, <1>3, <1>6 DEF w
  <2> QED BY <1>1, <2>1, HeaderRead
<1>8. MetadataEnd(f) = p
  <2> DEFINE m == Len(img.symbols)
  <2>1. MetadataEnd(f) = SymbolTableAt(img) + 6 * m
    BY <1>1, <1>7 DEF MetadataEnd, SymbolEntryAt, SymbolEntryWords, HasLayout, Lays
  <2>2. p = SymbolTableAt(img) + 6 * m
    BY <1>1, PayloadPlaces DEF p
  <2> HIDE DEF m
  <2> QED BY <2>1, <2>2
<1>9. n >= p
  BY <1>3, <1>6, <1>8 DEF ValidHeader
<1>10. SameTables(img, f)
  <2>1. \A i \in 1 .. p : f.words[i] = w[i]
    BY <1>2, <1>3, <1>9
  <2> QED BY <1>3, <1>4, <1>9, <2>1 DEF SameTables, p, w
<1>11. PICK k \in 1 .. Len(img.sections) :
          /\ img.sections[k].type # "bss"
          /\ img.sections[k].file_offset + img.sections[k].size = FileLength(img)
  <2>1. PayloadAt(img) < FileLength(img)
    BY <1>2, <1>9 DEF p
  <2> QED BY <1>1, <2>1, LastPayload
<1> DEFINE e == encode_section(img.sections[k])
<1>12. SectionEntry(f, k - 1) = e
  BY <1>1, <1>10, TablesRead
<1>13. ValidEntry(f, e)
  <2>1. header(f).section_count = Len(img.sections)
    BY <1>1, <1>10, TablesRead
  <2>2. k - 1 \in SectionsOf(f)
    BY <1>1, <2>1, ImageTypes DEF SectionsOf
  <2>3. ValidEntry(f, SectionEntry(f, k - 1))
    BY <1>5, <2>2 DEF Loads
  <2> HIDE DEF e
  <2> QED BY <1>12, <2>3
<1>14. /\ Type(e) = SectionType[img.sections[k].type]
       /\ FileOffset(e) = img.sections[k].file_offset /\ Size(e) = img.sections[k].size
  BY <1>1, SectionWords
<1>15. Physical(e)
  <2>1. img.sections[k].type \in {"text", "data", "rodata"}
    BY <1>1, <1>11, SectionTypes
  <2> QED BY <1>14, <2>1 DEF Physical, SectionType
<1> HIDE DEF e
<1>16. FileOffset(e) + Size(e) <= Len(f.words)
  BY <1>13, <1>15 DEF ValidEntry, PayloadInside
<1> QED BY <1>2, <1>3, <1>11, <1>14, <1>16

\* The empty file does not load.
LEMMA NothingLoads == EmptyFile \in File /\ ~Loads(EmptyFile)
<1>1. Len(<< >>) = 0 /\ << >> \in Seq(Int)
  OBVIOUS
<1>2. EmptyFile.words = << >>
  BY DEF EmptyFile, Whole
<1>3. ~Loads(EmptyFile)
  BY <1>1, <1>2 DEF Loads, FileSizeOK, HeaderWords
<1>4. EmptyFile \in File
  BY <1>1 DEF EmptyFile, Whole, File
<1> QED BY <1>3, <1>4

-----------------------------------------------------------------------------
(* Sequences. *)

IsSequence(s) == s \in Seq({s[i] : i \in DOMAIN s})

\* A sequence over some set is one over its own values.
LEMMA InSeq ==
    ASSUME NEW S, NEW s \in Seq(S)
    PROVE  IsSequence(s)
<1>1. DOMAIN s = 1 .. Len(s) /\ Len(s) \in Nat /\ \A i \in 1 .. Len(s) : s[i] \in S
  OBVIOUS
<1> DEFINE R == {s[i] : i \in DOMAIN s}
<1>2. \A i \in 1 .. Len(s) : s[i] \in R
  BY <1>1
<1>3. s = [i \in 1 .. Len(s) |-> s[i]]
  OBVIOUS
<1> HIDE DEF R
<1>4. s \in Seq(R)
  BY <1>1, <1>2, <1>3, SeqDef
<1> QED BY <1>4 DEF R, IsSequence

\* Lengths, domains and what Append does, for sequences of anything.
LEMMA SequenceFacts ==
    ASSUME NEW s, IsSequence(s), NEW e
    PROVE  /\ Len(s) \in Nat /\ DOMAIN s = 1 .. Len(s)
           /\ IsSequence(Append(s, e)) /\ Append(s, e) = s \o << e >>
           /\ Len(Append(s, e)) = Len(s) + 1
           /\ Append(s, e)[Len(s) + 1] = e
           /\ \A i \in 1 .. Len(s) : Append(s, e)[i] = s[i]
           /\ s \o << >> = s
<1> DEFINE S == {s[i] : i \in DOMAIN s}
           T == S \cup {e}
<1>0. s \in Seq(S)
  BY DEF IsSequence
<1> HIDE DEF S
<1>1. s \in Seq(T) /\ e \in T
  <2>1. \A i \in 1 .. Len(s) : s[i] \in T
    BY <1>0
  <2>2. Len(s) \in Nat /\ s = [i \in 1 .. Len(s) |-> s[i]]
    BY <1>0
  <2> HIDE DEF T
  <2>3. s \in Seq(T)
    BY <2>1, <2>2, SeqDef
  <2> QED BY <2>3 DEF T
<1> HIDE DEF T
<1>2. Append(s, e) \in Seq(T)
  BY <1>1
<1>3. IsSequence(Append(s, e))
  BY <1>2, InSeq
<1> QED BY <1>1, <1>3

\* The same for concatenation.
LEMMA ConcatFacts ==
    ASSUME NEW s, IsSequence(s), NEW t, IsSequence(t)
    PROVE  /\ IsSequence(s \o t) /\ Len(s \o t) = Len(s) + Len(t)
           /\ \A i \in 1 .. Len(s) : (s \o t)[i] = s[i]
           /\ \A i \in 1 .. Len(t) : (s \o t)[Len(s) + i] = t[i]
<1> DEFINE S == {s[i] : i \in DOMAIN s}
           T == {t[i] : i \in DOMAIN t}
           U == S \cup T
<1>0. s \in Seq(S) /\ t \in Seq(T)
  BY DEF IsSequence
<1> HIDE DEF S, T
<1>1. S \subseteq U /\ T \subseteq U
  OBVIOUS
<1> HIDE DEF U
<1>2. s \in Seq(U) /\ t \in Seq(U)
  BY <1>0, <1>1, SeqMonotonic
<1>3. s \o t \in Seq(U)
  BY <1>2
<1>4. Len(s \o t) = Len(s) + Len(t)
  BY <1>2
<1>5. \A i \in 1 .. Len(s) : (s \o t)[i] = s[i]
  BY <1>2
<1>6. \A i \in 1 .. Len(t) : (s \o t)[Len(s) + i] = t[i]
  BY <1>2
<1>7. IsSequence(s \o t)
  BY <1>3, InSeq
<1> QED BY <1>4, <1>5, <1>6, <1>7

-----------------------------------------------------------------------------
(* The lexer. *)

\* What a token of each kind carries.
IsToken(token) ==
    /\ token.kind = "Register" => token.index \in Register
    /\ token.kind = "Number" => token.number \in Int

IsTokens(t) ==
    /\ IsSequence(t) /\ Len(t) > 0
    /\ t[Len(t)].kind = "EndOfFile"
    /\ \A i \in 1 .. Len(t) : IsToken(t[i])

\* tokenize_line makes tokens that carry what their kind promises.
LEMMA TokensOfTyped ==
    ASSUME NEW script, IsText(script), NEW i \in 1 .. Len(script)
    PROVE  \/ TokensOf(script, i) = << >>
           \/ \E token : IsToken(token) /\ TokensOf(script, i) = << token >>
<1>1. CASE TokensOf(script, i) = << [kind |-> "Newline"] >>
  BY <1>1 DEF IsToken
<1>2. CASE script[i].piece = "name" /\ TokensOf(script, i) = << NameToken(script[i].text) >>
  <2>1. IsToken(NameToken(script[i].text))
    BY DEF IsToken, NameToken, RegisterName, Register
  <2> QED BY <1>2, <2>1
<1>3. CASE /\ script[i].piece = "digits"
           /\ TokensOf(script, i) = << [kind |-> "Number", number |-> NumberOf(script, i)] >>
  <2>1. script[i].number \in Nat
    BY <1>3 DEF IsText
  <2>2. NumberOf(script, i) \in Int
    BY <2>1 DEF NumberOf
  <2>3. IsToken([kind |-> "Number", number |-> NumberOf(script, i)])
    BY <2>2 DEF IsToken
  <2> QED BY <1>3, <2>3
<1>4. CASE TokensOf(script, i) = << [kind |-> script[i].piece] >>
           /\ script[i].piece \notin {" ", "other", "newline", "name", "digits"}
  <2>1. script[i].piece \in PieceKind
    BY DEF IsText
  <2>2. script[i].piece \notin {"Register", "Number"}
    BY <1>4, <2>1 DEF PieceKind, Punctuation
  <2> DEFINE one == [kind |-> script[i].piece]
  <2>3. one.kind = script[i].piece
    OBVIOUS
  <2>4. IsToken(one)
    <3> HIDE DEF one
    <3> QED BY <2>2, <2>3 DEF IsToken
  <2>5. TokensOf(script, i) = << one >>
    BY <1>4
  <2> HIDE DEF one
  <2>6. \E token : IsToken(token) /\ TokensOf(script, i) = << token >>
    BY <2>4, <2>5, Zenon
  <2> QED BY <2>6
<1>5. CASE TokensOf(script, i) = << >>
  BY <1>5
<1> DEFINE T == TokensOf(script, i)
           p == script[i].piece
<1>6. \/ T = << >> \/ T = << [kind |-> "Newline"] >>
      \/ p = "name" /\ T = << NameToken(script[i].text) >>
      \/ p = "digits" /\ T = << [kind |-> "Number", number |-> NumberOf(script, i)] >>
      \/ p \notin {" ", "other", "newline", "name", "digits"} /\ T = << [kind |-> p] >>
  <2> DEFINE hidden == \/ Commented(script, i) \/ p \in {" ", "other"}
                       \/ p = "-" /\ i < Len(script) /\ script[i + 1].piece = "digits"
  <2>1. CASE hidden
    BY <2>1 DEF TokensOf
  <2>2. CASE ~hidden /\ p = "newline"
    BY <2>2 DEF TokensOf
  <2>3. CASE ~hidden /\ p = "name"
    BY <2>3 DEF TokensOf
  <2>4. CASE ~hidden /\ p = "digits"
    BY <2>4 DEF TokensOf
  <2>5. CASE ~hidden /\ p \notin {"newline", "name", "digits"}
    BY <2>5 DEF TokensOf
  <2> QED BY <2>1, <2>2, <2>3, <2>4, <2>5
<1> QED BY <1>1, <1>2, <1>3, <1>4, <1>5, <1>6

\* tokenize makes nothing of its own but the end of file behind the tokens.
MadeOf(t, script) ==
    /\ IsSequence(t) /\ Len(t) > 0
    /\ t[Len(t)] = [kind |-> "EndOfFile"]
    /\ \A i \in 1 .. Len(t) - 1 : \E j \in 1 .. Len(script) : TokensOf(script, j) = << t[i] >>

LEMMA TokenizeMakes ==
    ASSUME NEW script, IsText(script)
    PROVE  MadeOf(tokenize(script), script)
<1> DEFINE n == Len(script)
           D == {TokensOf(script, i)[1] : i \in {j \in 1 .. n : TokensOf(script, j) # << >>}}
           V == Seq(D)
           turn == [k \in 0 .. n - 1 |-> [x \in V |-> x \o TokensOf(script, k + 1)]]
           Eq(f) == f = [i \in 0 .. n |-> IF i = 0 THEN << >> ELSE f[i - 1] \o TokensOf(script, i)]
           made == CHOOSE f : Eq(f)
<1>n. n \in Nat
  <2>1. IsSequence(script)
    BY DEF IsText, IsSequence
  <2> QED BY <2>1, SequenceFacts
<1>1. \A i \in 1 .. n : TokensOf(script, i) \in V
  <2> TAKE i \in 1 .. n
  <2>1. CASE TokensOf(script, i) = << >>
    BY <2>1
  <2>2. CASE TokensOf(script, i) # << >>
    <3>1. PICK token : TokensOf(script, i) = << token >>
      BY <2>2, TokensOfTyped
    <3>2. token \in D
      BY <2>2, <3>1
    <3> HIDE DEF D
    <3> QED BY <3>1, <3>2
  <2> QED BY <2>1, <2>2
<1>2. \A token \in D : \E j \in 1 .. n : TokensOf(script, j) = << token >>
  <2> TAKE token \in D
  <2>1. PICK i \in 1 .. n : TokensOf(script, i) # << >> /\ token = TokensOf(script, i)[1]
    OBVIOUS
  <2>2. PICK tok : TokensOf(script, i) = << tok >>
    BY <2>1, TokensOfTyped
  <2>3. TokensOf(script, i) = << token >>
    BY <2>1, <2>2
  <2> QED BY <2>3
<1>3. << >> \in V
  OBVIOUS
<1>4. \A k \in 0 .. n - 1 : \A x \in V : turn[k][x] = x \o TokensOf(script, k + 1)
  OBVIOUS
<1> HIDE DEF n, turn, D, V
<1>5. \A k \in 0 .. n - 1 : \A x \in V : turn[k][x] \in V
  <2> TAKE k \in 0 .. n - 1
  <2> TAKE x \in V
  <2>1. TokensOf(script, k + 1) \in V
    BY <1>1, <1>n
  <2>2. x \o TokensOf(script, k + 1) \in V
    BY <2>1 DEF V
  <2> QED BY <1>4, <2>2
<1>6. PICK f : Trace(f, n, V, << >>, turn)
  BY <1>n, <1>3, <1>5, LoopTrace
<1>7. f \in [0 .. n -> V] /\ f[0] = << >> /\ \A k \in 0 .. n - 1 : f[k + 1] = f[k] \o TokensOf(script, k + 1)
  <2>1. f \in [0 .. n -> V] /\ f[0] = << >> /\ \A k \in 0 .. n - 1 : f[k + 1] = turn[k][f[k]]
    BY <1>6 DEF Trace
  <2>2. \A k \in 0 .. n - 1 : f[k] \in V
    BY <2>1, <1>n
  <2> QED BY <2>1, <2>2, <1>4
<1>8. \A i \in 0 .. n : i # 0 => f[i] = f[i - 1] \o TokensOf(script, i)
  <2> SUFFICES ASSUME NEW i \in 0 .. n, i # 0 PROVE f[i] = f[i - 1] \o TokensOf(script, i)
    OBVIOUS
  <2>1. i - 1 \in 0 .. n - 1 /\ (i - 1) + 1 = i
    BY <1>n
  <2> QED BY <2>1, <1>7
<1>9. Eq(f)
  BY <1>7, <1>8
<1> HIDE DEF Eq
<1>10. Eq(made)
  BY <1>9
<1>11. tokenize(script) = Append(made[n], [kind |-> "EndOfFile"])
  BY DEF tokenize, Eq, n
<1> HIDE DEF made
<1> DEFINE S == {k \in 0 .. n : made[k] \in V}
<1>12. made[0] = << >> /\ \A k \in 0 .. n - 1 : made[k + 1] = made[k] \o TokensOf(script, k + 1)
  <2>1. \A i \in 0 .. n : made[i] = IF i = 0 THEN << >> ELSE made[i - 1] \o TokensOf(script, i)
    BY <1>10 DEF Eq
  <2>2. ASSUME NEW k \in 0 .. n - 1 PROVE made[k + 1] = made[k] \o TokensOf(script, k + 1)
    <3>1. k + 1 \in 0 .. n /\ k + 1 # 0 /\ (k + 1) - 1 = k
      BY <1>n
    <3> QED BY <2>1, <3>1
  <2>3. made[0] = << >>
    BY <2>1, <1>n
  <2> QED BY <2>2, <2>3
<1>13. 0 \in S
  BY <1>12, <1>3, <1>n
<1>14. ASSUME NEW k \in 0 .. n - 1, k \in S PROVE k + 1 \in S
  <2>1. TokensOf(script, k + 1) \in V /\ k + 1 \in 0 .. n
    BY <1>1, <1>n
  <2>2. made[k] \o TokensOf(script, k + 1) \in V
    BY <2>1, <1>14 DEF V
  <2> QED BY <2>1, <2>2, <1>12
<1> HIDE DEF S
<1>15. made[n] \in Seq(D)
  <2>1. n \in S
    BY <1>13, <1>14, <1>n, UpTo
  <2> QED BY <2>1 DEF S, V
<1> DEFINE s == made[n]
           e == [kind |-> "EndOfFile"]
           t == Append(s, e)
<1> HIDE DEF D
<1>16. IsSequence(s) /\ \A i \in 1 .. Len(s) : s[i] \in D
  BY <1>15, InSeq
<1> HIDE DEF s, e
<1>18. /\ IsSequence(t) /\ Len(s) \in Nat /\ Len(t) = Len(s) + 1 /\ t[Len(s) + 1] = e
       /\ \A i \in 1 .. Len(s) : t[i] = s[i]
  BY <1>16, SequenceFacts
<1> HIDE DEF t
<1>19. \A i \in 1 .. Len(t) - 1 : \E j \in 1 .. n : TokensOf(script, j) = << t[i] >>
  <2> TAKE i \in 1 .. Len(t) - 1
  <2>1. i \in 1 .. Len(s)
    BY <1>18
  <2>2. t[i] \in D
    BY <2>1, <1>16, <1>18
  <2> QED BY <2>2, <1>2
<1>20. t[Len(t)] = e /\ Len(t) > 0
  BY <1>18
<1>21. MadeOf(t, script)
  BY <1>18, <1>19, <1>20 DEF MadeOf, n, e
<1> QED BY <1>11, <1>21 DEF t, s, e

\* So its tokens carry what their kinds promise too.
LEMMA TokenizeTyped ==
    ASSUME NEW script, IsText(script)
    PROVE  IsTokens(tokenize(script))
<1> DEFINE t == tokenize(script)
<1>1. MadeOf(tokenize(script), script)
  BY TokenizeMakes
<1>2. MadeOf(t, script)
  BY <1>1
<1> HIDE DEF t
<1>3. ASSUME NEW i \in 1 .. Len(t) PROVE IsToken(t[i])
  <2>1. CASE i = Len(t)
    <3>1. IsToken([kind |-> "EndOfFile"])
      BY DEF IsToken
    <3> QED BY <2>1, <3>1, <1>2 DEF MadeOf
  <2>2. CASE i # Len(t)
    <3> DEFINE n == Len(t)
    <3>1. n \in Nat /\ i \in 1 .. n /\ i # n
      BY <2>2, <1>2, SequenceFacts DEF MadeOf
    <3> HIDE DEF n
    <3>2. i \in 1 .. n - 1
      BY <3>1
    <3>3. PICK j \in 1 .. Len(script) : TokensOf(script, j) = << t[i] >>
      BY <3>2, <1>2 DEF MadeOf, n
    <3>4. PICK token : IsToken(token) /\ TokensOf(script, j) = << token >>
      BY <3>3, TokensOfTyped
    <3> QED BY <3>3, <3>4
  <2> QED BY <2>1, <2>2
<1>4. IsTokens(t)
  BY <1>2, <1>3 DEF IsTokens, MadeOf
<1> QED BY <1>4 DEF t

-----------------------------------------------------------------------------
(* The parser: every statement it makes is one. *)

IsOperand(o) ==
    \/ o.kind = "register" /\ o.index \in Register
    \/ o.kind = "immediate" /\ o.value \in Int
    \/ o.kind = "symbol"
    \/ o.kind = "memory" /\ o.base \in Register /\ o.offset \in Int

IsOperands(s) == IsSequence(s) /\ \A k \in 1 .. Len(s) : IsOperand(s[k])

IsStatement(s) ==
    \/ s.kind = "section" /\ s = Section(s.name)
    \/ s.kind = "global" /\ s = Global(s.name)
    \/ s.kind = "label" /\ s = Label(s.name)
    \/ s.kind = "instruction" /\ IsOperands(s.operands)

\* A memory operand that parses has a register and a number.
LEMMA ParseMemoryTyped ==
    ASSUME NEW t, IsTokens(t), NEW p \in 2 .. Len(t),
           NEW r, r = parse_memory_operand(t, p), r.ok
    PROVE  IsOperand(r.value) /\ r.next \in p + 1 .. Len(t)
<1>n. Len(t) \in Nat
  BY SequenceFacts DEF IsTokens
<1>0. \A n \in Int : Negated(n) \in Int
  BY LexerAssumption DEF Negated
<1>1. CASE Consumes(t, p, << "Register", "]" >>) /\ r = Returns(Mem(t[p].index, 0), p + 2)
  <2>1. p + 1 <= Len(t) /\ t[p].kind = "Register" /\ t[p + 1].kind = "]"
    BY <1>1, <1>n DEF Consumes
  <2>2. p + 2 \in p + 1 .. Len(t)
    BY <2>1, <1>n DEF IsTokens
  <2>3. t[p].index \in Register
    BY <2>1, <1>n DEF IsTokens, IsToken
  <2>4. IsOperand(Mem(t[p].index, 0))
    BY <2>3 DEF IsOperand, Mem
  <2> QED BY <1>1, <2>2, <2>4 DEF Returns
<1>2. CASE /\ Consumes(t, p, << "Register", "+", "Number", "]" >>)
           /\ r = Returns(Mem(t[p].index, t[p + 2].number), p + 4)
  <2>1. /\ p + 3 <= Len(t) /\ t[p].kind = "Register" /\ t[p + 2].kind = "Number"
        /\ t[p + 3].kind = "]"
    BY <1>2, <1>n DEF Consumes
  <2>2. p + 4 \in p + 1 .. Len(t)
    BY <2>1, <1>n DEF IsTokens
  <2>3. t[p].index \in Register /\ t[p + 2].number \in Int
    BY <2>1, <1>n DEF IsTokens, IsToken
  <2>4. IsOperand(Mem(t[p].index, t[p + 2].number))
    BY <2>3 DEF IsOperand, Mem
  <2> QED BY <1>2, <2>2, <2>4 DEF Returns
<1>3. CASE /\ Consumes(t, p, << "Register", "-", "Number", "]" >>)
           /\ r = Returns(Mem(t[p].index, Negated(t[p + 2].number)), p + 4)
  <2>1. /\ p + 3 <= Len(t) /\ t[p].kind = "Register" /\ t[p + 2].kind = "Number"
        /\ t[p + 3].kind = "]"
    BY <1>3, <1>n DEF Consumes
  <2>2. p + 4 \in p + 1 .. Len(t)
    BY <2>1, <1>n DEF IsTokens
  <2>3. t[p].index \in Register /\ Negated(t[p + 2].number) \in Int
    <3>1. t[p].index \in Register /\ t[p + 2].number \in Int
      BY <2>1, <1>n DEF IsTokens, IsToken
    <3> QED BY <3>1, <1>0
  <2>4. IsOperand(Mem(t[p].index, Negated(t[p + 2].number)))
    BY <2>3 DEF IsOperand, Mem
  <2> QED BY <1>3, <2>2, <2>4 DEF Returns
<1>4. CASE r = Failed
  BY <1>4 DEF Failed
<1>5. /\ Consumes(t, p, << "Register", "]" >>) => t[p + 1].kind = "]"
      /\ Consumes(t, p, << "Register", "+", "Number", "]" >>) => t[p + 1].kind = "+"
      /\ Consumes(t, p, << "Register", "-", "Number", "]" >>) => t[p + 1].kind = "-"
  BY <1>n DEF Consumes
<1> QED BY <1>1, <1>2, <1>3, <1>4, <1>5 DEF parse_memory_operand

\* An operand that parses is one, and a token was consumed.
LEMMA ParseOperandTyped ==
    ASSUME NEW t, IsTokens(t), NEW p \in 1 .. Len(t), NEW r, r = parse_operand(t, p), r.ok
    PROVE  IsOperand(r.value) /\ r.next \in p + 1 .. Len(t)
<1>n. Len(t) \in Nat
  BY SequenceFacts DEF IsTokens
<1>1. IsToken(t[p]) /\ (t[p].kind # "EndOfFile" => p + 1 \in 2 .. Len(t))
  BY <1>n DEF IsTokens
<1>2. CASE t[p].kind = "Register" /\ r = Returns(Reg(t[p].index), p + 1)
  <2>1. IsOperand(Reg(t[p].index))
    BY <1>1, <1>2 DEF IsOperand, Reg, IsToken
  <2> QED BY <1>1, <1>2, <2>1 DEF Returns
<1>3. CASE t[p].kind = "Number" /\ r = Returns(Imm(t[p].number), p + 1)
  <2>1. IsOperand(Imm(t[p].number))
    BY <1>1, <1>3 DEF IsOperand, Imm, IsToken
  <2> QED BY <1>1, <1>3, <2>1 DEF Returns
<1>4. CASE t[p].kind = "Identifier" /\ r = Returns(Sym(t[p].text), p + 1)
  <2>1. IsOperand(Sym(t[p].text))
    BY DEF IsOperand, Sym
  <2> QED BY <1>1, <1>4, <2>1 DEF Returns
<1>5. CASE t[p].kind = "[" /\ r = parse_memory_operand(t, p + 1)
  <2>1. p + 1 \in 2 .. Len(t)
    BY <1>1, <1>5
  <2>2. IsOperand(r.value) /\ r.next \in (p + 1) + 1 .. Len(t)
    BY <2>1, <1>5, ParseMemoryTyped
  <2> QED BY <2>2, <1>n
<1>6. CASE r = Failed
  BY <1>6 DEF Failed
<1> QED BY <1>2, <1>3, <1>4, <1>5, <1>6 DEF parse_operand

\* The value of the recursive function of OperandList at p, with f for the rest.
ListFrom(t, f, p) ==
    LET operand == parse_operand(t, p)
    IN  CASE ~operand.ok -> Failed
          [] operand.ok /\ t[operand.next].kind # "," ->
                 Returns(<< operand.value >>, operand.next)
          [] OTHER -> Joined(operand.value, f[operand.next + 1])

\* It looks at f behind p only.
LEMMA ListFromLooksAhead ==
    ASSUME NEW t, IsTokens(t), NEW p \in 1 .. Len(t), NEW f, NEW g,
           \A q \in p + 1 .. Len(t) : f[q] = g[q]
    PROVE  ListFrom(t, f, p) = ListFrom(t, g, p)
<1> DEFINE operand == parse_operand(t, p)
<1>n. Len(t) \in Nat
  BY SequenceFacts DEF IsTokens
<1>1. CASE operand.ok /\ t[operand.next].kind = ","
  <2>1. operand.next \in p + 1 .. Len(t)
    BY <1>1, ParseOperandTyped
  <2>2. operand.next # Len(t)
    BY <1>1 DEF IsTokens
  <2>3. operand.next + 1 \in p + 1 .. Len(t)
    BY <2>1, <2>2, <1>n
  <2>4. f[operand.next + 1] = g[operand.next + 1]
    BY <2>3
  <2> HIDE DEF operand
  <2> QED BY <1>1, <2>4 DEF ListFrom, operand
<1>2. CASE ~(operand.ok /\ t[operand.next].kind = ",")
  BY <1>2 DEF ListFrom
<1> QED BY <1>1, <1>2

\* The recursive function of OperandList exists.
LEMMA OperandListDef ==
    ASSUME NEW t, IsTokens(t)
    PROVE  \E f : \A p \in 1 .. Len(t) :
                      f[p] = ListFrom(t, f, p) /\ OperandList(t, p) = f[p]
<1> DEFINE n == Len(t)
           Right(f, m) == \A p \in n - m + 1 .. n : f[p] = ListFrom(t, f, p)
           S == {m \in 0 .. n : \E f : Right(f, m)}
           Eq(f) == f = [p \in DOMAIN t |-> ListFrom(t, f, p)]
           from == CHOOSE f : Eq(f)
<1>n. n \in Nat /\ DOMAIN t = 1 .. n
  BY SequenceFacts DEF IsTokens
<1> HIDE DEF n
<1>1. 0 \in S
  <2>1. Right(<< >>, 0)
    BY <1>n
  <2> HIDE DEF Right
  <2> QED BY <2>1, <1>n
<1>2. ASSUME NEW m \in 0 .. n - 1, m \in S PROVE m + 1 \in S
  <2>1. PICK f : Right(f, m)
    BY <1>2
  <2> DEFINE q == n - m
             g == [p \in 1 .. n |-> IF p = q THEN ListFrom(t, f, q) ELSE f[p]]
  <2>2. q \in 1 .. n /\ n - (m + 1) + 1 = q /\ n - m + 1 = q + 1
    BY <1>n
  <2>3. ASSUME NEW p \in q .. n PROVE g[p] = ListFrom(t, g, p)
    <3>1. p \in 1 .. n /\ \A x \in p + 1 .. n : x \in 1 .. n /\ x # q
      BY <2>2, <1>n
    <3>2. \A x \in p + 1 .. n : f[x] = g[x]
      BY <3>1
    <3>3. ListFrom(t, f, p) = ListFrom(t, g, p)
      <4> HIDE DEF g
      <4> QED BY <3>1, <3>2, ListFromLooksAhead DEF n
    <3>4. CASE p = q
      BY <3>1, <3>3, <3>4
    <3>5. CASE p # q
      <4>1. p \in q + 1 .. n
        BY <3>5, <2>2, <1>n
      <4>2. f[p] = ListFrom(t, f, p)
        BY <4>1, <2>1, <2>2
      <4> QED BY <3>1, <3>3, <3>5, <4>2
    <3> QED BY <3>4, <3>5
  <2> HIDE DEF g, q
  <2>4. Right(g, m + 1)
    BY <2>2, <2>3
  <2> HIDE DEF Right
  <2>5. m + 1 \in 0 .. n
    BY <1>n
  <2> QED BY <2>4, <2>5
<1> HIDE DEF S, Right
<1>3. 0 .. n \subseteq S
  BY <1>n, <1>1, <1>2, UpTo
<1>4. PICK f : Right(f, n)
  <2>1. n \in S
    BY <1>n, <1>3
  <2> QED BY <2>1 DEF S
<1> DEFINE h == [p \in 1 .. n |-> f[p]]
<1>5. \A p \in 1 .. n : f[p] = ListFrom(t, f, p)
  BY <1>4, <1>n DEF Right
<1>6. \A p \in 1 .. n : h[p] = ListFrom(t, h, p)
  <2> TAKE p \in 1 .. n
  <2>1. \A x \in p + 1 .. n : f[x] = h[x]
    BY <1>n
  <2> HIDE DEF h
  <2>2. ListFrom(t, f, p) = ListFrom(t, h, p)
    BY <2>1, ListFromLooksAhead DEF n
  <2> QED BY <2>2, <1>5 DEF h
<1>7. Eq(h)
  <2>1. h = [p \in 1 .. n |-> h[p]]
    OBVIOUS
  <2> HIDE DEF h
  <2> QED BY <2>1, <1>6, <1>n
<1>8. Eq(from)
  <2> HIDE DEF Eq, h
  <2> QED BY <1>7
<1>9. \A p \in 1 .. n : OperandList(t, p) = from[p]
  BY DEF OperandList, ListFrom
<1> HIDE DEF from
<1>10. \A p \in 1 .. n : from[p] = ListFrom(t, from, p)
  BY <1>8, <1>n
<1> QED BY <1>9, <1>10 DEF n

\* The operands behind a mnemonic, and where the list ends.
LEMMA OperandListTyped ==
    ASSUME NEW t, IsTokens(t), NEW p \in 1 .. Len(t)
    PROVE  OperandList(t, p).ok =>
               /\ IsOperands(OperandList(t, p).value)
               /\ OperandList(t, p).next \in p + 1 .. Len(t)
<1> DEFINE n == Len(t)
           Typed(r, q) == r.ok => IsOperands(r.value) /\ r.next \in q + 1 .. n
<1>n. n \in Nat
  BY SequenceFacts DEF IsTokens
<1>1. PICK f : \A q \in 1 .. n : f[q] = ListFrom(t, f, q) /\ OperandList(t, q) = f[q]
  BY OperandListDef
<1>0. /\ ~Failed.ok
      /\ \A v, x : Returns(v, x).value = v /\ Returns(v, x).next = x
  BY DEF Failed, Returns
<1> HIDE DEF n
<1> DEFINE S == {m \in 0 .. n : \A q \in n - m + 1 .. n : Typed(f[q], q)}
<1>2. 0 \in S
  BY <1>n
<1>3. ASSUME NEW m \in 0 .. n - 1, m \in S PROVE m + 1 \in S
  <2> DEFINE q == n - m
             o == parse_operand(t, q)
  <2>1. q \in 1 .. n /\ n - (m + 1) + 1 = q /\ n - m + 1 = q + 1 /\ m + 1 \in 0 .. n
    BY <1>n
  <2> HIDE DEF q
  <2>2. \A x \in q + 1 .. n : Typed(f[x], x)
    BY <1>3, <2>1
  <2>3. o.ok => IsOperand(o.value) /\ o.next \in q + 1 .. n
    BY <2>1, ParseOperandTyped DEF n
  <2>4. f[q] = ListFrom(t, f, q)
    BY <1>1, <2>1
  <2>5. ASSUME ~o.ok PROVE Typed(f[q], q)
    <3>1. f[q] = Failed
      BY <2>4, <2>5 DEF ListFrom
    <3> QED BY <3>1, <1>0
  <2>6. ASSUME o.ok, t[o.next].kind # "," PROVE Typed(f[q], q)
    <3>1. f[q] = Returns(<< o.value >>, o.next)
      BY <2>4, <2>6 DEF ListFrom
    <3>2. IsOperands(<< o.value >>)
      <4> DEFINE e == o.value
      <4>1. IsOperand(e)
        BY <2>3, <2>6
      <4> HIDE DEF e
      <4>2. << e >> \in Seq({e})
        OBVIOUS
      <4>3. IsSequence(<< e >>)
        BY <4>2, InSeq
      <4> QED BY <4>1, <4>3 DEF IsOperands, e
    <3>3. f[q].value = << o.value >> /\ f[q].next = o.next
      BY <3>1 DEF Returns
    <3>4. o.next \in q + 1 .. n
      BY <2>3, <2>6
    <3> HIDE DEF o
    <3> QED BY <3>2, <3>3, <3>4
  <2>7. ASSUME o.ok, t[o.next].kind = "," PROVE Typed(f[q], q)
    <3>1. f[q] = Joined(o.value, f[o.next + 1])
      BY <2>4, <2>7 DEF ListFrom
    <3>2. o.next # n
      BY <2>7 DEF IsTokens, n
    <3>3. o.next + 1 \in q + 1 .. n
      <4>1. o.next \in q + 1 .. n
        BY <2>3, <2>7
      <4> HIDE DEF o
      <4> QED BY <4>1, <3>2, <1>n, <2>1
    <3> DEFINE x == o.next + 1
               rest == f[x]
               e == o.value
    <3>4. Typed(rest, x)
      BY <2>2, <3>3
    <3>5. IsOperand(e) /\ x \in q + 1 .. n /\ f[q] = Joined(e, rest)
      BY <2>3, <2>7, <3>1, <3>3
    <3> HIDE DEF e, rest, x
    <3>6. CASE rest.ok
      <4>1. IsOperands(rest.value) /\ rest.next \in x + 1 .. n
        BY <3>4, <3>6
      <4>2. << e >> \in Seq({e}) /\ Len(<< e >>) = 1 /\ << e >>[1] = e
        OBVIOUS
      <4>3. IsSequence(<< e >>)
        BY <4>2, InSeq
      <4> DEFINE s == << e >>
                 v == rest.value
      <4>4. IsSequence(v) /\ Len(v) \in Nat /\ \A k \in 1 .. Len(v) : IsOperand(v[k])
        BY <4>1, SequenceFacts DEF IsOperands
      <4>5. Len(s) = 1 /\ s[1] = e /\ IsSequence(s)
        BY <4>2, <4>3
      <4> HIDE DEF s, v
      <4>6. /\ IsSequence(s \o v) /\ Len(s \o v) = 1 + Len(v)
            /\ (s \o v)[1] = e /\ \A k \in 1 .. Len(v) : (s \o v)[1 + k] = v[k]
        <5>1. /\ IsSequence(s \o v) /\ Len(s \o v) = Len(s) + Len(v)
              /\ \A i \in 1 .. Len(s) : (s \o v)[i] = s[i]
              /\ \A i \in 1 .. Len(v) : (s \o v)[Len(s) + i] = v[i]
          <6>1. IsSequence(s) /\ IsSequence(v)
            BY <4>4, <4>5
          <6> QED BY <6>1, ConcatFacts
        <5> QED BY <5>1, <4>5
      <4>7. ASSUME NEW k \in 1 .. Len(s \o v) PROVE IsOperand((s \o v)[k])
        <5>1. k = 1 \/ (k - 1 \in 1 .. Len(v) /\ 1 + (k - 1) = k)
          BY <4>4, <4>6
        <5> QED BY <5>1, <3>5, <4>4, <4>6
      <4>8. IsOperands(s \o v)
        BY <4>6, <4>7 DEF IsOperands
      <4>9. f[q] = Returns(s \o v, rest.next)
        BY <3>5, <3>6 DEF Joined, s, v
      <4>10. rest.next \in q + 1 .. n
        BY <4>1, <3>5, <1>n, <2>1
      <4> QED BY <4>8, <4>9, <4>10, <1>0
    <3>7. CASE ~rest.ok
      <4>1. f[q] = Failed
        BY <3>5, <3>7 DEF Joined
      <4> QED BY <4>1, <1>0
    <3> QED BY <3>6, <3>7
  <2> HIDE DEF Typed, o
  <2>8. Typed(f[q], q)
    BY <2>5, <2>6, <2>7
  <2>9. \A x \in q .. n : Typed(f[x], x)
    <3> TAKE x \in q .. n
    <3>1. x = q \/ x \in q + 1 .. n
      BY <2>1, <1>n
    <3> QED BY <3>1, <2>2, <2>8
  <2> QED BY <2>1, <2>9
<1> HIDE DEF S
<1>4. 0 .. n \subseteq S
  BY <1>n, <1>2, <1>3, UpTo
<1>5. n \in S /\ p \in 1 .. n
  BY <1>4, <1>n DEF n
<1>6. Typed(f[p], p)
  BY <1>5, <1>n DEF S
<1> QED BY <1>1, <1>5, <1>6 DEF n, Typed

\* What a statement is read as, its end not yet looked at.
Unended(t, p) ==
    LET list == IF EndsStatement(t, p + 1) THEN Returns(<< >>, p + 1) ELSE OperandList(t, p + 1)
    IN  IF t[p].kind # "Identifier" THEN Failed
        ELSE IF Consumes(t, p, << "Identifier", ":" >>) THEN Returns(Label(t[p].text), p + 2)
        ELSE CASE t[p].text = "section" ->
                    IF Consumes(t, p + 1, << ".", "Identifier" >>)
                    THEN Returns(Section(t[p + 2].text), p + 3) ELSE Failed
               [] t[p].text = "global" ->
                    IF Consumes(t, p + 1, << "Identifier" >>)
                    THEN Returns(Global(t[p + 1].text), p + 2) ELSE Failed
               [] OTHER -> IF list.ok THEN Returns(Ins(t[p].text, list.value), list.next)
                                      ELSE Failed

\* Each kind of statement asks for its own end; together they do as if it were
\* asked for behind them all.
LEMMA EveryStatementEnds ==
    ASSUME NEW t, NEW p \in Int
    PROVE  parse_statement(t, p) = Ended(t, Unended(t, p))
<1> DEFINE list == IF EndsStatement(t, p + 1) THEN Returns(<< >>, p + 1) ELSE OperandList(t, p + 1)
           isLabel == Consumes(t, p, << "Identifier", ":" >>)
           isSection == Consumes(t, p + 1, << ".", "Identifier" >>)
           isGlobal == Consumes(t, p + 1, << "Identifier" >>)
<1>0. Ended(t, Failed) = Failed
  BY DEF Ended, Failed
<1>1. CASE t[p].kind # "Identifier"
  <2>1. ~isLabel
    <3>1. Consumes(t, p, << "Identifier", ":" >>) => t[p + 1 - 1].kind = "Identifier"
      BY DEF Consumes
    <3> QED BY <1>1, <3>1
  <2>2. parse_statement(t, p) = Failed
    BY <1>1, <2>1 DEF parse_statement
  <2>3. Unended(t, p) = Failed
    BY <1>1 DEF Unended
  <2> QED BY <1>0, <2>2, <2>3
<1>2. CASE t[p].kind = "Identifier" /\ isLabel
  <2>1. parse_statement(t, p) = parse_label(t, p)
    BY <1>2 DEF parse_statement
  <2>2. Unended(t, p) = Returns(Label(t[p].text), p + 2)
    BY <1>2 DEF Unended
  <2> QED BY <2>1, <2>2 DEF parse_label
<1>3. CASE t[p].kind = "Identifier" /\ ~isLabel /\ t[p].text = "section"
  <2>0. t[p].text # "global"
    BY <1>3
  <2>1. parse_statement(t, p) = parse_section(t, p)
    BY <1>3, <2>0 DEF parse_statement
  <2>2. Unended(t, p) = IF isSection THEN Returns(Section(t[p + 2].text), p + 3) ELSE Failed
    BY <1>3, <2>0 DEF Unended
  <2> QED BY <1>0, <2>1, <2>2 DEF parse_section
<1>4. CASE t[p].kind = "Identifier" /\ ~isLabel /\ t[p].text = "global"
  <2>0. t[p].text # "section"
    BY <1>4
  <2>1. parse_statement(t, p) = parse_global(t, p)
    BY <1>4, <2>0 DEF parse_statement
  <2>2. Unended(t, p) = IF isGlobal THEN Returns(Global(t[p + 1].text), p + 2) ELSE Failed
    BY <1>4, <2>0 DEF Unended
  <2> QED BY <1>0, <2>1, <2>2 DEF parse_global
<1>5. CASE t[p].kind = "Identifier" /\ ~isLabel /\ t[p].text # "section" /\ t[p].text # "global"
  <2>1. parse_statement(t, p) = parse_instruction(t, p)
    BY <1>5 DEF parse_statement
  <2>2. Unended(t, p) = IF list.ok THEN Returns(Ins(t[p].text, list.value), list.next) ELSE Failed
    BY <1>5 DEF Unended
  <2> QED BY <1>0, <2>1, <2>2 DEF parse_instruction
<1> QED BY <1>1, <1>2, <1>3, <1>4, <1>5

\* A statement that parses is one, and the parser has moved on within the tokens.
LEMMA UnendedTyped ==
    ASSUME NEW t, IsTokens(t), NEW p \in 1 .. Len(t),
           NEW r, r = Unended(t, p), r.ok
    PROVE  IsStatement(r.value) /\ r.next \in 1 .. Len(t)
<1> DEFINE n == Len(t)
<1>n. n \in Nat
  BY SequenceFacts DEF IsTokens
<1>0. ~Failed.ok
  BY DEF Failed
<1>1. \A q \in 1 .. n : t[q].kind # "EndOfFile" => q + 1 \in 1 .. n
  BY <1>n DEF IsTokens
<1>2. t[p].kind = "Identifier"
  BY <1>0 DEF Unended
<1>3. CASE Consumes(t, p, << "Identifier", ":" >>) /\ r = Returns(Label(t[p].text), p + 2)
  <2>1. p + 1 <= n /\ t[p + 1].kind = ":"
    BY <1>3, <1>n DEF Consumes
  <2>2. p + 2 \in 1 .. n
    BY <2>1, <1>1, <1>n
  <2>3. IsStatement(Label(t[p].text))
    BY DEF IsStatement, Label
  <2> QED BY <1>3, <2>2, <2>3 DEF Returns
<1>4. CASE /\ Consumes(t, p + 1, << ".", "Identifier" >>)
           /\ r = Returns(Section(t[p + 2].text), p + 3)
  <2>1. p + 2 <= n /\ t[p + 2].kind = "Identifier"
    BY <1>4, <1>n DEF Consumes
  <2>2. p + 3 \in 1 .. n
    BY <2>1, <1>1, <1>n
  <2>3. IsStatement(Section(t[p + 2].text))
    BY DEF IsStatement, Section
  <2> QED BY <1>4, <2>2, <2>3 DEF Returns
<1>5. CASE /\ Consumes(t, p + 1, << "Identifier" >>)
           /\ r = Returns(Global(t[p + 1].text), p + 2)
  <2>1. p + 1 <= n /\ t[p + 1].kind = "Identifier"
    BY <1>5, <1>n DEF Consumes
  <2>2. p + 2 \in 1 .. n
    BY <2>1, <1>1, <1>n
  <2>3. IsStatement(Global(t[p + 1].text))
    BY DEF IsStatement, Global
  <2> QED BY <1>5, <2>2, <2>3 DEF Returns
<1> DEFINE list == IF EndsStatement(t, p + 1) THEN Returns(<< >>, p + 1) ELSE OperandList(t, p + 1)
<1>6. CASE r = IF list.ok THEN Returns(Ins(t[p].text, list.value), list.next) ELSE Failed
  <2>1. list.ok /\ r = Returns(Ins(t[p].text, list.value), list.next)
    BY <1>0, <1>6
  <2>2. p + 1 \in 1 .. n
    BY <1>1, <1>2
  <2>3. IsOperands(list.value) /\ list.next \in 1 .. n
    <3>1. CASE EndsStatement(t, p + 1)
      <4>1. list.value = << >> /\ list.next = p + 1
        BY <3>1 DEF Returns
      <4>2. << >> \in Seq({0}) /\ Len(<< >>) = 0
        OBVIOUS
      <4>3. IsSequence(<< >>)
        BY <4>2, InSeq
      <4>4. IsOperands(<< >>)
        BY <4>2, <4>3 DEF IsOperands
      <4> HIDE DEF list
      <4> QED BY <2>2, <4>1, <4>4
    <3>2. CASE ~EndsStatement(t, p + 1)
      <4>1. list = OperandList(t, p + 1)
        BY <3>2
      <4> HIDE DEF list
      <4>2. IsOperands(list.value) /\ list.next \in (p + 1) + 1 .. n
        BY <2>1, <2>2, <4>1, OperandListTyped
      <4> QED BY <4>2, <1>n
    <3> QED BY <3>1, <3>2
  <2> HIDE DEF list
  <2>4. IsStatement(Ins(t[p].text, list.value))
    BY <2>3 DEF IsStatement, Ins
  <2> QED BY <2>1, <2>3, <2>4 DEF Returns
<1>7. CASE r = Failed
  BY <1>0, <1>7
<1> QED BY <1>2, <1>3, <1>4, <1>5, <1>6, <1>7 DEF Unended

\* The same of parse_statement, which looks at the end as well.
LEMMA ParseStatementTyped ==
    ASSUME NEW t, IsTokens(t), NEW p \in 1 .. Len(t),
           NEW r, r = parse_statement(t, p), r.ok
    PROVE  IsStatement(r.value) /\ r.next \in 1 .. Len(t)
<1>1. r = Ended(t, Unended(t, p))
  BY EveryStatementEnds
<1>2. r = Unended(t, p)
  BY <1>1 DEF Ended, Failed
<1> QED BY <1>2, UnendedTyped

-----------------------------------------------------------------------------
(* The grammar: the parser reads its lines and no others. Facts about commas  *)
(* are folded in IsComma, Plain and Commas.                                   *)

\* The tokens between two positions, and their kinds.
LEMMA BetweenFacts ==
    ASSUME NEW t, NEW a \in Int, NEW b \in Int, a <= b
    PROVE  /\ IsSequence(Between(t, a, b)) /\ Len(Between(t, a, b)) = b - a
           /\ \A k \in 1 .. b - a : Between(t, a, b)[k] = t[a + k - 1]
           /\ IsSequence(Shape(Between(t, a, b))) /\ Len(Shape(Between(t, a, b))) = b - a
           /\ \A k \in 1 .. b - a : Shape(Between(t, a, b))[k] = t[a + k - 1].kind
<1> DEFINE n == b - a
           s == [k \in 1 .. n |-> t[a + k - 1]]
           h == [k \in 1 .. n |-> t[a + k - 1].kind]
<1>n. n \in Nat
  OBVIOUS
<1>1. ASSUME NEW f, NEW S, f = [k \in 1 .. n |-> f[k]], \A k \in 1 .. n : f[k] \in S
      PROVE  IsSequence(f) /\ Len(f) = n
  <2> HIDE DEF n
  <2>1. f \in [1 .. n -> S]
    BY <1>1
  <2>2. f \in Seq(S) /\ Len(f) = n
    BY <2>1, <1>n, SeqDef
  <2> QED BY <2>2, InSeq
<1>2. Between(t, a, b) = s
  BY DEF Between
<1>3. DOMAIN s = 1 .. n /\ s = [k \in 1 .. n |-> s[k]]
  OBVIOUS
<1>4. Shape(s) = h
  BY DEF Shape
<1>5. h = [k \in 1 .. n |-> h[k]]
  OBVIOUS
<1>6. (\A k \in 1 .. n : s[k] = t[a + k - 1]) /\ (\A k \in 1 .. n : h[k] = t[a + k - 1].kind)
  OBVIOUS
<1> HIDE DEF n, s, h
<1>7. IsSequence(s) /\ Len(s) = n
  <2>1. \A k \in 1 .. n : s[k] \in {s[i] : i \in 1 .. n}
    OBVIOUS
  <2> QED BY <2>1, <1>1, <1>3
<1>8. IsSequence(h) /\ Len(h) = n
  <2>1. \A k \in 1 .. n : h[k] \in {h[i] : i \in 1 .. n}
    OBVIOUS
  <2> QED BY <2>1, <1>1, <1>5
<1> QED BY <1>2, <1>4, <1>6, <1>7, <1>8 DEF n

\* A sequence that holds the kinds of the tokens from a up to b, folded: the kinds are read
\* off it one step after it is known to be one.
IsShapeOf(h, t, a, b) ==
    /\ IsSequence(h) /\ Len(h) = b - a
    /\ \A k \in 1 .. b - a : h[k] = t[a + k - 1].kind

\* The shape of a stretch of tokens is one.
LEMMA ShapeOfBetween ==
    ASSUME NEW t, NEW a \in Int, NEW b \in Int, a <= b
    PROVE  IsShapeOf(Shape(Between(t, a, b)), t, a, b)
<1> DEFINE h == Shape(Between(t, a, b))
<1>1. IsSequence(Shape(Between(t, a, b))) /\ Len(Shape(Between(t, a, b))) = b - a
  BY BetweenFacts
<1>2. ASSUME NEW k \in 1 .. b - a
      PROVE  Shape(Between(t, a, b))[k] = t[a + k - 1].kind
  BY BetweenFacts
<1> QED BY <1>1, <1>2 DEF IsShapeOf

\* A sequence is known by its length and its members.
LEMMA TupleFacts ==
    ASSUME NEW s, IsSequence(s)
    PROVE  /\ \A a : s = << a >> <=> Len(s) = 1 /\ s[1] = a
           /\ \A a, b : s = << a, b >> <=> Len(s) = 2 /\ s[1] = a /\ s[2] = b
           /\ \A a, b, c :
                 s = << a, b, c >> <=> Len(s) = 3 /\ s[1] = a /\ s[2] = b /\ s[3] = c
           /\ \A a, b, c, d, e :
                 s = << a, b, c, d, e >> <=>
                     Len(s) = 5 /\ s[1] = a /\ s[2] = b /\ s[3] = c /\ s[4] = d /\ s[5] = e
<1> DEFINE S == {s[i] : i \in DOMAIN s}
<1>1. s \in Seq(S)
  BY DEF IsSequence
<1> HIDE DEF S
<1>2. ASSUME NEW a PROVE s = << a >> <=> Len(s) = 1 /\ s[1] = a
  BY <1>1
<1>3. ASSUME NEW a, NEW b PROVE s = << a, b >> <=> Len(s) = 2 /\ s[1] = a /\ s[2] = b
  BY <1>1
<1>4. ASSUME NEW a, NEW b, NEW c
      PROVE  s = << a, b, c >> <=> Len(s) = 3 /\ s[1] = a /\ s[2] = b /\ s[3] = c
  BY <1>1
<1>5. ASSUME NEW a, NEW b, NEW c, NEW d, NEW e
      PROVE  s = << a, b, c, d, e >> <=>
                 Len(s) = 5 /\ s[1] = a /\ s[2] = b /\ s[3] = c /\ s[4] = d /\ s[5] = e
  BY <1>1
<1> QED BY <1>2, <1>3, <1>4, <1>5

\* What a stretch of tokens with the shape of an operand consists of.
IsOperandAt(t, a, b) ==
    \/ b = a + 1 /\ t[a].kind \in {"Register", "Number", "Identifier"}
    \/ b = a + 3 /\ t[a].kind = "[" /\ t[a + 1].kind = "Register" /\ t[a + 2].kind = "]"
    \/ /\ b = a + 5 /\ t[a].kind = "[" /\ t[a + 1].kind = "Register"
       /\ t[a + 2].kind \in {"+", "-"} /\ t[a + 3].kind = "Number" /\ t[a + 4].kind = "]"

\* The shapes of the grammar are those.
LEMMA OperandAt ==
    ASSUME NEW t, NEW a \in Int, NEW b \in Int, a <= b
    PROVE  Shape(Between(t, a, b)) \in OperandShapes <=> IsOperandAt(t, a, b)
<1> DEFINE s == Shape(Between(t, a, b))
<1>0. IsShapeOf(s, t, a, b)
  BY ShapeOfBetween
<1>1. IsSequence(s) /\ Len(s) = b - a /\ \A k \in 1 .. b - a : s[k] = t[a + k - 1].kind
  <2> HIDE DEF s
  <2> QED BY <1>0 DEF IsShapeOf
<1>2. s \in OperandShapes <=>
         \/ s = << "Register" >> \/ s = << "Number" >> \/ s = << "Identifier" >>
         \/ s = << "[", "Register", "]" >>
         \/ s = << "[", "Register", "+", "Number", "]" >>
         \/ s = << "[", "Register", "-", "Number", "]" >>
  <2> DEFINE signed == {<< "[", "Register", sign, "Number", "]" >> : sign \in {"+", "-"}}
             plain  == {<< "Register" >>, << "Number" >>, << "Identifier" >>,
                        << "[", "Register", "]" >>}
  <2>1. OperandShapes = plain \cup signed
    BY DEF OperandShapes
  <2> HIDE DEF s
  <2>2. s \in signed <=> \/ s = << "[", "Register", "+", "Number", "]" >>
                        \/ s = << "[", "Register", "-", "Number", "]" >>
    BY Zenon
  <2>3. s \in plain <=> \/ s = << "Register" >> \/ s = << "Number" >> \/ s = << "Identifier" >>
                       \/ s = << "[", "Register", "]" >>
    BY Zenon
  <2> HIDE DEF signed, plain
  <2> QED BY <2>1, <2>2, <2>3
<1> HIDE DEF s
<1>3. b = a + 1 => s[1] = t[a].kind
  BY <1>1
<1>4. b = a + 3 => s[1] = t[a].kind /\ s[2] = t[a + 1].kind /\ s[3] = t[a + 2].kind
  <2> SUFFICES ASSUME b = a + 3 PROVE s[1] = t[a].kind /\ s[2] = t[a + 1].kind /\ s[3] = t[a + 2].kind
    OBVIOUS
  <2>1. 1 .. b - a = 1 .. 3 /\ a + 1 - 1 = a /\ a + 2 - 1 = a + 1 /\ a + 3 - 1 = a + 2
    OBVIOUS
  <2> QED BY <2>1, <1>1
<1>5. b = a + 5 => /\ s[1] = t[a].kind /\ s[2] = t[a + 1].kind /\ s[3] = t[a + 2].kind
                   /\ s[4] = t[a + 3].kind /\ s[5] = t[a + 4].kind
  <2> SUFFICES ASSUME b = a + 5
               PROVE  /\ s[1] = t[a].kind /\ s[2] = t[a + 1].kind /\ s[3] = t[a + 2].kind
                      /\ s[4] = t[a + 3].kind /\ s[5] = t[a + 4].kind
    OBVIOUS
  <2>1. /\ 1 .. b - a = 1 .. 5 /\ a + 1 - 1 = a /\ a + 2 - 1 = a + 1 /\ a + 3 - 1 = a + 2
        /\ a + 4 - 1 = a + 3 /\ a + 5 - 1 = a + 4
    OBVIOUS
  <2> QED BY <2>1, <1>1
<1>6. Len(s) = 1 <=> b = a + 1
  BY <1>1
<1>7. (Len(s) = 3 <=> b = a + 3) /\ (Len(s) = 5 <=> b = a + 5)
  BY <1>1
<1> DEFINE n == Len(s)
<1>8. /\ \A x : s = << x >> <=> n = 1 /\ s[1] = x
      /\ \A x, y, z : s = << x, y, z >> <=> n = 3 /\ s[1] = x /\ s[2] = y /\ s[3] = z
      /\ \A x, y, z, u, v :
            s = << x, y, z, u, v >> <=>
                n = 5 /\ s[1] = x /\ s[2] = y /\ s[3] = z /\ s[4] = u /\ s[5] = v
  BY <1>1, TupleFacts
<1>9. /\ s = << "Register" >> \/ s = << "Number" >> \/ s = << "Identifier" >>
             <=> b = a + 1 /\ t[a].kind \in {"Register", "Number", "Identifier"}
      /\ s = << "[", "Register", "]" >>
             <=> b = a + 3 /\ t[a].kind = "[" /\ t[a + 1].kind = "Register" /\ t[a + 2].kind = "]"
  <2> HIDE DEF n
  <2>1. /\ s = << "Register" >> <=> n = 1 /\ s[1] = "Register"
        /\ s = << "Number" >> <=> n = 1 /\ s[1] = "Number"
        /\ s = << "Identifier" >> <=> n = 1 /\ s[1] = "Identifier"
        /\ s = << "[", "Register", "]" >> <=> n = 3 /\ s[1] = "[" /\ s[2] = "Register" /\ s[3] = "]"
    BY <1>8
  <2> QED BY <2>1, <1>3, <1>4, <1>6, <1>7 DEF n
<1>10. ASSUME NEW sign
       PROVE  s = << "[", "Register", sign, "Number", "]" >>
                <=> /\ b = a + 5 /\ t[a].kind = "[" /\ t[a + 1].kind = "Register"
                    /\ t[a + 2].kind = sign /\ t[a + 3].kind = "Number" /\ t[a + 4].kind = "]"
  <2> HIDE DEF n
  <2>1. s = << "[", "Register", sign, "Number", "]" >> <=>
           n = 5 /\ s[1] = "[" /\ s[2] = "Register" /\ s[3] = sign /\ s[4] = "Number" /\ s[5] = "]"
    BY <1>8
  <2> QED BY <2>1, <1>5, <1>7 DEF n
<1>11. s \in OperandShapes <=> IsOperandAt(t, a, b)
  BY <1>2, <1>9, <1>10 DEF IsOperandAt
<1> QED BY <1>11 DEF s

\* What the lexer makes: complete tokens, with numbers that std::stoll takes,
\* and one end of file behind them.
IsExact(token) ==
    \/ token.kind = "Register" /\ token = Rn(token.index) /\ token.index \in Register
    \/ /\ token.kind = "Number" /\ token = Num(token.number)
       /\ token.number \in -LLONG_MAX - 1 .. LLONG_MAX
    \/ token.kind = "Identifier" /\ token = Id(token.text)
    \/ token.kind \in Punctuation \cup {"Newline"} /\ token = Mark(token.kind)

IsLexed(t) == IsTokens(t) /\ \A i \in 1 .. Len(t) - 1 : IsExact(t[i])

\* Such a token is known by its kind and what the kind carries.
LEMMA ExactKinds ==
    ASSUME NEW x, IsExact(x)
    PROVE  /\ x.kind = "Register" => x = Rn(x.index)
           /\ x.kind = "Number" => x = Num(x.number) /\ x.number \in -LLONG_MAX - 1 .. LLONG_MAX
           /\ x.kind = "Identifier" => x = Id(x.text)
           /\ x.kind \in Punctuation \cup {"Newline"} => x = Mark(x.kind)
<1>0. \A c \in Punctuation \cup {"Newline"} : c \notin {"Register", "Number", "Identifier"}
  BY DEF Punctuation
<1>1. CASE x.kind = "Register" /\ x = Rn(x.index)
  BY <1>0, <1>1
<1>2. CASE x.kind = "Number" /\ x = Num(x.number) /\ x.number \in -LLONG_MAX - 1 .. LLONG_MAX
  BY <1>0, <1>2
<1>3. CASE x.kind = "Identifier" /\ x = Id(x.text)
  BY <1>0, <1>3
<1>4. CASE x.kind \in Punctuation \cup {"Newline"} /\ x = Mark(x.kind)
  BY <1>0, <1>4
<1> QED BY <1>1, <1>2, <1>3, <1>4 DEF IsExact

\* The same, at every place of the tokens.
LEMMA LexedFacts ==
    ASSUME NEW t, IsLexed(t)
    PROVE  /\ Len(t) \in Nat /\ Len(t) > 0 /\ DOMAIN t = 1 .. Len(t)
           /\ t[Len(t)].kind = "EndOfFile"
           /\ \A i \in 1 .. Len(t) : t[i].kind # "EndOfFile" => i + 1 \in 1 .. Len(t)
           /\ \A i \in 1 .. Len(t) :
                 /\ t[i].kind = "Register" => t[i] = Rn(t[i].index)
                 /\ t[i].kind = "Number" =>
                       t[i] = Num(t[i].number) /\ t[i].number \in -LLONG_MAX - 1 .. LLONG_MAX
                 /\ t[i].kind = "Identifier" => t[i] = Id(t[i].text)
                 /\ t[i].kind \in Punctuation \cup {"Newline"} => t[i] = Mark(t[i].kind)
<1>1. IsTokens(t) /\ \A i \in 1 .. Len(t) - 1 : IsExact(t[i])
  BY DEF IsLexed
<1>n. Len(t) \in Nat
  BY <1>1, SequenceFacts DEF IsTokens
<1>2. Len(t) \in Nat /\ Len(t) > 0 /\ DOMAIN t = 1 .. Len(t) /\ t[Len(t)].kind = "EndOfFile"
  BY <1>1, SequenceFacts DEF IsTokens
<1>3. ASSUME NEW i \in 1 .. Len(t), t[i].kind # "EndOfFile" PROVE i + 1 \in 1 .. Len(t)
  BY <1>2, <1>3
<1>4. ASSUME NEW i \in 1 .. Len(t)
      PROVE  /\ t[i].kind = "Register" => t[i] = Rn(t[i].index)
             /\ t[i].kind = "Number" =>
                   t[i] = Num(t[i].number) /\ t[i].number \in -LLONG_MAX - 1 .. LLONG_MAX
             /\ t[i].kind = "Identifier" => t[i] = Id(t[i].text)
             /\ t[i].kind \in Punctuation \cup {"Newline"} => t[i] = Mark(t[i].kind)
  <2>1. CASE i = Len(t)
    BY <2>1, <1>2 DEF Punctuation
  <2>2. CASE i # Len(t)
    <3>0. i \in 1 .. Len(t) - 1
      <4> DEFINE n == Len(t)
      <4>1. n \in Nat /\ i \in 1 .. n /\ i # n
        BY <2>2, <1>n
      <4> HIDE DEF n
      <4>2. i \in 1 .. n - 1
        BY <4>1
      <4> QED BY <4>2 DEF n
    <3>1. IsExact(t[i])
      BY <3>0, <1>1
    <3> QED BY <3>1, ExactKinds
  <2> QED BY <2>1, <2>2
<1> QED BY <1>2, <1>3, <1>4

\* What Consumes asks for of one token.
LEMMA OneConsumed ==
    ASSUME NEW t, Len(t) \in Nat, NEW p \in Int, NEW x
    PROVE  Consumes(t, p, << x >>) <=> p <= Len(t) /\ t[p].kind = x
<1> DEFINE kinds == << x >>
<1>0. p + 1 - 1 = p
  OBVIOUS
<1>1. DOMAIN kinds = {1} /\ Len(kinds) = 1 /\ kinds[1] = x
  OBVIOUS
<1> HIDE DEF kinds
<1>2. Consumes(t, p, kinds) <=> p + 1 - 1 <= Len(t) /\ t[p + 1 - 1].kind = x
  BY <1>1 DEF Consumes
<1> QED BY <1>2, <1>0 DEF kinds

\* Of two.
LEMMA TwoConsumed ==
    ASSUME NEW t, Len(t) \in Nat, NEW p \in Int, NEW x, NEW y
    PROVE  Consumes(t, p, << x, y >>) <=>
               p + 1 <= Len(t) /\ t[p].kind = x /\ t[p + 1].kind = y
<1> DEFINE kinds == << x, y >>
<1>0. p + 1 - 1 = p /\ p + 2 - 1 = p + 1
  OBVIOUS
<1>1. DOMAIN kinds = {1, 2} /\ Len(kinds) = 2 /\ kinds[1] = x /\ kinds[2] = y
  OBVIOUS
<1> HIDE DEF kinds
<1>2. Consumes(t, p, kinds) <=>
         p + 2 - 1 <= Len(t) /\ t[p + 1 - 1].kind = x /\ t[p + 2 - 1].kind = y
  BY <1>1 DEF Consumes
<1> QED BY <1>2, <1>0 DEF kinds

\* Of four.
LEMMA FourConsumed ==
    ASSUME NEW t, Len(t) \in Nat, NEW p \in Int, NEW x, NEW y, NEW z, NEW u
    PROVE  Consumes(t, p, << x, y, z, u >>) <=>
               /\ p + 3 <= Len(t) /\ t[p].kind = x /\ t[p + 1].kind = y
               /\ t[p + 2].kind = z /\ t[p + 3].kind = u
<1> DEFINE kinds == << x, y, z, u >>
<1>0. p + 1 - 1 = p /\ p + 2 - 1 = p + 1 /\ p + 3 - 1 = p + 2 /\ p + 4 - 1 = p + 3
  OBVIOUS
<1>1. /\ DOMAIN kinds = {1, 2, 3, 4} /\ Len(kinds) = 4
      /\ kinds[1] = x /\ kinds[2] = y /\ kinds[3] = z /\ kinds[4] = u
  OBVIOUS
<1> HIDE DEF kinds
<1>2. Consumes(t, p, kinds) <=>
         /\ p + 4 - 1 <= Len(t)
         /\ t[p + 1 - 1].kind = x /\ t[p + 2 - 1].kind = y
         /\ t[p + 3 - 1].kind = z /\ t[p + 4 - 1].kind = u
  BY <1>1 DEF Consumes
<1> QED BY <1>2, <1>0 DEF kinds

\* Two tokens behind the one at q.
LEMMA TwoBehind ==
    ASSUME NEW t, Len(t) \in Nat, NEW q \in Int, NEW x, NEW y
    PROVE  Consumes(t, q + 1, << x, y >>) <=>
               q + 2 <= Len(t) /\ t[q + 1].kind = x /\ t[q + 2].kind = y
<1>1. q + 1 \in Int /\ q + 1 + 1 = q + 2
  OBVIOUS
<1>2. Consumes(t, q + 1, << x, y >>) <=>
         q + 1 + 1 <= Len(t) /\ t[q + 1].kind = x /\ t[q + 1 + 1].kind = y
  BY <1>1, TwoConsumed
<1> QED BY <1>1, <1>2

\* Four tokens behind it.
LEMMA FourBehind ==
    ASSUME NEW t, Len(t) \in Nat, NEW q \in Int, NEW x, NEW y, NEW z, NEW u
    PROVE  Consumes(t, q + 1, << x, y, z, u >>) <=>
               /\ q + 4 <= Len(t) /\ t[q + 1].kind = x /\ t[q + 2].kind = y
               /\ t[q + 3].kind = z /\ t[q + 4].kind = u
<1>1. /\ q + 1 \in Int /\ q + 1 + 1 = q + 2 /\ q + 1 + 2 = q + 3 /\ q + 1 + 3 = q + 4
  OBVIOUS
<1>2. Consumes(t, q + 1, << x, y, z, u >>) <=>
         /\ q + 1 + 3 <= Len(t) /\ t[q + 1].kind = x /\ t[q + 1 + 1].kind = y
         /\ t[q + 1 + 2].kind = z /\ t[q + 1 + 3].kind = u
  BY <1>1, FourConsumed
<1> QED BY <1>1, <1>2

\* parse_operand takes exactly the stretches that have the shape of an operand.
LEMMA ParseOperandAt ==
    ASSUME NEW t, IsLexed(t), NEW q \in 1 .. Len(t), NEW r, r = parse_operand(t, q)
    PROVE  /\ r.ok => IsOperandAt(t, q, r.next) /\ r.next \in q + 1 .. Len(t)
           /\ \A b \in 1 .. Len(t) : IsOperandAt(t, q, b) => r.ok /\ r.next = b
<1> DEFINE n == Len(t)
<1>n. /\ n \in Nat /\ IsTokens(t)
      /\ \A i \in 1 .. n : t[i].kind # "EndOfFile" => i + 1 \in 1 .. n
  BY LexedFacts DEF IsLexed
<1>0. /\ ~Failed.ok
      /\ \A v, x : Returns(v, x).ok /\ Returns(v, x).value = v /\ Returns(v, x).next = x
  BY DEF Failed, Returns
<1> DEFINE short == Consumes(t, q + 1, << "Register", "]" >>)
           plus  == Consumes(t, q + 1, << "Register", "+", "Number", "]" >>)
           minus == Consumes(t, q + 1, << "Register", "-", "Number", "]" >>)
<1>1. short <=> q + 2 <= n /\ t[q + 1].kind = "Register" /\ t[q + 2].kind = "]"
  BY <1>n, TwoBehind
<1>3. /\ plus <=> /\ q + 4 <= n /\ t[q + 1].kind = "Register" /\ t[q + 2].kind = "+"
                  /\ t[q + 3].kind = "Number" /\ t[q + 4].kind = "]"
      /\ minus <=> /\ q + 4 <= n /\ t[q + 1].kind = "Register" /\ t[q + 2].kind = "-"
                   /\ t[q + 3].kind = "Number" /\ t[q + 4].kind = "]"
  BY <1>n, FourBehind
<1>4. parse_memory_operand(t, q + 1) =
         CASE short -> Returns(Mem(t[q + 1].index, 0), q + 3)
           [] plus  -> Returns(Mem(t[q + 1].index, t[q + 3].number), q + 5)
           [] minus -> Returns(Mem(t[q + 1].index, Negated(t[q + 3].number)), q + 5)
           [] OTHER -> Failed
  <2>1. q + 1 + 2 = q + 3 /\ q + 1 + 4 = q + 5
    OBVIOUS
  <2> HIDE DEF short, plus, minus
  <2> QED BY <2>1 DEF parse_memory_operand, short, plus, minus
<1> HIDE DEF short, plus, minus, n
<1>5. t[q].kind = "[" =>
         \/ short /\ ~plus /\ ~minus /\ r.ok /\ r.next = q + 3
         \/ plus /\ ~short /\ ~minus /\ r.ok /\ r.next = q + 5
         \/ minus /\ ~plus /\ ~short /\ r.ok /\ r.next = q + 5
         \/ ~short /\ ~plus /\ ~minus /\ ~r.ok
  <2> SUFFICES ASSUME t[q].kind = "["
               PROVE \/ short /\ ~plus /\ ~minus /\ r.ok /\ r.next = q + 3
                     \/ plus /\ ~short /\ ~minus /\ r.ok /\ r.next = q + 5
                     \/ minus /\ ~plus /\ ~short /\ r.ok /\ r.next = q + 5
                     \/ ~short /\ ~plus /\ ~minus /\ ~r.ok
    OBVIOUS
  <2>1. r = parse_memory_operand(t, q + 1)
    BY DEF parse_operand
  <2>2. ~(short /\ plus) /\ ~(short /\ minus) /\ ~(plus /\ minus)
    BY <1>1, <1>3
  <2>3. CASE short
    <3>1. r = Returns(Mem(t[q + 1].index, 0), q + 3)
      BY <2>1, <2>2, <2>3, <1>4
    <3> QED BY <3>1, <2>2, <2>3, <1>0
  <2>4. CASE plus
    <3>1. r = Returns(Mem(t[q + 1].index, t[q + 3].number), q + 5)
      BY <2>1, <2>2, <2>4, <1>4
    <3> QED BY <3>1, <2>2, <2>4, <1>0
  <2>5. CASE minus
    <3>1. r = Returns(Mem(t[q + 1].index, Negated(t[q + 3].number)), q + 5)
      BY <2>1, <2>2, <2>5, <1>4
    <3> QED BY <3>1, <2>2, <2>5, <1>0
  <2>6. CASE ~short /\ ~plus /\ ~minus
    <3>1. r = Failed
      BY <2>1, <2>6, <1>4
    <3> QED BY <3>1, <2>6, <1>0
  <2> QED BY <2>3, <2>4, <2>5, <2>6
<1>6. t[q].kind \in {"Register", "Number", "Identifier"} => r.ok /\ r.next = q + 1
  BY <1>0 DEF parse_operand
<1>7. t[q].kind \notin {"[", "Register", "Number", "Identifier"} => ~r.ok
  <2> SUFFICES ASSUME t[q].kind \notin {"[", "Register", "Number", "Identifier"} PROVE ~r.ok
    OBVIOUS
  <2>1. r = Failed
    BY DEF parse_operand
  <2> QED BY <2>1, <1>0
<1>8. ASSUME r.ok PROVE IsOperandAt(t, q, r.next) /\ r.next \in q + 1 .. n
  <2>1. CASE t[q].kind = "["
    <3>0. \A i \in 1 .. n : t[i].kind = "]" => i + 1 \in 1 .. n
      BY <1>n
    <3>1. CASE short /\ r.next = q + 3
      <4>1. q + 2 \in 1 .. n
        BY <3>1, <1>1, <1>n
      <4>2. q + 3 \in 1 .. n
        BY <3>0, <4>1, <3>1, <1>1
      <4> QED BY <2>1, <3>1, <4>2, <1>1, <1>n DEF IsOperandAt
    <3>2. CASE (plus \/ minus) /\ r.next = q + 5
      <4>1. q + 4 \in 1 .. n /\ t[q + 4].kind = "]"
        BY <3>2, <1>3, <1>n
      <4>2. q + 5 \in 1 .. n
        BY <3>0, <4>1
      <4> QED BY <2>1, <3>2, <4>2, <1>3, <1>n DEF IsOperandAt
    <3> QED BY <2>1, <3>1, <3>2, <1>5, <1>8
  <2>2. CASE t[q].kind \in {"Register", "Number", "Identifier"}
    <3>1. q + 1 \in 1 .. n
      BY <2>2, <1>n DEF n
    <3> QED BY <2>2, <3>1, <1>6, <1>n DEF IsOperandAt
  <2> QED BY <2>1, <2>2, <1>7, <1>8
<1>9. ASSUME NEW b \in 1 .. n, IsOperandAt(t, q, b) PROVE r.ok /\ r.next = b
  <2>1. CASE b = q + 1 /\ t[q].kind \in {"Register", "Number", "Identifier"}
    BY <2>1, <1>6
  <2>2. CASE b = q + 3 /\ t[q].kind = "[" /\ t[q + 1].kind = "Register" /\ t[q + 2].kind = "]"
    <3>1. short
      BY <2>2, <1>1, <1>n
    <3> QED BY <2>2, <3>1, <1>5
  <2>3. CASE /\ b = q + 5 /\ t[q].kind = "[" /\ t[q + 1].kind = "Register"
             /\ t[q + 2].kind \in {"+", "-"} /\ t[q + 3].kind = "Number" /\ t[q + 4].kind = "]"
    <3>1. plus \/ minus
      BY <2>3, <1>3, <1>n
    <3> QED BY <2>3, <3>1, <1>5
  <2> QED BY <1>9, <2>1, <2>2, <2>3 DEF IsOperandAt
<1> QED BY <1>8, <1>9 DEF n

IsComma(t, i) == t[i].kind = ","

\* No comma and no end of line lies between two positions.
Plain(t, a, b) == \A i \in a .. b - 1 : ~IsComma(t, i) /\ ~EndsStatement(t, i)

\* No token of an operand is a comma or ends a line,
LEMMA PlainToken ==
    ASSUME NEW t, NEW i,
           t[i].kind \in {"Register", "Number", "Identifier", "[", "]", "+", "-"}
    PROVE  ~IsComma(t, i) /\ ~EndsStatement(t, i)
  BY Zenon DEF IsComma, EndsStatement

\* so no operand goes on over one.
LEMMA OperandIsPlain ==
    ASSUME NEW t, NEW a \in Int, NEW b \in Int, IsOperandAt(t, a, b)
    PROVE  a < b /\ Plain(t, a, b)
<1>1. CASE b = a + 1 /\ t[a].kind \in {"Register", "Number", "Identifier"}
  <2>1. ASSUME NEW i \in a .. b - 1 PROVE ~IsComma(t, i) /\ ~EndsStatement(t, i)
    <3>1. i = a
      BY <1>1
    <3>2. t[i].kind \in {"Register", "Number", "Identifier", "[", "]", "+", "-"}
      BY <3>1, <1>1
    <3> QED BY <3>2, PlainToken
  <2>2. a < b
    BY <1>1
  <2>3. Plain(t, a, b)
    BY <2>1 DEF Plain
  <2> QED BY <2>2, <2>3
<1>2. CASE b = a + 3 /\ t[a].kind = "[" /\ t[a + 1].kind = "Register" /\ t[a + 2].kind = "]"
  <2>1. ASSUME NEW i \in a .. b - 1 PROVE ~IsComma(t, i) /\ ~EndsStatement(t, i)
    <3>1. i = a \/ i = a + 1 \/ i = a + 2
      BY <1>2
    <3>2. t[i].kind \in {"Register", "Number", "Identifier", "[", "]", "+", "-"}
      BY <3>1, <1>2
    <3> QED BY <3>2, PlainToken
  <2>2. a < b
    BY <1>2
  <2>3. Plain(t, a, b)
    BY <2>1 DEF Plain
  <2> QED BY <2>2, <2>3
<1>3. CASE /\ b = a + 5 /\ t[a].kind = "[" /\ t[a + 1].kind = "Register"
           /\ t[a + 2].kind \in {"+", "-"} /\ t[a + 3].kind = "Number" /\ t[a + 4].kind = "]"
  <2>1. ASSUME NEW i \in a .. b - 1 PROVE ~IsComma(t, i) /\ ~EndsStatement(t, i)
    <3>1. i = a \/ i = a + 1 \/ i = a + 2 \/ i = a + 3 \/ i = a + 4
      BY <1>3
    <3>2. t[i].kind \in {"Register", "Number", "Identifier", "[", "]", "+", "-"}
      BY <3>1, <1>3
    <3> QED BY <3>2, PlainToken
  <2>2. a < b
    BY <1>3
  <2>3. Plain(t, a, b)
    BY <2>1 DEF Plain
  <2> QED BY <2>2, <2>3
<1> QED BY <1>1, <1>2, <1>3 DEF IsOperandAt

\* The build leaves the least number as it is, so negating twice changes nothing.
LEMMA NegatedTwice == \A n \in -LLONG_MAX - 1 .. LLONG_MAX : Negated(Negated(n)) = n
  BY LexerAssumption DEF Negated

\* The tokens parse_operand reads an operand from spell it.
LEMMA ParseOperandSpells ==
    ASSUME NEW t, IsLexed(t), NEW q \in 1 .. Len(t), NEW r, r = parse_operand(t, q), r.ok
    PROVE  Between(t, q, r.next) \in OperandSpellings(r.value)
<1> DEFINE b == r.next
           s == Between(t, q, b)
           v == r.value
<1>l. /\ Len(t) \in Nat
      /\ \A i \in 1 .. Len(t) :
            /\ t[i].kind = "Register" => t[i] = Rn(t[i].index)
            /\ t[i].kind = "Number" =>
                  t[i] = Num(t[i].number) /\ t[i].number \in -LLONG_MAX - 1 .. LLONG_MAX
            /\ t[i].kind = "Identifier" => t[i] = Id(t[i].text)
            /\ t[i].kind \in {"[", "]", "+", "-"} => t[i] = Mark(t[i].kind)
  BY LexedFacts DEF Punctuation
<1>n. Len(t) \in Nat
  BY <1>l
<1>0. \A w, x : Returns(w, x).value = w /\ Returns(w, x).next = x
  BY DEF Returns
<1>1. IsOperandAt(t, q, b) /\ b \in q + 1 .. Len(t)
  BY ParseOperandAt
<1>2. IsSequence(s) /\ Len(s) = b - q /\ \A k \in 1 .. b - q : s[k] = t[q + k - 1]
  <2>1. q \in Int /\ b \in Int /\ q <= b
    BY <1>1, <1>n
  <2>2. /\ IsSequence(Between(t, q, b)) /\ Len(Between(t, q, b)) = b - q
        /\ \A k \in 1 .. b - q : Between(t, q, b)[k] = t[q + k - 1]
    <3> HIDE DEF b
    <3> QED BY <2>1, BetweenFacts
  <2> QED BY <2>2
<1> HIDE DEF s
<1>t. /\ \A x : s = << x >> <=> Len(s) = 1 /\ s[1] = x
      /\ \A x, y, z : s = << x, y, z >> <=> Len(s) = 3 /\ s[1] = x /\ s[2] = y /\ s[3] = z
      /\ \A x, y, z, u, w :
            s = << x, y, z, u, w >> <=>
                Len(s) = 5 /\ s[1] = x /\ s[2] = y /\ s[3] = z /\ s[4] = u /\ s[5] = w
  BY <1>2, TupleFacts
<1>3. b = q + 1 => s = << t[q] >>
  <2> SUFFICES ASSUME b = q + 1 PROVE s = << t[q] >>
    OBVIOUS
  <2>1. q + 1 - 1 = q /\ b - q = 1 /\ 1 \in 1 .. 1
    OBVIOUS
  <2>2. Len(s) = 1 /\ s[1] = t[q]
    BY <2>1, <1>2
  <2> QED BY <2>2, <1>t
<1>4. b = q + 3 => s = << t[q], t[q + 1], t[q + 2] >>
  <2> SUFFICES ASSUME b = q + 3 PROVE s = << t[q], t[q + 1], t[q + 2] >>
    OBVIOUS
  <2>1. /\ q + 1 - 1 = q /\ q + 2 - 1 = q + 1 /\ q + 3 - 1 = q + 2 /\ b - q = 3
        /\ 1 \in 1 .. 3 /\ 2 \in 1 .. 3 /\ 3 \in 1 .. 3
    OBVIOUS
  <2>2. Len(s) = 3 /\ s[1] = t[q] /\ s[2] = t[q + 1] /\ s[3] = t[q + 2]
    BY <2>1, <1>2
  <2> QED BY <2>2, <1>t
<1>5. b = q + 5 => s = << t[q], t[q + 1], t[q + 2], t[q + 3], t[q + 4] >>
  <2> SUFFICES ASSUME b = q + 5 PROVE s = << t[q], t[q + 1], t[q + 2], t[q + 3], t[q + 4] >>
    OBVIOUS
  <2>1. /\ q + 1 - 1 = q /\ q + 2 - 1 = q + 1 /\ q + 3 - 1 = q + 2 /\ q + 4 - 1 = q + 3
        /\ q + 5 - 1 = q + 4 /\ b - q = 5
        /\ 1 \in 1 .. 5 /\ 2 \in 1 .. 5 /\ 3 \in 1 .. 5 /\ 4 \in 1 .. 5 /\ 5 \in 1 .. 5
    OBVIOUS
  <2>2. /\ Len(s) = 5 /\ s[1] = t[q] /\ s[2] = t[q + 1] /\ s[3] = t[q + 2]
        /\ s[4] = t[q + 3] /\ s[5] = t[q + 4]
    BY <2>1, <1>2
  <2> QED BY <2>2, <1>t
<1>6. CASE t[q].kind = "Register"
  <2>1. v = Reg(t[q].index) /\ b = q + 1
    BY <1>6, <1>0 DEF parse_operand
  <2>2. OperandSpellings(Reg(t[q].index)) = {<< Rn(t[q].index) >>}
    BY DEF OperandSpellings, Reg
  <2> QED BY <2>1, <2>2, <1>3, <1>6, <1>l DEF s
<1>7. CASE t[q].kind = "Number"
  <2>1. v = Imm(t[q].number) /\ b = q + 1
    BY <1>7, <1>0 DEF parse_operand
  <2>2. OperandSpellings(Imm(t[q].number)) = {<< Num(t[q].number) >>}
    BY DEF OperandSpellings, Imm
  <2> QED BY <2>1, <2>2, <1>3, <1>7, <1>l DEF s
<1>8. CASE t[q].kind = "Identifier"
  <2>1. v = Sym(t[q].text) /\ b = q + 1
    BY <1>8, <1>0 DEF parse_operand
  <2>2. OperandSpellings(Sym(t[q].text)) = {<< Id(t[q].text) >>}
    BY DEF OperandSpellings, Sym
  <2> QED BY <2>1, <2>2, <1>3, <1>8, <1>l DEF s
<1>9. CASE t[q].kind = "["
  <2> DEFINE i == t[q + 1].index
             m == t[q + 3].number
  <2>0. ASSUME NEW offset
        PROVE  OperandSpellings(Mem(i, offset)) = MemorySpellings(i, offset)
    BY DEF OperandSpellings, Mem
  <2>1. r = parse_memory_operand(t, q + 1)
    BY <1>9 DEF parse_operand
  <2>k. /\ Consumes(t, q + 1, << "Register", "]" >>) => t[q + 2].kind = "]"
        /\ Consumes(t, q + 1, << "Register", "+", "Number", "]" >>) => t[q + 2].kind = "+"
        /\ Consumes(t, q + 1, << "Register", "-", "Number", "]" >>) => t[q + 2].kind = "-"
    BY <1>n, TwoBehind, FourBehind
  <2>2. CASE Consumes(t, q + 1, << "Register", "]" >>)
    <3>1. q + 2 <= Len(t) /\ t[q + 1].kind = "Register" /\ t[q + 2].kind = "]"
      BY <2>2, <1>n, TwoBehind
    <3>2. v = Mem(i, 0) /\ b = q + 3
      <4>1. r = Returns(Mem(i, 0), q + 1 + 2) /\ q + 1 + 2 = q + 3
        BY <2>1, <2>2, <2>k DEF parse_memory_operand
      <4> QED BY <4>1, <1>0
    <3>3. s = << Mark("["), Rn(i), Mark("]") >>
      <4>1. q + 1 \in 1 .. Len(t) /\ q + 2 \in 1 .. Len(t)
        BY <3>1, <1>n
      <4>2. t[q] = Mark("[") /\ t[q + 1] = Rn(i) /\ t[q + 2] = Mark("]")
        BY <4>1, <3>1, <1>9, <1>l
      <4> QED BY <4>2, <3>2, <1>4
    <3>4. s \in MemorySpellings(i, 0)
      BY <3>3 DEF MemorySpellings
    <3> QED BY <3>2, <3>4, <2>0 DEF s
  <2>3. CASE /\ ~Consumes(t, q + 1, << "Register", "]" >>)
             /\ Consumes(t, q + 1, << "Register", "+", "Number", "]" >>)
    <3>1. /\ q + 4 <= Len(t) /\ t[q + 1].kind = "Register" /\ t[q + 2].kind = "+"
          /\ t[q + 3].kind = "Number" /\ t[q + 4].kind = "]"
      BY <2>3, <1>n, FourBehind
    <3>2. v = Mem(i, m) /\ b = q + 5
      <4>1. /\ r = Returns(Mem(i, t[q + 1 + 2].number), q + 1 + 4)
            /\ q + 1 + 4 = q + 5 /\ q + 1 + 2 = q + 3
        BY <2>1, <2>3, <2>k DEF parse_memory_operand
      <4> QED BY <4>1, <1>0
    <3>3. s = << Mark("["), Rn(i), Mark("+"), Num(m), Mark("]") >>
      <4>1. /\ q + 1 \in 1 .. Len(t) /\ q + 2 \in 1 .. Len(t) /\ q + 3 \in 1 .. Len(t)
            /\ q + 4 \in 1 .. Len(t)
        BY <3>1, <1>n
      <4>2. /\ t[q] = Mark("[") /\ t[q + 1] = Rn(i) /\ t[q + 2] = Mark("+")
            /\ t[q + 3] = Num(m) /\ t[q + 4] = Mark("]")
        BY <4>1, <3>1, <1>9, <1>l
      <4> QED BY <4>2, <3>2, <1>5
    <3>4. s \in MemorySpellings(i, m)
      BY <3>3 DEF MemorySpellings
    <3> QED BY <3>2, <3>4, <2>0 DEF s
  <2>4. CASE /\ ~Consumes(t, q + 1, << "Register", "]" >>)
             /\ ~Consumes(t, q + 1, << "Register", "+", "Number", "]" >>)
             /\ Consumes(t, q + 1, << "Register", "-", "Number", "]" >>)
    <3>1. /\ q + 4 <= Len(t) /\ t[q + 1].kind = "Register" /\ t[q + 2].kind = "-"
          /\ t[q + 3].kind = "Number" /\ t[q + 4].kind = "]"
      BY <2>4, <1>n, FourBehind
    <3>2. v = Mem(i, Negated(m)) /\ b = q + 5
      <4>1. /\ r = Returns(Mem(i, Negated(t[q + 1 + 2].number)), q + 1 + 4)
            /\ q + 1 + 4 = q + 5 /\ q + 1 + 2 = q + 3
        BY <2>1, <2>4, <2>k DEF parse_memory_operand
      <4> QED BY <4>1, <1>0
    <3>3. s = << Mark("["), Rn(i), Mark("-"), Num(m), Mark("]") >> /\ Negated(Negated(m)) = m
      <4>1. /\ q + 1 \in 1 .. Len(t) /\ q + 2 \in 1 .. Len(t) /\ q + 3 \in 1 .. Len(t)
            /\ q + 4 \in 1 .. Len(t)
        BY <3>1, <1>n
      <4>2. /\ t[q] = Mark("[") /\ t[q + 1] = Rn(i) /\ t[q + 2] = Mark("-")
            /\ t[q + 3] = Num(m) /\ t[q + 4] = Mark("]") /\ m \in -LLONG_MAX - 1 .. LLONG_MAX
        BY <4>1, <3>1, <1>9, <1>l
      <4> QED BY <4>2, <3>2, <1>5, NegatedTwice
    <3>4. s \in MemorySpellings(i, Negated(m))
      BY <3>3 DEF MemorySpellings
    <3> QED BY <3>2, <3>4, <2>0 DEF s
  <2>5. CASE /\ ~Consumes(t, q + 1, << "Register", "]" >>)
             /\ ~Consumes(t, q + 1, << "Register", "+", "Number", "]" >>)
             /\ ~Consumes(t, q + 1, << "Register", "-", "Number", "]" >>)
    <3>1. r = Failed
      BY <2>1, <2>5 DEF parse_memory_operand
    <3> QED BY <3>1 DEF Failed
  <2> QED BY <2>2, <2>3, <2>4, <2>5
<1>10. CASE t[q].kind \notin {"[", "Register", "Number", "Identifier"}
  <2>1. r = Failed
    BY <1>10 DEF parse_operand
  <2> QED BY <2>1 DEF Failed
<1> QED BY <1>6, <1>7, <1>8, <1>9, <1>10

-----------------------------------------------------------------------------
(* Lists of operands: the first one, and the list behind its comma. *)

\* The commas between two positions can be counted.
LEMMA CommasFinite ==
    ASSUME NEW t, NEW q \in Int, NEW e \in Int
    PROVE  /\ Commas(t, q, e) = {c \in q .. e - 1 : IsComma(t, c)}
           /\ Commas(t, q, e) \subseteq q .. e - 1
           /\ IsFiniteSet(Commas(t, q, e)) /\ Cardinality(Commas(t, q, e)) \in Nat
<1>1. Commas(t, q, e) = {c \in q .. e - 1 : IsComma(t, c)}
  BY Zenon DEF Commas, IsComma
<1>2. IsFiniteSet(q .. e - 1)
  BY FS_Interval
<1>3. Commas(t, q, e) \subseteq q .. e - 1
  BY <1>1
<1>4. IsFiniteSet(Commas(t, q, e))
  BY <1>2, <1>3, FS_Subset
<1> QED BY <1>1, <1>3, <1>4, FS_CardinalityType

\* The commas are the first one and those behind it.
LEMMA CommasSplit ==
    ASSUME NEW t, NEW q \in Int, NEW b \in Int, NEW e \in Int, q < b, b <= e, Plain(t, q, b)
    PROVE  /\ b = e => Commas(t, q, e) = {}
           /\ b < e /\ IsComma(t, b) =>
                 Commas(t, q, e) = {b} \cup Commas(t, b + 1, e) /\ b \notin Commas(t, b + 1, e)
<1>0. \A c \in q .. b - 1 : ~IsComma(t, c)
  BY DEF Plain
<1>1. /\ Commas(t, q, e) = {c \in q .. e - 1 : IsComma(t, c)}
      /\ Commas(t, b + 1, e) = {c \in b + 1 .. e - 1 : IsComma(t, c)}
  BY CommasFinite
<1>2. b = e => Commas(t, q, e) = {}
  BY <1>0, <1>1
<1>3. ASSUME b < e, IsComma(t, b)
      PROVE  Commas(t, q, e) = {b} \cup Commas(t, b + 1, e) /\ b \notin Commas(t, b + 1, e)
  <2>1. /\ \A c \in q .. e - 1 : c \in q .. b - 1 \/ c = b \/ c \in b + 1 .. e - 1
        /\ \A c : c \in b + 1 .. e - 1 => c \in q .. e - 1 /\ c # b
        /\ b \in q .. e - 1
    BY <1>3
  <2> QED BY <1>0, <1>1, <1>3, <2>1
<1> QED BY <1>2, <1>3

\* A list of operands is an operand up to the end, or one up to a comma with a
\* list behind it.
LEMMA ListUnrolls ==
    ASSUME NEW t, NEW q \in Int, NEW e \in Int, q <= e
    PROVE  IsOperandList(t, q, e) <=>
               \/ IsOperandAt(t, q, e)
               \/ \E b \in q .. e - 1 : /\ IsOperandAt(t, q, b) /\ IsComma(t, b)
                                        /\ IsOperandList(t, b + 1, e)
<1> DEFINE C == Commas(t, q, e)
<1>c. C = {c \in q .. e - 1 : IsComma(t, c)}
  BY CommasFinite
<1>s. \A a, b \in Int : a < b => (Shape(Between(t, a + 1, b)) \in OperandShapes <=> IsOperandAt(t, a + 1, b))
  <2> TAKE a, b \in Int
  <2> SUFFICES ASSUME a < b
               PROVE  Shape(Between(t, a + 1, b)) \in OperandShapes <=> IsOperandAt(t, a + 1, b)
    OBVIOUS
  <2>1. a + 1 \in Int /\ a + 1 <= b
    OBVIOUS
  <2> QED BY <2>1, OperandAt
<1>d. \A x \in Int : IsOperandList(t, x, e) <=>
         \A a \in {x - 1} \cup Commas(t, x, e) : \E b \in {e} \cup Commas(t, x, e) :
             a < b /\ IsOperandAt(t, a + 1, b)
  <2> TAKE x \in Int
  <2>1. \A c \in Commas(t, x, e) : c \in Int
    BY CommasFinite
  <2>2. \A a \in {x - 1} \cup Commas(t, x, e) : \A b \in {e} \cup Commas(t, x, e) : a \in Int /\ b \in Int
    BY <2>1
  <2>3. \A a \in {x - 1} \cup Commas(t, x, e) : \A b \in {e} \cup Commas(t, x, e) :
           (a < b /\ Shape(Between(t, a + 1, b)) \in OperandShapes <=> a < b /\ IsOperandAt(t, a + 1, b))
    BY <2>2, <1>s
  <2> QED BY <2>3 DEF IsOperandList
<1> HIDE DEF C
<1>1. ASSUME IsOperandList(t, q, e)
      PROVE  \/ IsOperandAt(t, q, e)
             \/ \E b \in q .. e - 1 : /\ IsOperandAt(t, q, b) /\ IsComma(t, b)
                                      /\ IsOperandList(t, b + 1, e)
  <2>1. \A a \in {q - 1} \cup C : \E b \in {e} \cup C : a < b /\ IsOperandAt(t, a + 1, b)
    BY <1>1, <1>d DEF C
  <2>2. PICK b \in {e} \cup C : q - 1 < b /\ IsOperandAt(t, q - 1 + 1, b)
    BY <2>1
  <2>3. q - 1 + 1 = q
    OBVIOUS
  <2>4. CASE b \in C
    <3>1. b \in q .. e - 1 /\ IsComma(t, b)
      BY <2>4, <1>c
    <3>0. Commas(t, b + 1, e) = {c \in b + 1 .. e - 1 : IsComma(t, c)}
      BY <3>1, CommasFinite
    <3>2. \A a \in {b + 1 - 1} \cup Commas(t, b + 1, e) : a \in {q - 1} \cup C /\ a >= b
      <4>1. b + 1 - 1 = b
        BY <3>1
      <4>2. \A a \in Commas(t, b + 1, e) : a \in C /\ a >= b
        BY <3>0, <3>1, <1>c
      <4> QED BY <4>1, <4>2, <2>4, <3>1
    <3>3. \A d \in {e} \cup C : d > b => d \in {e} \cup Commas(t, b + 1, e)
      BY <3>0, <3>1, <1>c
    <3>4. ASSUME NEW a \in {b + 1 - 1} \cup Commas(t, b + 1, e)
          PROVE  \E d \in {e} \cup Commas(t, b + 1, e) : a < d /\ IsOperandAt(t, a + 1, d)
      <4>1. PICK d \in {e} \cup C : a < d /\ IsOperandAt(t, a + 1, d)
        BY <2>1, <3>2
      <4>2. a \in Int /\ d \in Int /\ b \in Int /\ a >= b
        BY <3>1, <3>2, <1>c
      <4>3. d > b
        BY <4>1, <4>2
      <4> QED BY <4>1, <4>3, <3>3
    <3>5. IsOperandList(t, b + 1, e)
      BY <3>1, <3>4, <1>d
    <3> QED BY <2>2, <2>3, <3>1, <3>5
  <2> QED BY <2>2, <2>3, <2>4
<1>2. ASSUME IsOperandAt(t, q, e)
      PROVE  IsOperandList(t, q, e)
  <2>1. q < e /\ Plain(t, q, e)
    BY <1>2, OperandIsPlain
  <2>2. Commas(t, q, e) = {}
    <3>1. e <= e
      OBVIOUS
    <3> QED BY <2>1, <3>1, CommasSplit
  <2>3. q - 1 < e /\ q - 1 + 1 = q
    OBVIOUS
  <2> QED BY <1>2, <1>d, <2>2, <2>3
<1>3. ASSUME NEW b \in q .. e - 1, IsOperandAt(t, q, b), IsComma(t, b), IsOperandList(t, b + 1, e)
      PROVE  IsOperandList(t, q, e)
  <2>1. q < b /\ Plain(t, q, b)
    BY <1>3, OperandIsPlain
  <2>2. C = {b} \cup Commas(t, b + 1, e)
    BY <2>1, <1>3, CommasSplit DEF C
  <2>3. \A a \in {b + 1 - 1} \cup Commas(t, b + 1, e) : \E d \in {e} \cup Commas(t, b + 1, e) :
            a < d /\ IsOperandAt(t, a + 1, d)
    BY <1>3, <1>d
  <2>4. q - 1 < b /\ q - 1 + 1 = q /\ b + 1 - 1 = b
    OBVIOUS
  <2>5. ASSUME NEW a \in {q - 1} \cup C
        PROVE  \E d \in {e} \cup C : a < d /\ IsOperandAt(t, a + 1, d)
    <3>1. CASE a = q - 1
      <4>1. b \in C /\ a < b /\ IsOperandAt(t, a + 1, b)
        BY <3>1, <2>2, <2>4, <1>3
      <4> QED BY <4>1
    <3>2. CASE a \in C
      <4>1. a \in {b + 1 - 1} \cup Commas(t, b + 1, e)
        BY <3>2, <2>2, <2>4
      <4> QED BY <4>1, <2>2, <2>3
    <3> QED BY <3>1, <3>2
  <2> QED BY <2>5, <1>d DEF C
<1> QED BY <1>1, <1>2, <1>3

\* The operands of the rest move one place up behind the first.
LEMMA SpellsJoined ==
    ASSUME NEW t, NEW q \in Int, NEW b \in Int, NEW e \in Int, q < b, b < e,
           Plain(t, q, b), IsComma(t, b),
           NEW v, Between(t, q, b) \in OperandSpellings(v),
           NEW rest, IsSequence(rest), SpellsOperands(t, b + 1, e, rest)
    PROVE  SpellsOperands(t, q, e, << v >> \o rest)
<1> DEFINE C == Commas(t, q, e)
           D == Commas(t, b + 1, e)
           all == << v >> \o rest
<1>1. C = {b} \cup D /\ b \notin D
  <2>1. b <= e
    OBVIOUS
  <2>2. Commas(t, q, e) = {b} \cup Commas(t, b + 1, e) /\ b \notin Commas(t, b + 1, e)
    BY <2>1, CommasSplit
  <2> QED BY <2>2
<1>2. /\ IsFiniteSet(D) /\ Cardinality(D) \in Nat /\ \A c \in D : c \in b + 1 .. e - 1
      /\ IsFiniteSet(C)
  BY CommasFinite
<1>3. /\ Len(rest) = Cardinality(D) + 1
      /\ \A a \in {b + 1 - 1} \cup D : \E d \in {e} \cup D :
             a < d /\ Between(t, a + 1, d) \in OperandSpellings(rest[Nth(D, a)])
  BY DEF SpellsOperands
<1> HIDE DEF C, D
<1>4. Cardinality(C) = Cardinality(D) + 1
  BY <1>1, <1>2, FS_AddElement
<1>5. Len(all) = 1 + Len(rest) /\ all[1] = v /\ \A k \in 1 .. Len(rest) : all[1 + k] = rest[k]
  <2> DEFINE one == << v >>
  <2>1. one \in Seq({v}) /\ Len(one) = 1 /\ one[1] = v
    OBVIOUS
  <2>2. IsSequence(one)
    BY <2>1, InSeq
  <2> HIDE DEF one
  <2>3. /\ Len(one \o rest) = Len(one) + Len(rest)
        /\ \A i \in 1 .. Len(one) : (one \o rest)[i] = one[i]
        /\ \A i \in 1 .. Len(rest) : (one \o rest)[Len(one) + i] = rest[i]
    BY <2>2, ConcatFacts
  <2> QED BY <2>1, <2>3 DEF one
<1> HIDE DEF all
<1>6. ASSUME NEW a \in {b} \cup D
      PROVE  Nth(C, a) = Nth(D, a) + 1 /\ Nth(D, a) \in 1 .. Len(rest)
  <2> DEFINE E == {c \in D : c <= a}
  <2>1. {c \in C : c <= a} = {b} \cup E /\ b \notin E
    BY <1>1, <1>2, <1>6
  <2>2. E \subseteq D
    OBVIOUS
  <2>3. IsFiniteSet(E) /\ Cardinality(E) <= Cardinality(D) /\ Cardinality(E) \in Nat
    BY <2>2, <1>2, FS_Subset, FS_CardinalityType
  <2> HIDE DEF E
  <2>4. Cardinality({b} \cup E) = Cardinality(E) + 1
    <3>1. {b} \cup E = E \cup {b} /\ b \notin E /\ IsFiniteSet(E)
      BY <2>1, <2>3
    <3> QED BY <3>1, FS_AddElement
  <2>5. Nth(D, a) = Cardinality(E) + 1 /\ Nth(C, a) = Cardinality({b} \cup E) + 1
    BY <2>1 DEF Nth, E
  <2> QED BY <2>3, <2>4, <2>5, <1>2, <1>3
<1>7. Nth(C, q - 1) = 1
  <2>1. {c \in C : c <= q - 1} = {}
    BY <1>1, <1>2
  <2>2. Cardinality({}) = 0
    BY FS_EmptySet
  <2> QED BY <2>1, <2>2 DEF Nth
<1>8. ASSUME NEW a \in {q - 1} \cup C
      PROVE  \E d \in {e} \cup C : a < d /\ Between(t, a + 1, d) \in OperandSpellings(all[Nth(C, a)])
  <2>1. CASE a = q - 1
    <3>1. a < b /\ a + 1 = q /\ b \in C
      BY <2>1, <1>1
    <3>2. Between(t, a + 1, b) \in OperandSpellings(all[Nth(C, a)])
      BY <2>1, <3>1, <1>5, <1>7
    <3> QED BY <3>1, <3>2
  <2>2. CASE a \in C
    <3>1. a \in {b} \cup D /\ b + 1 - 1 = b
      BY <2>2, <1>1
    <3>2. PICK d \in {e} \cup D : a < d /\ Between(t, a + 1, d) \in OperandSpellings(rest[Nth(D, a)])
      BY <3>1, <1>3
    <3>3. Nth(C, a) = Nth(D, a) + 1 /\ Nth(D, a) \in 1 .. Len(rest)
      BY <3>1, <1>6
    <3>4. Nth(D, a) + 1 = 1 + Nth(D, a)
      BY <3>3
    <3>5. all[Nth(C, a)] = rest[Nth(D, a)]
      BY <3>3, <3>4, <1>5
    <3> QED BY <3>2, <3>5, <1>1
  <2> QED BY <2>1, <2>2
<1>9. Len(all) = Cardinality(C) + 1
  BY <1>2, <1>3, <1>4, <1>5
<1>10. SpellsOperands(t, q, e, all)
  BY <1>8, <1>9 DEF SpellsOperands, C
<1> QED BY <1>10 DEF all

\* One operand alone.
LEMMA SpellsOne ==
    ASSUME NEW t, NEW q \in Int, NEW e \in Int, q < e, Plain(t, q, e),
           NEW v, Between(t, q, e) \in OperandSpellings(v)
    PROVE  SpellsOperands(t, q, e, << v >>)
<1>1. Commas(t, q, e) = {}
  <2>1. e <= e
    OBVIOUS
  <2> QED BY <2>1, CommasSplit
<1>2. Cardinality({}) = 0
  BY FS_EmptySet
<1>3. Len(<< v >>) = 1 /\ << v >>[1] = v
  OBVIOUS
<1>4. {c \in {} : c <= q - 1} = {}
  OBVIOUS
<1>5. Nth({}, q - 1) = 1
  BY <1>2, <1>4 DEF Nth
<1>6. q - 1 < e /\ q - 1 + 1 = q
  OBVIOUS
<1> DEFINE s == << v >>
<1>7. Len(s) = 1 /\ s[1] = v
  BY <1>3
<1> HIDE DEF s
<1>8. SpellsOperands(t, q, e, s)
  BY <1>1, <1>2, <1>5, <1>6, <1>7 DEF SpellsOperands
<1> QED BY <1>8 DEF s

\* What OperandList returns at q, against the grammar.
Matches(t, r, q, e) ==
    /\ r.ok /\ EndsStatement(t, r.next) <=> IsOperandList(t, q, e)
    /\ IsOperandList(t, q, e) => r.next = e /\ SpellsOperands(t, q, e, r.value)

\* The line goes on from a to b.
Unbroken(t, a, b) == \A i \in a .. b - 1 : ~EndsStatement(t, i)

\* A turn of the loop: no operand, the last one, or one in front of a comma.
LEMMA ListFromCases ==
    ASSUME NEW t, NEW f, NEW q, NEW o, o = parse_operand(t, q)
    PROVE  /\ ~o.ok => ListFrom(t, f, q) = Failed
           /\ o.ok /\ ~IsComma(t, o.next) => ListFrom(t, f, q) = Returns(<< o.value >>, o.next)
           /\ o.ok /\ IsComma(t, o.next) => ListFrom(t, f, q) = Joined(o.value, f[o.next + 1])
<1>1. CASE ~o.ok
  BY <1>1, Zenon DEF ListFrom
<1>2. CASE o.ok /\ t[o.next].kind # ","
  BY <1>2, Zenon DEF ListFrom, IsComma
<1>3. CASE o.ok /\ t[o.next].kind = ","
  BY <1>3, Zenon DEF ListFrom, IsComma
<1> QED BY <1>1, <1>2, <1>3

\* One turn of the loop of parse_instruction. The operand ends where the
\* grammar lets it end, and what stands there decides in both how to go on.
LEMMA ListStep ==
    ASSUME NEW t, IsLexed(t), NEW e \in 1 .. Len(t), EndsStatement(t, e),
           NEW q \in 1 .. e, Unbroken(t, q, e),
           NEW f, \A x \in q + 1 .. e : Matches(t, f[x], x, e) /\ (f[x].ok => IsSequence(f[x].value))
    PROVE  Matches(t, ListFrom(t, f, q), q, e)
<1> DEFINE o == parse_operand(t, q)
           b == o.next
           v == o.value
           r == ListFrom(t, f, q)
           n == Len(t)
<1>n. n \in Nat /\ q \in 1 .. n /\ q \in Int /\ e \in Int /\ q <= e /\ e \in 1 .. n
  BY LexedFacts
<1>0. /\ ~Failed.ok
      /\ \A w, x : Returns(w, x).ok /\ Returns(w, x).value = w /\ Returns(w, x).next = x
  BY DEF Failed, Returns
<1>1. ~EndsStatement(t, e) \/ ~IsComma(t, e)
  BY Zenon DEF EndsStatement, IsComma
<1>p. /\ o.ok => IsOperandAt(t, q, b) /\ b \in q + 1 .. n
      /\ \A x \in 1 .. n : IsOperandAt(t, q, x) => o.ok /\ b = x
      /\ o.ok => Between(t, q, b) \in OperandSpellings(v)
  <2>1. q \in 1 .. n
    BY <1>n
  <2>2. /\ o.ok => IsOperandAt(t, q, o.next) /\ o.next \in q + 1 .. Len(t)
        /\ \A x \in 1 .. Len(t) : IsOperandAt(t, q, x) => o.ok /\ o.next = x
    BY <2>1, ParseOperandAt
  <2>3. o.ok => Between(t, q, o.next) \in OperandSpellings(o.value)
    BY <2>1, ParseOperandSpells
  <2> QED BY <2>2, <2>3
<1>c. /\ ~o.ok => r = Failed
      /\ o.ok /\ ~IsComma(t, b) => r = Returns(<< v >>, b)
      /\ o.ok /\ IsComma(t, b) => r = Joined(v, f[b + 1])
  BY ListFromCases
<1>u. IsOperandList(t, q, e) <=>
          \/ IsOperandAt(t, q, e)
          \/ \E x \in q .. e - 1 : IsOperandAt(t, q, x) /\ IsComma(t, x) /\ IsOperandList(t, x + 1, e)
  <2>1. IsOperandList(t, q, e) <=>
            \/ IsOperandAt(t, q, e)
            \/ \E x \in q .. e - 1 : /\ IsOperandAt(t, q, x) /\ IsComma(t, x)
                                     /\ IsOperandList(t, x + 1, e)
    BY <1>n, ListUnrolls
  <2> QED BY <2>1
<1> HIDE DEF o, b, v, r, n
<1>x. \A x \in q .. e : x \in 1 .. n
  BY <1>n
<1>2. ASSUME o.ok PROVE b \in q + 1 .. e /\ q < b /\ b <= e /\ b \in Int /\ Plain(t, q, b)
  <2>1. IsOperandAt(t, q, b) /\ b \in q + 1 .. n
    BY <1>2, <1>p
  <2>2. b \in Int
    BY <2>1, <1>n
  <2>3. q < b /\ Plain(t, q, b)
    BY <2>1, <2>2, <1>n, OperandIsPlain
  <2>4. ~(e \in q .. b - 1)
    BY <2>3 DEF Plain
  <2>5. b \in q + 1 .. e
    BY <2>1, <2>2, <2>4, <1>n
  <2> QED BY <2>2, <2>3, <2>5
<1>3. CASE ~o.ok
  <2>1. ~r.ok
    BY <1>3, <1>c, <1>0
  <2>2. ~IsOperandList(t, q, e)
    BY <1>3, <1>p, <1>u, <1>x, <1>n
  <2> QED BY <2>1, <2>2 DEF Matches, r
<1>4. CASE o.ok /\ ~IsComma(t, b)
  <2>1. r.ok /\ r.value = << v >> /\ r.next = b
    BY <1>4, <1>c, <1>0
  <2>2. b \in q + 1 .. e /\ q < b /\ Plain(t, q, b)
    BY <1>4, <1>2
  <2>3. CASE b = e
    <3>1. IsOperandList(t, q, e)
      BY <2>3, <1>4, <1>p, <1>u
    <3>2. SpellsOperands(t, q, e, << v >>)
      BY <2>2, <2>3, <1>4, <1>n, <1>p, SpellsOne
    <3> QED BY <2>1, <2>3, <3>1, <3>2 DEF Matches, r
  <2>4. CASE b # e
    <3>1. b \in q .. e - 1
      BY <2>2, <2>4, <1>n
    <3>2. ~EndsStatement(t, b)
      BY <3>1 DEF Unbroken
    <3>3. ~IsOperandList(t, q, e)
      <4>1. ~IsOperandAt(t, q, e)
        BY <2>4, <1>p, <1>n
      <4>2. ASSUME NEW x \in q .. e - 1, IsOperandAt(t, q, x) PROVE ~IsComma(t, x)
        <5>1. x \in 1 .. n
          BY <1>x, <1>n
        <5>2. x = b
          BY <5>1, <4>2, <1>p
        <5> QED BY <5>2, <1>4
      <4> QED BY <4>1, <4>2, <1>u
    <3> QED BY <2>1, <3>2, <3>3 DEF Matches, r
  <2> QED BY <2>3, <2>4
<1>5. CASE o.ok /\ IsComma(t, b)
  <2> DEFINE y == b + 1
             rest == f[y]
  <2>1. b \in q + 1 .. e /\ q < b /\ Plain(t, q, b) /\ b \in Int
    BY <1>5, <1>2
  <2>2. b # e
    BY <1>5, <1>1
  <2>3. b < e /\ y \in q + 1 .. e /\ b \in q .. e - 1 /\ b \in 1 .. n
    BY <2>1, <2>2, <1>n
  <2>4. Matches(t, rest, y, e) /\ (rest.ok => IsSequence(rest.value))
    BY <2>3
  <2>5. r = Joined(v, rest)
    BY <1>5, <1>c
  <2> HIDE DEF y, rest
  <2>6. IsOperandList(t, q, e) <=> IsOperandList(t, y, e)
    <3>1. ~IsOperandAt(t, q, e)
      BY <2>2, <1>p, <1>n
    <3>2. ASSUME NEW x \in q .. e - 1, IsOperandAt(t, q, x) PROVE x = b
      <4>1. x \in 1 .. n
        BY <1>x, <1>n
      <4> QED BY <4>1, <3>2, <1>p
    <3> QED BY <3>1, <3>2, <2>3, <1>5, <1>p, <1>u DEF y
  <2>7. CASE ~rest.ok
    <3>1. ~r.ok
      BY <2>5, <2>7, <1>0 DEF Joined
    <3>2. ~IsOperandList(t, y, e)
      BY <2>4, <2>7 DEF Matches
    <3> QED BY <2>6, <3>1, <3>2 DEF Matches, r
  <2>8. CASE rest.ok
    <3>1. r = Returns(<< v >> \o rest.value, rest.next)
      BY <2>5, <2>8 DEF Joined
    <3>2. r.ok /\ r.value = << v >> \o rest.value /\ r.next = rest.next
      BY <3>1, <1>0
    <3>3. EndsStatement(t, rest.next) <=> IsOperandList(t, y, e)
      BY <2>4, <2>8 DEF Matches
    <3>4. ASSUME IsOperandList(t, y, e)
          PROVE  rest.next = e /\ SpellsOperands(t, q, e, << v >> \o rest.value)
      <4>1. rest.next = e /\ SpellsOperands(t, y, e, rest.value)
        BY <2>4, <3>4 DEF Matches
      <4>2. SpellsOperands(t, b + 1, e, rest.value) /\ IsSequence(rest.value)
        BY <4>1, <2>4, <2>8 DEF y
      <4>3. SpellsOperands(t, q, e, << v >> \o rest.value)
        BY <4>2, <2>1, <2>3, <1>5, <1>n, <1>p, SpellsJoined
      <4> QED BY <4>1, <4>3
    <3> QED BY <2>6, <3>2, <3>3, <3>4 DEF Matches, r
  <2> QED BY <2>7, <2>8
<1> QED BY <1>3, <1>4, <1>5

\* OperandList takes the lists of the grammar and no others.
LEMMA ListMatches ==
    ASSUME NEW t, IsLexed(t), NEW e \in 1 .. Len(t), EndsStatement(t, e),
           NEW p \in 1 .. e, Unbroken(t, p, e)
    PROVE  Matches(t, OperandList(t, p), p, e)
<1> DEFINE n == Len(t)
           Good(f, x) == Matches(t, f[x], x, e) /\ (f[x].ok => IsSequence(f[x].value))
<1>n. n \in Nat /\ e \in 1 .. n /\ p \in 1 .. e /\ IsTokens(t)
  BY LexedFacts DEF IsLexed
<1>1. PICK f : \A x \in 1 .. n : f[x] = ListFrom(t, f, x) /\ OperandList(t, x) = f[x]
  BY <1>n, OperandListDef
<1>2. \A x \in 1 .. n : f[x].ok => IsSequence(f[x].value)
  <2> TAKE x \in 1 .. n
  <2>1. OperandList(t, x).ok => IsOperands(OperandList(t, x).value)
    BY <1>n, OperandListTyped
  <2> QED BY <2>1, <1>1 DEF IsOperands
<1> DEFINE last == e - p + 1
           S == {m \in 0 .. last : \A x \in e - m + 1 .. e : Good(f, x)}
<1> HIDE DEF n, Good
<1>3. last \in Nat
  BY <1>n
<1>4. 0 \in S
  BY <1>n
<1>5. ASSUME NEW m \in 0 .. last - 1, m \in S PROVE m + 1 \in S
  <2> DEFINE q == e - m
  <2>1. /\ q \in 1 .. e /\ q \in p .. e /\ q \in 1 .. n /\ e - (m + 1) + 1 = q /\ e - m + 1 = q + 1
        /\ m + 1 \in 0 .. last
    BY <1>n
  <2>2. \A x \in q + 1 .. e : Good(f, x)
    BY <1>5, <2>1
  <2> HIDE DEF q, last
  <2>3. Unbroken(t, q, e)
    <3>1. \A i \in q .. e - 1 : i \in p .. e - 1
      BY <2>1, <1>n
    <3> QED BY <3>1 DEF Unbroken
  <2>4. Matches(t, ListFrom(t, f, q), q, e)
    <3>1. \A x \in q + 1 .. e : Matches(t, f[x], x, e) /\ (f[x].ok => IsSequence(f[x].value))
      BY <2>2 DEF Good
    <3> QED BY <2>1, <2>3, <3>1, ListStep
  <2>5. Good(f, q)
    BY <2>1, <2>4, <1>1, <1>2 DEF Good
  <2>6. ASSUME NEW x \in q .. e PROVE Good(f, x)
    <3>1. x = q \/ x \in q + 1 .. e
      BY <2>1, <1>n
    <3> QED BY <3>1, <2>2, <2>5
  <2> QED BY <2>1, <2>6
<1> HIDE DEF S
<1>6. 0 .. last \subseteq S
  BY <1>3, <1>4, <1>5, UpTo
<1>7. last \in 0 .. last /\ p \in e - last + 1 .. e /\ p \in 1 .. n
  BY <1>3, <1>n
<1> HIDE DEF last
<1>8. Good(f, p)
  BY <1>6, <1>7 DEF S
<1> QED BY <1>1, <1>7, <1>8 DEF Good

-----------------------------------------------------------------------------
(* Statements: a line of the text, and what parse_statement makes of it. *)

\* The end of a line is the first one behind its start.
LEMMA EndOfLine ==
    ASSUME NEW t, IsLexed(t), NEW p \in 1 .. Len(t), ~EndsStatement(t, p)
    PROVE  /\ EndOf(t, p) \in p + 1 .. Len(t)
           /\ EndsStatement(t, EndOf(t, p)) /\ Unbroken(t, p, EndOf(t, p))
           /\ \A x \in p + 1 .. Len(t) :
                 EndsStatement(t, x) /\ Unbroken(t, p, x) => x = EndOf(t, p)
<1> DEFINE n == Len(t)
           First(x) == x \in p + 1 .. n /\ EndsStatement(t, x) /\ Unbroken(t, p, x)
<1>n. n \in Nat /\ p \in 1 .. n /\ DOMAIN t = 1 .. n
  BY LexedFacts
<1>1. EndsStatement(t, n)
  BY LexedFacts DEF EndsStatement
<1>2. Ends(t) = {x \in 1 .. n : EndsStatement(t, x)}
  BY <1>n DEF Ends, EndsStatement
<1> HIDE DEF n
<1> DEFINE k == n - p
           S == {m \in 0 .. k : (\A x \in p .. p + m : ~EndsStatement(t, x)) \/ \E x \in 1 .. n : First(x)}
<1>k. k \in Nat
  BY <1>n
<1>3. 0 \in S
  <2>1. \A x \in p .. p + 0 : x = p
    BY <1>n
  <2> QED BY <2>1, <1>k
<1>4. ASSUME NEW m \in 0 .. k - 1, m \in S PROVE m + 1 \in S
  <2>1. m + 1 \in 0 .. k /\ p + (m + 1) \in p + 1 .. n /\ p + (m + 1) \in 1 .. n
    BY <1>k, <1>n
  <2>2. CASE \E x \in 1 .. n : First(x)
    BY <2>1, <2>2
  <2>3. CASE (\A x \in p .. p + m : ~EndsStatement(t, x)) /\ EndsStatement(t, p + (m + 1))
    <3>1. p + (m + 1) - 1 = p + m
      BY <1>n
    <3>2. Unbroken(t, p, p + (m + 1))
      BY <2>3, <3>1 DEF Unbroken
    <3>3. First(p + (m + 1))
      BY <2>1, <2>3, <3>2
    <3> QED BY <2>1, <3>3
  <2>4. CASE (\A x \in p .. p + m : ~EndsStatement(t, x)) /\ ~EndsStatement(t, p + (m + 1))
    <3>1. \A x \in p .. p + (m + 1) : x \in p .. p + m \/ x = p + (m + 1)
      BY <1>n
    <3>2. \A x \in p .. p + (m + 1) : ~EndsStatement(t, x)
      BY <2>4, <3>1
    <3> QED BY <2>1, <3>2
  <2>5. (\A x \in p .. p + m : ~EndsStatement(t, x)) \/ \E x \in 1 .. n : First(x)
    BY <1>4
  <2> QED BY <2>2, <2>3, <2>4, <2>5
<1> HIDE DEF S, First
<1>5. 0 .. k \subseteq S
  BY <1>k, <1>3, <1>4, UpTo
<1>6. PICK e \in 1 .. n : First(e)
  <2>1. k \in S /\ p + k = n /\ n \in p .. n
    BY <1>5, <1>k, <1>n
  <2> QED BY <2>1, <1>1 DEF S
<1>7. e \in Ends(t) /\ e > p /\ \A f \in Ends(t) : f > p => e <= f
  <2>1. e \in p + 1 .. n /\ EndsStatement(t, e) /\ \A i \in p .. e - 1 : ~EndsStatement(t, i)
    BY <1>6 DEF First, Unbroken
  <2>2. ASSUME NEW f \in Ends(t), f > p PROVE e <= f
    <3>1. f \in 1 .. n /\ EndsStatement(t, f)
      BY <1>2
    <3>2. ~(f \in p .. e - 1)
      BY <2>1, <3>1
    <3> QED BY <2>1, <2>2, <3>1, <3>2, <1>n
  <2> QED BY <2>1, <2>2, <1>2, <1>n
<1>8. \A x \in Ends(t) : x > p /\ (\A f \in Ends(t) : f > p => x <= f) => x = e
  <2>1. \A x \in Ends(t) : x \in Int
    BY <1>2
  <2> QED BY <2>1, <1>7
<1>9. EndOf(t, p) = e
  BY <1>7, <1>8 DEF EndOf
<1>10. ASSUME NEW x \in p + 1 .. n, EndsStatement(t, x), Unbroken(t, p, x) PROVE x = e
  <2>1. e \in p + 1 .. n /\ EndsStatement(t, e) /\ \A i \in p .. e - 1 : ~EndsStatement(t, i)
    BY <1>6 DEF First, Unbroken
  <2>2. \A i \in p .. x - 1 : ~EndsStatement(t, i)
    BY <1>10 DEF Unbroken
  <2>3. ~(x \in p .. e - 1) /\ ~(e \in p .. x - 1)
    BY <1>10, <2>1, <2>2
  <2> QED BY <2>1, <2>3, <1>n
<1> QED BY <1>6, <1>9, <1>10 DEF First, n

\* Two tuples, folded: a fact that says so is not rewritten into its elements.
IsPair(s, u, v)      == s = << u, v >>
IsTriple(s, u, v, w) == s = << u, v, w >>

\* A line of two tokens, by their kinds.
LEMMA LineOfTwo ==
    ASSUME NEW t, NEW p \in Int, NEW e \in Int, p <= e, NEW u, NEW v
    PROVE  IsPair(Shape(Between(t, p, e)), u, v) <=>
               e = p + 2 /\ t[p].kind = u /\ t[p + 1].kind = v
<1> DEFINE h == Shape(Between(t, p, e))
<1>1. IsShapeOf(h, t, p, e)
  BY ShapeOfBetween
<1>2. IsSequence(h) /\ Len(h) = e - p /\ \A k \in 1 .. e - p : h[k] = t[p + k - 1].kind
  <2> HIDE DEF h
  <2> QED BY <1>1 DEF IsShapeOf
<1>l. Len(h) = e - p
  BY <1>2
<1> HIDE DEF h
<1>3. \A x, y : h = << x, y >> <=> Len(h) = 2 /\ h[1] = x /\ h[2] = y
  BY <1>2, TupleFacts
<1>4. p + 1 - 1 = p /\ p + 2 - 1 = p + 1 /\ p + 3 - 1 = p + 2 /\ (e - p = 2 <=> e = p + 2)
  OBVIOUS
<1>5. ASSUME e - p = 2
      PROVE  h[1] = t[p].kind /\ h[2] = t[p + 1].kind
  <2>1. 1 \in 1 .. 2 /\ 2 \in 1 .. 2
    OBVIOUS
  <2> QED BY <2>1, <1>2, <1>4, <1>5
<1>6. h = << u, v >> <=> e = p + 2 /\ t[p].kind = u /\ t[p + 1].kind = v
  <2>1. h = << u, v >> <=> Len(h) = 2 /\ h[1] = u /\ h[2] = v
    BY <1>3
  <2> QED BY <2>1, <1>l, <1>4, <1>5
<1> QED BY <1>6 DEF h, IsPair

\* A line of three.
LEMMA LineOfThree ==
    ASSUME NEW t, NEW p \in Int, NEW e \in Int, p <= e, NEW u, NEW v, NEW w
    PROVE  IsTriple(Shape(Between(t, p, e)), u, v, w) <=>
               e = p + 3 /\ t[p].kind = u /\ t[p + 1].kind = v /\ t[p + 2].kind = w
<1> DEFINE h == Shape(Between(t, p, e))
<1>1. IsShapeOf(h, t, p, e)
  BY ShapeOfBetween
<1>2. IsSequence(h) /\ Len(h) = e - p /\ \A k \in 1 .. e - p : h[k] = t[p + k - 1].kind
  <2> HIDE DEF h
  <2> QED BY <1>1 DEF IsShapeOf
<1>l. Len(h) = e - p
  BY <1>2
<1> HIDE DEF h
<1>3. \A x, y, z : h = << x, y, z >> <=> Len(h) = 3 /\ h[1] = x /\ h[2] = y /\ h[3] = z
  BY <1>2, TupleFacts
<1>4. p + 1 - 1 = p /\ p + 2 - 1 = p + 1 /\ p + 3 - 1 = p + 2 /\ (e - p = 3 <=> e = p + 3)
  OBVIOUS
<1>5. ASSUME e - p = 3
      PROVE  h[1] = t[p].kind /\ h[2] = t[p + 1].kind /\ h[3] = t[p + 2].kind
  <2>1. 1 \in 1 .. 3 /\ 2 \in 1 .. 3 /\ 3 \in 1 .. 3
    OBVIOUS
  <2> QED BY <2>1, <1>2, <1>4, <1>5
<1>6. h = << u, v, w >> <=> e = p + 3 /\ t[p].kind = u /\ t[p + 1].kind = v /\ t[p + 2].kind = w
  <2>1. h = << u, v, w >> <=> Len(h) = 3 /\ h[1] = u /\ h[2] = v /\ h[3] = w
    BY <1>3
  <2> QED BY <2>1, <1>l, <1>4, <1>5
<1> QED BY <1>6 DEF h, IsTriple

\* The tokens of such lines.
LEMMA TokensOnLine ==
    ASSUME NEW t, NEW p \in Int, NEW e \in Int, p <= e
    PROVE  /\ e = p + 2 => Between(t, p, e) = << t[p], t[p + 1] >>
           /\ e = p + 3 => Between(t, p, e) = << t[p], t[p + 1], t[p + 2] >>
<1> DEFINE s == Between(t, p, e)
<1>1. /\ IsSequence(Between(t, p, e)) /\ Len(Between(t, p, e)) = e - p
      /\ \A k \in 1 .. e - p : Between(t, p, e)[k] = t[p + k - 1]
  BY BetweenFacts
<1>2. IsSequence(s) /\ Len(s) = e - p /\ \A k \in 1 .. e - p : s[k] = t[p + k - 1]
  BY <1>1
<1>l. Len(s) = e - p
  BY <1>2
<1> HIDE DEF s
<1>3. /\ \A x, y : s = << x, y >> <=> Len(s) = 2 /\ s[1] = x /\ s[2] = y
      /\ \A x, y, z : s = << x, y, z >> <=> Len(s) = 3 /\ s[1] = x /\ s[2] = y /\ s[3] = z
  BY <1>2, TupleFacts
<1>4. p + 1 - 1 = p /\ p + 2 - 1 = p + 1 /\ p + 3 - 1 = p + 2
  OBVIOUS
<1>5. ASSUME e = p + 2 PROVE s = << t[p], t[p + 1] >>
  <2>1. \A x, y : s = << x, y >> <=> Len(s) = 2 /\ s[1] = x /\ s[2] = y
    BY <1>3
  <2>2. e - p = 2 /\ 1 \in 1 .. 2 /\ 2 \in 1 .. 2
    BY <1>5
  <2>3. Len(s) = 2 /\ s[1] = t[p] /\ s[2] = t[p + 1]
    BY <1>2, <1>4, <2>2
  <2> QED BY <2>1, <2>3
<1>6. ASSUME e = p + 3 PROVE s = << t[p], t[p + 1], t[p + 2] >>
  <2>1. \A x, y, z : s = << x, y, z >> <=> Len(s) = 3 /\ s[1] = x /\ s[2] = y /\ s[3] = z
    BY <1>3
  <2>2. e - p = 3 /\ 1 \in 1 .. 3 /\ 2 \in 1 .. 3 /\ 3 \in 1 .. 3
    BY <1>6
  <2>3. Len(s) = 3 /\ s[1] = t[p] /\ s[2] = t[p + 1] /\ s[3] = t[p + 2]
    BY <1>2, <1>4, <2>2
  <2> QED BY <2>1, <2>3
<1> QED BY <1>5, <1>6 DEF s

\* What is read and ends with its line are the lines of the grammar and no others,
\* and it is the statement that the line says.
LEMMA UnendedMatches ==
    ASSUME NEW t, IsLexed(t), NEW p \in 1 .. Len(t), ~EndsStatement(t, p),
           NEW r, r = Unended(t, p)
    PROVE  /\ r.ok /\ EndsStatement(t, r.next) <=> Grammatical(t, p)
           /\ Grammatical(t, p) => r.next = EndOf(t, p) /\ Spells(t, p, r.value)
<1> DEFINE n == Len(t)
           e == EndOf(t, p)
           line == Shape(Between(t, p, e))
           word == t[p].text
           isLabel == n >= p + 1 /\ t[p + 1].kind = ":"
           isSection == n >= p + 2 /\ t[p + 1].kind = "." /\ t[p + 2].kind = "Identifier"
           isGlobal == n >= p + 1 /\ t[p + 1].kind = "Identifier"
<1>n. n \in Nat /\ p \in 1 .. n /\ p \in Int
  BY LexedFacts
<1>l. /\ \A i \in 1 .. n : t[i].kind # "EndOfFile" => i + 1 \in 1 .. n
      /\ \A i \in 1 .. n : /\ t[i].kind = "Identifier" => t[i] = Id(t[i].text)
                           /\ t[i].kind \in {":", "."} => t[i] = Mark(t[i].kind)
  <2>1. {":", "."} \subseteq Punctuation
    BY Zenon DEF Punctuation
  <2> QED BY <2>1, LexedFacts
<1>e. /\ e \in p + 1 .. n /\ e \in Int /\ p <= e /\ EndsStatement(t, e)
      /\ \A i \in p .. e - 1 : ~EndsStatement(t, i)
      /\ \A x \in p + 1 .. n : EndsStatement(t, x) /\ Unbroken(t, p, x) => x = e
  <2>1. EndOf(t, p) \in p + 1 .. n /\ EndsStatement(t, EndOf(t, p)) /\ Unbroken(t, p, EndOf(t, p))
    BY EndOfLine
  <2>2. \A x \in p + 1 .. n : EndsStatement(t, x) /\ Unbroken(t, p, x) => x = EndOf(t, p)
    BY EndOfLine
  <2>3. \A i \in p .. EndOf(t, p) - 1 : ~EndsStatement(t, i)
    BY <2>1 DEF Unbroken
  <2>4. EndOf(t, p) \in Int /\ p <= EndOf(t, p)
    BY <2>1, <1>n
  <2> QED BY <2>1, <2>2, <2>3, <2>4
<1>0. /\ ~Failed.ok
      /\ \A v, x : Returns(v, x).ok /\ Returns(v, x).value = v /\ Returns(v, x).next = x
  BY DEF Failed, Returns
<1>1. /\ Consumes(t, p, << "Identifier", ":" >>) <=> t[p].kind = "Identifier" /\ isLabel
      /\ Consumes(t, p + 1, << ".", "Identifier" >>) <=> isSection
      /\ Consumes(t, p + 1, << "Identifier" >>) <=> isGlobal
  <2>1. p + 1 \in Int /\ (p + 1) + 1 = p + 2
    BY <1>n
  <2>2. Consumes(t, p, << "Identifier", ":" >>) <=>
           p + 1 <= n /\ t[p].kind = "Identifier" /\ t[p + 1].kind = ":"
    BY <1>n, TwoConsumed
  <2>3. Consumes(t, p + 1, << ".", "Identifier" >>) <=>
           (p + 1) + 1 <= n /\ t[p + 1].kind = "." /\ t[(p + 1) + 1].kind = "Identifier"
    BY <1>n, <2>1, TwoConsumed
  <2>4. Consumes(t, p + 1, << "Identifier" >>) <=> p + 1 <= n /\ t[p + 1].kind = "Identifier"
    BY <1>n, <2>1, OneConsumed
  <2> QED BY <1>n, <2>1, <2>2, <2>3, <2>4
<1>2. /\ \A x, y : line = << x, y >> <=> e = p + 2 /\ t[p].kind = x /\ t[p + 1].kind = y
      /\ \A x, y, z : line = << x, y, z >> <=>
             e = p + 3 /\ t[p].kind = x /\ t[p + 1].kind = y /\ t[p + 2].kind = z
      /\ e = p + 2 => Between(t, p, e) = << t[p], t[p + 1] >>
      /\ e = p + 3 => Between(t, p, e) = << t[p], t[p + 1], t[p + 2] >>
  <2> HIDE DEF e
  <2>0. p \in Int /\ e \in Int /\ p <= e
    BY <1>n, <1>e
  <2>1. ASSUME NEW x, NEW y
        PROVE  Shape(Between(t, p, e)) = << x, y >> <=>
                   e = p + 2 /\ t[p].kind = x /\ t[p + 1].kind = y
    <3>1. IsPair(Shape(Between(t, p, e)), x, y) <=>
              e = p + 2 /\ t[p].kind = x /\ t[p + 1].kind = y
      BY <2>0, LineOfTwo
    <3> QED BY <3>1, Zenon DEF IsPair
  <2>2. ASSUME NEW x, NEW y, NEW z
        PROVE  Shape(Between(t, p, e)) = << x, y, z >> <=>
                   e = p + 3 /\ t[p].kind = x /\ t[p + 1].kind = y /\ t[p + 2].kind = z
    <3>1. IsTriple(Shape(Between(t, p, e)), x, y, z) <=>
              e = p + 3 /\ t[p].kind = x /\ t[p + 1].kind = y /\ t[p + 2].kind = z
      BY <2>0, LineOfThree
    <3> QED BY <3>1, Zenon DEF IsTriple
  <2>3. /\ e = p + 2 => Between(t, p, e) = << t[p], t[p + 1] >>
        /\ e = p + 3 => Between(t, p, e) = << t[p], t[p + 1], t[p + 2] >>
    BY <2>0, TokensOnLine
  <2> QED BY <2>1, <2>2, <2>3
<1>g. Grammatical(t, p) <=>
          /\ t[p].kind = "Identifier"
          /\ \/ line = << "Identifier", ":" >>
             \/ word = "section" /\ line = << "Identifier", ".", "Identifier" >>
             \/ word = "global"  /\ line = << "Identifier", "Identifier" >>
             \/ /\ word \notin {"section", "global"}
                /\ e = p + 1 \/ IsOperandList(t, p + 1, e)
  BY DEF Grammatical
<1>s. ASSUME NEW s
      PROVE  /\ s.kind = "label" => (Spells(t, p, s) <=> Between(t, p, e) = << Id(s.name), Mark(":") >>)
             /\ s.kind = "section" =>
                   (Spells(t, p, s) <=> Between(t, p, e) = << Id("section"), Mark("."), Id(s.name) >>)
             /\ s.kind = "global" =>
                   (Spells(t, p, s) <=> Between(t, p, e) = << Id("global"), Id(s.name) >>)
             /\ s.kind = "instruction" =>
                   (Spells(t, p, s) <=> /\ t[p] = Id(s.mnemonic)
                                        /\ \/ s.operands = << >> /\ e = p + 1
                                           \/ SpellsOperands(t, p + 1, e, s.operands))
  BY Zenon DEF Spells
<1> HIDE DEF n, e, line, word, isLabel, isSection, isGlobal
\* an end that a statement of so many tokens finds is that of the line
<1>3. ASSUME NEW x \in p + 1 .. n, \A i \in p .. x - 1 : ~EndsStatement(t, i)
      PROVE  EndsStatement(t, x) <=> x = e
  BY <1>3, <1>e DEF Unbroken
<1>4. CASE t[p].kind # "Identifier"
  <2>1. r = Failed
    BY <1>4 DEF Unended
  <2>2. ~Grammatical(t, p)
    BY <1>4, <1>g
  <2> QED BY <2>1, <2>2, <1>0
<1>p. t[p].kind = "Identifier" => p + 1 \in 1 .. n /\ t[p] = Id(word)
  BY <1>n, <1>l DEF word
<1>5. CASE t[p].kind = "Identifier" /\ isLabel
  <2>1. r = Returns(Label(word), p + 2)
    BY <1>1, <1>5 DEF Unended, word
  <2>2. t[p + 1].kind = ":" /\ p + 1 \in 1 .. n
    BY <1>5, <1>p DEF isLabel
  <2>3. p + 2 \in p + 1 .. n
    <3>1. (p + 1) + 1 \in 1 .. n
      BY <2>2, <1>l
    <3> QED BY <3>1, <1>n
  <2>4. ~EndsStatement(t, p + 1)
    BY <2>2 DEF EndsStatement
  <2>5. EndsStatement(t, p + 2) <=> p + 2 = e
    <3>1. \A i \in p .. (p + 2) - 1 : i = p \/ i = p + 1
      BY <1>n
    <3>2. \A i \in p .. (p + 2) - 1 : ~EndsStatement(t, i)
      BY <3>1, <2>4
    <3> QED BY <2>3, <3>2, <1>3
  <2>6. Grammatical(t, p) <=> e = p + 2
    <3>1. line = << "Identifier", ":" >> <=> e = p + 2
      BY <1>2, <1>5, <2>2
    <3>2. line # << "Identifier", ".", "Identifier" >> /\ line # << "Identifier", "Identifier" >>
      BY <1>2, <2>2
    <3>3. e # p + 1
      BY <2>4, <1>e
    <3>4. ~IsOperandList(t, p + 1, e)
      <4>1. \A x : ~IsOperandAt(t, p + 1, x)
        BY <2>2 DEF IsOperandAt
      <4>2. p + 1 \in Int /\ p + 1 <= e
        BY <1>n, <1>e
      <4> QED BY <4>1, <4>2, <1>e, ListUnrolls
    <3> QED BY <1>5, <1>g, <3>1, <3>2, <3>3, <3>4
  <2>7. ASSUME e = p + 2 PROVE Spells(t, p, Label(word))
    <3>1. Between(t, p, e) = << Id(word), Mark(":") >>
      BY <1>2, <1>5, <1>l, <1>n, <1>p, <2>2, <2>7
    <3>2. Label(word).kind = "label" /\ Label(word).name = word
      BY DEF Label
    <3> QED BY <3>1, <3>2, <1>s
  <2>8. r.ok /\ r.value = Label(word) /\ r.next = p + 2
    BY <2>1, <1>0
  <2> QED BY <2>5, <2>6, <2>7, <2>8 DEF e
<1>6. CASE t[p].kind = "Identifier" /\ ~isLabel /\ word = "section"
  <2>0. line # << "Identifier", ":" >>
    <3>1. e = p + 2 => n >= p + 1
      BY <1>e, <1>n
    <3> QED BY <3>1, <1>2, <1>6 DEF isLabel
  <2>1. Grammatical(t, p) <=> line = << "Identifier", ".", "Identifier" >>
    BY <1>6, <1>g, <2>0
  <2>2. CASE ~isSection
    <3>1. r = Failed
      BY <1>1, <1>6, <2>2 DEF Unended, word
    <3>2. ~Grammatical(t, p)
      <4>1. e = p + 3 => n >= p + 2
        BY <1>e, <1>n
      <4> QED BY <4>1, <1>2, <2>1, <2>2 DEF isSection
    <3> QED BY <3>1, <3>2, <1>0
  <2>3. CASE isSection
    <3>1. r = Returns(Section(t[p + 2].text), p + 3)
      <4>1. (p + 1) + 2 = p + 3 /\ p + 2 = p + 2
        BY <1>n
      <4> QED BY <1>1, <1>6, <2>3 DEF Unended, word
    <3>2. t[p + 1].kind = "." /\ t[p + 2].kind = "Identifier" /\ p + 1 \in 1 .. n /\ p + 2 \in 1 .. n
      BY <2>3, <1>n DEF isSection
    <3>3. p + 3 \in p + 1 .. n
      <4>1. (p + 2) + 1 \in 1 .. n
        BY <3>2, <1>l
      <4> QED BY <4>1, <1>n
    <3>4. ~EndsStatement(t, p + 1) /\ ~EndsStatement(t, p + 2)
      BY <3>2 DEF EndsStatement
    <3>5. EndsStatement(t, p + 3) <=> p + 3 = e
      <4>1. \A i \in p .. (p + 3) - 1 : i = p \/ i = p + 1 \/ i = p + 2
        BY <1>n
      <4>2. \A i \in p .. (p + 3) - 1 : ~EndsStatement(t, i)
        BY <4>1, <3>4
      <4> QED BY <3>3, <4>2, <1>3
    <3>6. Grammatical(t, p) <=> e = p + 3
      BY <1>2, <1>6, <2>1, <3>2
    <3>7. ASSUME e = p + 3 PROVE Spells(t, p, Section(t[p + 2].text))
      <4>1. Between(t, p, e) = << Id("section"), Mark("."), Id(t[p + 2].text) >>
        <5>1. t[p] = Id("section") /\ t[p + 1] = Mark(".") /\ t[p + 2] = Id(t[p + 2].text)
          BY <1>6, <1>l, <1>p, <3>2
        <5> QED BY <5>1, <1>2, <3>7
      <4>2. Section(t[p + 2].text).kind = "section" /\ Section(t[p + 2].text).name = t[p + 2].text
        BY DEF Section
      <4> QED BY <4>1, <4>2, <1>s
    <3>8. r.ok /\ r.value = Section(t[p + 2].text) /\ r.next = p + 3
      BY <3>1, <1>0
    <3> QED BY <3>5, <3>6, <3>7, <3>8 DEF e
  <2> QED BY <2>2, <2>3
<1>7. CASE t[p].kind = "Identifier" /\ ~isLabel /\ word = "global"
  <2>0. line # << "Identifier", ":" >>
    <3>1. e = p + 2 => n >= p + 1
      BY <1>e, <1>n
    <3> QED BY <3>1, <1>2, <1>7 DEF isLabel
  <2>1. Grammatical(t, p) <=> line = << "Identifier", "Identifier" >>
    BY <1>7, <1>g, <2>0
  <2>2. CASE ~isGlobal
    <3>1. r = Failed
      BY <1>1, <1>7, <2>2 DEF Unended, word
    <3>2. ~Grammatical(t, p)
      <4>1. e = p + 2 => n >= p + 1
        BY <1>e, <1>n
      <4> QED BY <4>1, <1>2, <2>1, <2>2 DEF isGlobal
    <3> QED BY <3>1, <3>2, <1>0
  <2>3. CASE isGlobal
    <3>1. r = Returns(Global(t[p + 1].text), p + 2)
      BY <1>1, <1>7, <2>3 DEF Unended, word
    <3>2. t[p + 1].kind = "Identifier" /\ p + 1 \in 1 .. n
      BY <2>3, <1>p, <1>7 DEF isGlobal
    <3>3. p + 2 \in p + 1 .. n
      <4>1. (p + 1) + 1 \in 1 .. n
        BY <3>2, <1>l
      <4> QED BY <4>1, <1>n
    <3>4. ~EndsStatement(t, p + 1)
      BY <3>2 DEF EndsStatement
    <3>5. EndsStatement(t, p + 2) <=> p + 2 = e
      <4>1. \A i \in p .. (p + 2) - 1 : i = p \/ i = p + 1
        BY <1>n
      <4>2. \A i \in p .. (p + 2) - 1 : ~EndsStatement(t, i)
        BY <4>1, <3>4
      <4> QED BY <3>3, <4>2, <1>3
    <3>6. Grammatical(t, p) <=> e = p + 2
      BY <1>2, <1>7, <2>1, <3>2
    <3>7. ASSUME e = p + 2 PROVE Spells(t, p, Global(t[p + 1].text))
      <4>1. Between(t, p, e) = << Id("global"), Id(t[p + 1].text) >>
        <5>1. t[p] = Id("global") /\ t[p + 1] = Id(t[p + 1].text)
          BY <1>7, <1>l, <1>p, <3>2
        <5> QED BY <5>1, <1>2, <3>7
      <4>2. Global(t[p + 1].text).kind = "global" /\ Global(t[p + 1].text).name = t[p + 1].text
        BY DEF Global
      <4> QED BY <4>1, <4>2, <1>s
    <3>8. r.ok /\ r.value = Global(t[p + 1].text) /\ r.next = p + 2
      BY <3>1, <1>0
    <3> QED BY <3>5, <3>6, <3>7, <3>8 DEF e
  <2> QED BY <2>2, <2>3
<1>8. CASE t[p].kind = "Identifier" /\ ~isLabel /\ word \notin {"section", "global"}
  <2> DEFINE q == p + 1
             list == IF EndsStatement(t, q) THEN Returns(<< >>, q) ELSE OperandList(t, q)
  <2>0. line # << "Identifier", ":" >>
    <3>1. e = p + 2 => n >= p + 1
      BY <1>e, <1>n
    <3> QED BY <3>1, <1>2, <1>8 DEF isLabel
  <2>1. Grammatical(t, p) <=> e = q \/ IsOperandList(t, q, e)
    BY <1>8, <1>g, <2>0
  <2>2. r = IF list.ok THEN Returns(Ins(word, list.value), list.next) ELSE Failed
    BY <1>1, <1>8 DEF Unended, word
  <2>3. q \in p + 1 .. n /\ q \in Int /\ (EndsStatement(t, q) <=> q = e) /\ q <= e /\ q \in 1 .. n
    <3>1. \A i \in p .. (p + 1) - 1 : i = p
      BY <1>n
    <3>2. \A i \in p .. (p + 1) - 1 : ~EndsStatement(t, i)
      BY <3>1
    <3>3. p + 1 \in p + 1 .. n
      BY <1>8, <1>n, <1>p
    <3>4. EndsStatement(t, p + 1) <=> p + 1 = e
      BY <3>2, <3>3, <1>3
    <3> QED BY <3>3, <3>4, <1>e, <1>n
  <2>4. \A v : /\ Ins(word, v).kind = "instruction" /\ Ins(word, v).mnemonic = word
               /\ Ins(word, v).operands = v
    BY DEF Ins
  <2>5. t[p] = Id(word)
    BY <1>8, <1>p
  <2>6. CASE q = e
    <3>1. list = Returns(<< >>, q)
      BY <2>3, <2>6
    <3> HIDE DEF list, q
    <3>2. r = Returns(Ins(word, << >>), q)
      BY <2>2, <3>1, <1>0
    <3>3. r.ok /\ r.value = Ins(word, << >>) /\ r.next = q
      BY <3>2, <1>0
    <3>4. Spells(t, p, Ins(word, << >>))
      BY <2>4, <2>5, <2>6, <1>s DEF q
    <3> QED BY <3>3, <3>4, <2>1, <2>3, <2>6 DEF e
  <2>7. CASE q # e
    <3>1. list = OperandList(t, q)
      BY <2>3, <2>7
    <3> HIDE DEF list
    <3>2. Matches(t, OperandList(t, q), q, e)
      <4>1. Unbroken(t, q, e)
        <5>1. \A i \in q .. e - 1 : i \in p .. e - 1
          BY <1>n, <1>e
        <5> QED BY <5>1, <1>e DEF Unbroken
      <4>2. e \in 1 .. Len(t) /\ q \in 1 .. e
        <5> HIDE DEF q
        <5> QED BY <1>e, <1>n, <2>3 DEF n
      <4> HIDE DEF q
      <4> QED BY <4>1, <4>2, <1>e, ListMatches
    <3> HIDE DEF q
    <3>3. list.ok /\ EndsStatement(t, list.next) <=> IsOperandList(t, q, e)
      BY <3>1, <3>2 DEF Matches
    <3>4. IsOperandList(t, q, e) => list.next = e /\ SpellsOperands(t, q, e, list.value)
      BY <3>1, <3>2 DEF Matches
    <3>5. CASE ~list.ok
      <4>1. r = Failed
        BY <2>2, <3>5
      <4> QED BY <4>1, <1>0, <2>1, <2>7, <3>3, <3>5
    <3>6. CASE list.ok
      <4>1. r.ok /\ r.value = Ins(word, list.value) /\ r.next = list.next
        BY <2>2, <3>6, <1>0
      <4>2. r.ok /\ EndsStatement(t, r.next) <=> Grammatical(t, p)
        BY <4>1, <2>1, <2>7, <3>3, <3>6
      <4>3. ASSUME Grammatical(t, p) PROVE r.next = e /\ Spells(t, p, r.value)
        <5>1. list.next = e /\ SpellsOperands(t, p + 1, e, list.value)
          BY <4>3, <2>1, <2>7, <3>4 DEF q
        <5> QED BY <5>1, <4>1, <2>4, <2>5, <1>s
      <4> QED BY <4>2, <4>3 DEF e
    <3> QED BY <3>5, <3>6
  <2> QED BY <2>6, <2>7
<1> QED BY <1>4, <1>5, <1>6, <1>7, <1>8

\* parse_statement accepts the lines of the grammar and no others, and returns the
\* statement that the line says.
LEMMA StatementMatches ==
    ASSUME NEW t, IsLexed(t), NEW p \in 1 .. Len(t), ~EndsStatement(t, p),
           NEW r, r = parse_statement(t, p)
    PROVE  /\ r.ok <=> Grammatical(t, p)
           /\ Grammatical(t, p) => r.next = EndOf(t, p) /\ Spells(t, p, r.value)
<1> DEFINE u == Unended(t, p)
<1>1. /\ u.ok /\ EndsStatement(t, u.next) <=> Grammatical(t, p)
      /\ Grammatical(t, p) => u.next = EndOf(t, p) /\ Spells(t, p, u.value)
  BY UnendedMatches
<1>2. r = Ended(t, u)
  BY EveryStatementEnds
<1> HIDE DEF u
<1>3. CASE u.ok /\ EndsStatement(t, u.next)
  <2>1. r = u
    BY <1>2, <1>3 DEF Ended
  <2> QED BY <2>1, <1>1, <1>3
<1>4. CASE ~(u.ok /\ EndsStatement(t, u.next))
  <2>1. ~r.ok
    BY <1>2, <1>4 DEF Ended, Failed
  <2> QED BY <2>1, <1>1, <1>4
<1> QED BY <1>3, <1>4

\* What a text that lexes is made of, for the parser.
LEMMA TokensAreExact ==
    ASSUME NEW script, IsText(script), Lexes(script), NEW j \in 1 .. Len(script), NEW token,
           TokensOf(script, j) = << token >>
    PROVE  IsExact(token)
<1> DEFINE p == script[j].piece
           T == TokensOf(script, j)
           hidden == \/ Commented(script, j) \/ p \in {" ", "other"}
                     \/ p = "-" /\ j < Len(script) /\ script[j + 1].piece = "digits"
<1>0. \A x, y : << x >> = << y >> => x = y
  OBVIOUS
<1>1. CASE hidden
  BY <1>1 DEF TokensOf
<1>2. CASE ~hidden /\ p = "newline"
  <2>1. token = [kind |-> "Newline"]
    BY <1>2 DEF TokensOf
  <2> QED BY <2>1, Zenon DEF IsExact, Mark
<1>3. CASE ~hidden /\ p = "name"
  <2>1. token = NameToken(script[j].text)
    BY <1>3 DEF TokensOf
  <2> DEFINE x == script[j].text
  <2> HIDE DEF x
  <2>2. CASE x \in DOMAIN RegisterName
    <3>1. token = Rn(RegisterName[x])
      BY <2>1, <2>2 DEF NameToken, Rn, x
    <3>2. RegisterName[x] \in Register
      BY <2>2 DEF RegisterName, Register
    <3>3. token.kind = "Register" /\ token.index = RegisterName[x]
      BY <3>1 DEF Rn
    <3> QED BY <3>1, <3>2, <3>3, Zenon DEF IsExact
  <2>3. CASE x \notin DOMAIN RegisterName
    <3>1. token = Id(x)
      BY <2>1, <2>3 DEF NameToken, Id, x
    <3>2. token.kind = "Identifier" /\ token.text = x
      BY <3>1 DEF Id
    <3> QED BY <3>1, <3>2, Zenon DEF IsExact
  <2> QED BY <2>2, <2>3
<1>4. CASE ~hidden /\ p = "digits"
  <2>1. token = Num(NumberOf(script, j))
    BY <1>4 DEF TokensOf, Num
  <2>2. NumberOf(script, j) \in -LLONG_MAX - 1 .. LLONG_MAX
    <3>1. j \in DOMAIN script
      BY DEF IsText
    <3> QED BY <1>4, <3>1 DEF Lexes
  <2>3. token.kind = "Number" /\ token.number = NumberOf(script, j)
    BY <2>1 DEF Num
  <2> QED BY <2>1, <2>2, <2>3, Zenon DEF IsExact
<1>5. CASE ~hidden /\ p \notin {"newline", "name", "digits"}
  <2>1. token = Mark(p)
    BY <1>5 DEF TokensOf, Mark
  <2>2. p \in PieceKind /\ p # ";"
    <3>1. p \in PieceKind
      BY DEF IsText
    <3>2. p = ";" => Commented(script, j)
      <4>1. \A k \in j .. j : k = j
        OBVIOUS
      <4>2. j \in 1 .. j
        OBVIOUS
      <4> QED BY <4>1, <4>2 DEF Commented
    <3> QED BY <3>1, <3>2, <1>5
  <2>3. p \in Punctuation
    BY <2>2, <1>5, Zenon DEF PieceKind
  <2>4. token.kind = p
    BY <2>1 DEF Mark
  <2> QED BY <2>1, <2>3, <2>4, Zenon DEF IsExact
<1> QED BY <1>1, <1>2, <1>3, <1>4, <1>5

\* The tokens of a text that lexes.
LEMMA TokenizeLexed ==
    ASSUME NEW script, IsText(script), Lexes(script)
    PROVE  IsLexed(tokenize(script))
<1>1. MadeOf(tokenize(script), script)
  BY TokenizeMakes
<1>2. ASSUME NEW i \in 1 .. Len(tokenize(script)) - 1
      PROVE  IsExact(tokenize(script)[i])
  <2>1. PICK j \in 1 .. Len(script) : TokensOf(script, j) = << tokenize(script)[i] >>
    BY <1>1 DEF MadeOf
  <2> QED BY <2>1, TokensAreExact
<1> QED BY <1>2, TokenizeTyped DEF IsLexed

-----------------------------------------------------------------------------
(* The lines of a text and their numbers. *)

\* Only the last token is an end of file.
LEMMA OneEndOfFile ==
    ASSUME NEW t, IsLexed(t), NEW i \in 1 .. Len(t), t[i].kind = "EndOfFile"
    PROVE  i = Len(t)
<1>1. \A x : IsExact(x) => x.kind # "EndOfFile"
  BY DEF IsExact, Punctuation
<1> DEFINE n == Len(t)
<1>2. n \in Nat /\ \A k \in 1 .. n - 1 : t[k].kind # "EndOfFile"
  BY <1>1, LexedFacts DEF IsLexed
<1> HIDE DEF n
<1>3. i \in 1 .. n
  BY DEF n
<1>4. i \in 1 .. n - 1 \/ i = n
  BY <1>2, <1>3
<1> QED BY <1>2, <1>4 DEF n

\* the lines in front of a token
StartsBefore(t, i) == {s \in Starts(t) : s < i}

\* Lines are numbered by their place among the starts.
LEMMA StartsFacts ==
    ASSUME NEW t, IsLexed(t), NEW i \in Nat
    PROVE  /\ Starts(t) \subseteq 1 .. Len(t)
           /\ \A s \in Starts(t) : ~EndsStatement(t, s)
           /\ IsFiniteSet(StartsBefore(t, i)) /\ Cardinality(StartsBefore(t, i)) \in Nat
<1>1. Starts(t) \subseteq 1 .. Len(t) /\ \A s \in Starts(t) : ~EndsStatement(t, s)
  BY LexedFacts DEF Starts, Ends, EndsStatement
<1>2. IsFiniteSet(1 .. Len(t))
  BY LexedFacts, FS_Interval
<1>3. StartsBefore(t, i) \subseteq 1 .. Len(t)
  BY <1>1 DEF StartsBefore
<1>4. IsFiniteSet(StartsBefore(t, i))
  BY <1>2, <1>3, FS_Subset
<1> QED BY <1>1, <1>4, FS_CardinalityType

\* The start of a line is the next one to be numbered.
LEMMA LineNumberIs ==
    ASSUME NEW t, IsLexed(t), NEW p \in Starts(t)
    PROVE  LineNumber(t, p) = Cardinality(StartsBefore(t, p)) + 1
<1>1. p \in Nat /\ \A s \in Starts(t) : s \in Int
  BY LexedFacts DEF Starts
<1> DEFINE B == StartsBefore(t, p)
<1>2. {s \in Starts(t) : s <= p} = B \cup {p}
  <2>1. \A s \in Starts(t) : s <= p <=> s < p \/ s = p
    BY <1>1
  <2> QED BY <2>1 DEF StartsBefore
<1>3. p \notin B
  BY <1>1 DEF StartsBefore
<1>4. IsFiniteSet(B)
  BY <1>1, StartsFacts
<1> HIDE DEF B
<1>5. Cardinality(B \cup {p}) = Cardinality(B) + 1
  BY <1>3, <1>4, FS_AddElement
<1> QED BY <1>2, <1>5 DEF LineNumber, B

\* The lines in front have the numbers up to their number.
LEMMA NumbersBefore ==
    ASSUME NEW t, IsLexed(t), NEW p \in Nat, NEW s \in StartsBefore(t, p)
    PROVE  LineNumber(t, s) \in 1 .. Cardinality(StartsBefore(t, p))
<1>1. s \in Starts(t) /\ s < p /\ s \in Nat /\ \A h \in Starts(t) : h \in Int
  BY LexedFacts DEF Starts, StartsBefore
<1>2. LineNumber(t, s) = Cardinality(StartsBefore(t, s)) + 1
  BY <1>1, LineNumberIs
<1>3. Cardinality(StartsBefore(t, s)) \in Nat /\ Cardinality(StartsBefore(t, p)) \in Nat
  BY <1>1, StartsFacts
<1>4. LineNumber(t, s) <= Cardinality(StartsBefore(t, p))
  <2> DEFINE L == {h \in Starts(t) : h <= s}
  <2>1. L \subseteq StartsBefore(t, p)
    <3>1. \A h \in Starts(t) : h <= s => h < p
      BY <1>1
    <3> QED BY <3>1 DEF StartsBefore
  <2>2. IsFiniteSet(StartsBefore(t, p))
    BY StartsFacts
  <2> HIDE DEF L
  <2>3. Cardinality(L) <= Cardinality(StartsBefore(t, p))
    BY <2>1, <2>2, FS_Subset
  <2> QED BY <2>3 DEF L, LineNumber
<1> QED BY <1>2, <1>3, <1>4

\* Over a line the numbers grow by one, over its end not.
LEMMA OverLine ==
    ASSUME NEW t, IsLexed(t), NEW p \in Starts(t)
    PROVE  /\ EndOf(t, p) \in Ends(t)
           /\ StartsBefore(t, EndOf(t, p)) = StartsBefore(t, p) \cup {p}
           /\ Cardinality(StartsBefore(t, EndOf(t, p))) = Cardinality(StartsBefore(t, p)) + 1
<1> DEFINE n == Len(t)
           e == EndOf(t, p)
<1>1. p \in 1 .. n /\ ~EndsStatement(t, p) /\ n \in Nat /\ DOMAIN t = 1 .. n
  BY LexedFacts DEF Starts, Ends, EndsStatement
<1>2. e \in p + 1 .. n /\ EndsStatement(t, e) /\ Unbroken(t, p, e)
  BY <1>1, EndOfLine
<1>3. ASSUME NEW s \in Starts(t) PROVE s < e <=> s < p \/ s = p
  <2>1. s \in 1 .. n /\ (s = 1 \/ EndsStatement(t, s - 1))
    BY <1>1 DEF Starts, Ends, EndsStatement
  <2>2. s - 1 \in p .. e - 1 => ~EndsStatement(t, s - 1)
    BY <1>2 DEF Unbroken
  <2>3. CASE s = 1
    BY <2>3, <1>1, <1>2
  <2>4. CASE EndsStatement(t, s - 1)
    <3>1. ~(s - 1 \in p .. e - 1)
      BY <2>2, <2>4
    <3> HIDE DEF e, n
    <3> QED BY <3>1, <2>1, <1>1, <1>2
  <2> QED BY <2>1, <2>3, <2>4
<1>4. e \in Ends(t)
  BY <1>1, <1>2 DEF Ends, EndsStatement
<1>5. StartsBefore(t, e) = StartsBefore(t, p) \cup {p}
  BY <1>3 DEF StartsBefore
<1>6. IsFiniteSet(StartsBefore(t, p)) /\ p \notin StartsBefore(t, p)
  BY <1>1, StartsFacts DEF StartsBefore
<1>7. Cardinality(StartsBefore(t, p) \cup {p}) = Cardinality(StartsBefore(t, p)) + 1
  BY <1>6, FS_AddElement
<1> QED BY <1>4, <1>5, <1>7

\* Behind the end of a line another line starts, or ends.
LEMMA OverEnd ==
    ASSUME NEW t, IsLexed(t), NEW e \in Ends(t)
    PROVE  /\ StartsBefore(t, e + 1) = StartsBefore(t, e)
           /\ t[e].kind # "EndOfFile" => e + 1 \in Starts(t) \cup Ends(t)
<1>1. e \in 1 .. Len(t) /\ e \notin Starts(t) /\ \A s \in Starts(t) : s \in Int
  BY LexedFacts DEF Starts, Ends
<1>2. \A s \in Starts(t) : s < e + 1 <=> s < e
  BY <1>1
<1>3. StartsBefore(t, e + 1) = StartsBefore(t, e)
  BY <1>2 DEF StartsBefore
<1>4. ASSUME t[e].kind # "EndOfFile" PROVE e + 1 \in Starts(t) \cup Ends(t)
  <2>1. e + 1 \in DOMAIN t /\ (e + 1) - 1 = e
    BY <1>1, <1>4, LexedFacts
  <2> QED BY <2>1 DEF Starts
<1> QED BY <1>3, <1>4

\* What the parser has read: whole lines of the grammar, a statement for each.
ReadOf(t, p, at) ==
    /\ at \in Starts(t) \cup Ends(t)
    /\ Len(p) = Cardinality(StartsBefore(t, at))
    /\ \A s \in StartsBefore(t, at) : Grammatical(t, s) /\ Spells(t, s, p[LineNumber(t, s)])

\* One line further.
LEMMA ReadStatement ==
    ASSUME NEW t, IsLexed(t), NEW p, IsSequence(p), NEW at \in Starts(t), ReadOf(t, p, at),
           NEW s, Grammatical(t, at), Spells(t, at, s)
    PROVE  ReadOf(t, p \o << s >>, EndOf(t, at))
<1> DEFINE B == StartsBefore(t, at)
           longer == Append(p, s)
           e == EndOf(t, at)
<1>1. /\ Len(p) \in Nat /\ Len(longer) = Len(p) + 1 /\ longer[Len(p) + 1] = s
      /\ \A i \in 1 .. Len(p) : longer[i] = p[i]
      /\ longer = p \o << s >>
  BY SequenceFacts
<1>2. Len(p) = Cardinality(B) /\ \A h \in B : Grammatical(t, h) /\ Spells(t, h, p[LineNumber(t, h)])
  BY DEF ReadOf
<1>3. /\ e \in Ends(t) /\ StartsBefore(t, e) = B \cup {at}
      /\ Cardinality(StartsBefore(t, e)) = Cardinality(B) + 1
  BY OverLine
<1>4. LineNumber(t, at) = Len(p) + 1
  BY <1>2, LineNumberIs
<1>5. \A h \in B : LineNumber(t, h) \in 1 .. Len(p)
  <2>1. at \in Nat
    BY LexedFacts DEF Starts
  <2> QED BY <2>1, <1>2, NumbersBefore
<1> HIDE DEF longer, B, e
<1>6. Len(longer) = Cardinality(StartsBefore(t, e))
  BY <1>1, <1>2, <1>3
<1>7. ASSUME NEW h \in StartsBefore(t, e)
      PROVE  Grammatical(t, h) /\ Spells(t, h, longer[LineNumber(t, h)])
  <2>1. CASE h = at
    BY <2>1, <1>1, <1>4
  <2>2. CASE h \in B
    <3>1. longer[LineNumber(t, h)] = p[LineNumber(t, h)]
      BY <2>2, <1>1, <1>5
    <3> QED BY <2>2, <3>1, <1>2
  <2> QED BY <2>1, <2>2, <1>3
<1>8. ReadOf(t, longer, e)
  BY <1>3, <1>6, <1>7 DEF ReadOf
<1> QED BY <1>1, <1>8 DEF e
=============================================================================
