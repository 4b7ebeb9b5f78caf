---------------------------- MODULE LoadedImage ----------------------------
(***************************************************************************)
(* The image both loaders share (src/src/runtime/loaded_image.hpp), and    *)
(* ImageLoader::validate (image_loader.cpp), which reads nothing else.  An *)
(* image is a record of its header fields, a sequence of sections and one  *)
(* of symbols; the flags of a section are a set.                           *)
(***************************************************************************)
EXTENDS Integers, Sequences

CONSTANT INT64_MAX   \* the largest std::int64_t

readable(section)   == "Read" \in section.flags
writable(section)   == "Write" \in section.flags
executable(section) == "Execute" \in section.flags

has_section(img, type) == \E s \in DOMAIN img.sections : img.sections[s].type = type

\* text(): the first .text section in the vector
text(img) ==
    img.sections[CHOOSE s \in DOMAIN img.sections :
                    /\ img.sections[s].type = "Text"
                    /\ \A q \in 1 .. s - 1 : img.sections[q].type # "Text"]

is_valid_entry_point(img) ==
    /\ img.entry_point >= text(img).virtual_address
    /\ img.entry_point < text(img).virtual_address + text(img).memory_size

\* one turn of the loop of validate; section_end is its second and third line
ValidSection(img, sec) ==
    /\ sec.virtual_address >= img.memory_base
    /\ sec.virtual_address >= 0 /\ sec.memory_size >= 0
    /\ sec.memory_size <= INT64_MAX - sec.virtual_address
    /\ sec.virtual_address + sec.memory_size <= img.memory_base + img.memory_size
    /\ sec.alignment > 0
    /\ IF sec.type = "Bss"
       THEN sec.words = << >>
       ELSE /\ sec.memory_size = Len(sec.words)
            /\ sec.type = "Data" => writable(sec)
            /\ executable(sec) => sec.type = "Text"

\* every failing test throws the same ImageLoadError, so their order is left
\* out; nothing asks that sections be disjoint or that addresses be words
validate(img) ==
    /\ img.architecture_id = 1 /\ img.isa_version = 1 /\ img.format_version = 1
    /\ img.memory_base >= 0 /\ img.memory_size >= 0
    /\ img.memory_size <= INT64_MAX - img.memory_base
    /\ has_section(img, "Text")
    /\ executable(text(img))
    /\ is_valid_entry_point(img)
    /\ \A s \in DOMAIN img.sections : ValidSection(img, img.sections[s])
=============================================================================
