----------------------------- MODULE ImageLoader ---------------------------
(***************************************************************************)
(* src/src/runtime/image_loader.cpp: validate a LoadedImage, reset the     *)
(* machine, copy the payload of every section word by word and set PC.     *)
(* The copy is one action per word because converting an address that is   *)
(* no word throws in the middle.                                           *)
(***************************************************************************)
EXTENDS Machine, LoadedImage

CONSTANT Images   \* the images the host may load

\* what the types of LoadedImage and LoadedImage::Section promise of an image
ImageSection ==
    [type : {"Text", "Data", "Rodata", "Bss"}, flags : SUBSET {"Read", "Write", "Execute"},
     virtual_address : Int, memory_size : Int, alignment : Int, words : Seq(Word)]

TypedImage(img) == img.entry_point \in Int /\ img.sections \in Seq(ImageSection)

ASSUME ImagesAssumption == \A img \in Images : TypedImage(img)

VARIABLES image,    \* the argument of the latest load
          at,       \* the loop variables of load and load_section
          call      \* what the caller waits for: "none", "load" or "run"

loader == << image, at, call >>

-----------------------------------------------------------------------------
\* mutant: the machine is reset before the image is validated
RejectAfterReset(img) ==
    /\ ~validate(img)
    /\ reset
    /\ outcome' = "ImageLoadError"
    /\ UNCHANGED << at, call >>

Reject(img) ==
    /\ ~validate(img)
    /\ outcome' = "ImageLoadError"
    /\ UNCHANGED << machine, at, call >>

Accept(img) ==
    /\ validate(img)
    /\ reset
    /\ at' = [section |-> 1, word |-> 1]
    /\ call' = "load"
    /\ outcome' = "ok"

\* ImageLoader::load up to the loop over the sections
load(img) ==
    /\ call = "none"
    /\ image' = img
    /\ Reject(img) \/ Accept(img)

Current == image.sections[at.section]
Address == Current.virtual_address + at.word - 1

InSection ==
    /\ call = "load"
    /\ at.section <= Len(image.sections)
    /\ at.word <= Len(Current.words)
    /\ Current.type # "Bss"

LoadWord ==
    /\ InSection
    /\ \/ /\ Fits(Address)
          /\ write(Address, Current.words[at.word])
          /\ at' = [at EXCEPT !.word = @ + 1]
          /\ UNCHANGED << call, outcome >>
       \/ /\ ~Fits(Address)
          /\ outcome' = "out_of_range"
          /\ call' = "none"
          /\ UNCHANGED << storage, at >>
    /\ UNCHANGED << cpu, contexts, halted, image >>

NextSection ==
    /\ call = "load"
    /\ at.section <= Len(image.sections)
    /\ ~InSection
    /\ at' = [section |-> at.section + 1, word |-> 1]
    /\ UNCHANGED << machine, outcome, image, call >>

\* mutant: execution starts at the first section, wherever _start is
SetEntryAtFirst ==
    /\ call = "load"
    /\ at.section > Len(image.sections)
    /\ cpu' = [cpu EXCEPT !.pc = image.sections[1].virtual_address] /\ outcome' = "ok"
    /\ call' = "none"
    /\ UNCHANGED << storage, contexts, halted, image, at >>

\* the loop has ended; set_pc(from_integer(entry_point))
SetEntry ==
    /\ call = "load"
    /\ at.section > Len(image.sections)
    /\ IF Fits(image.entry_point)
       THEN cpu' = [cpu EXCEPT !.pc = image.entry_point] /\ outcome' = "ok"
       ELSE cpu' = cpu /\ outcome' = "out_of_range"
    /\ call' = "none"
    /\ UNCHANGED << storage, contexts, halted, image, at >>

LoadTurn == LoadWord \/ NextSection \/ SetEntry
=============================================================================
