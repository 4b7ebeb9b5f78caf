------------------------------ MODULE TrnFile -------------------------------
(***************************************************************************)
(* A .trn file between the program that writes it and the one that loads   *)
(* it: an image is filled through the references TrnImage hands out, laid  *)
(* out, written by TrnWriter::write over an older file, perhaps not to the *)
(* end, perhaps damaged on the disk, and loaded by TrnLoader::load.        *)
(***************************************************************************)
EXTENDS ImageMeaning

CONSTANTS Images,       \* the images a client may start from, not laid out
          OldImage,     \* the image of the file that is there already
          ExtraWord,    \* a word the client appends
          DamagedWords, \* what a word of the file may turn into
          Tables,       \* headers, sections and symbols a client may put into an image
          Fragile(_),   \* the images whose tables are changed, writes interrupted, files damaged
          MaxPayload,   \* bound on the words of a payload
          MaxReserve    \* the words the writing program has memory for

VARIABLES image,    \* the TrnImage of the writing program
          file,     \* what is on the disk
          phase,    \* "build", "written", "loaded"
          outcome,  \* the exception of the latest call, or "ok"
          stored,   \* history: what the client has the right to get back
          result    \* what the latest load returned

vars == << image, file, phase, outcome, stored, result >>

Nothing == [kind |-> "nothing"]
Unknown == [kind |-> "unknown"]
Error   == [kind |-> "error"]

\* clients start from images that are not laid out; the older file holds an
\* image that was laid out and stored, and changed by nobody in between
ASSUME ClientAssumption ==
    /\ Images \subseteq TypedImages /\ \A img \in Images : ~img.laid_out
    /\ OldImage \in TypedImages
    /\ Serializable(layout(OldImage)) /\ Faithful(layout(OldImage))
    /\ \A t \in Tables :
          [EmptyImage EXCEPT !.header = t.header, !.sections = t.sections, !.symbols = t.symbols]
             \in TypedImages
    /\ ExtraWord \in Int /\ DamagedWords \subseteq Int

-----------------------------------------------------------------------------
Init ==
    /\ image \in Images
    /\ file = Whole(serialize(layout(OldImage)))
    /\ stored = Meaning(layout(OldImage))
    /\ phase = "build" /\ outcome = "ok" /\ result = Nothing

Build(img, error) ==
    /\ phase = "build"
    /\ image' = img /\ outcome' = error
    /\ UNCHANGED << file, phase, stored, result >>

Layout == Build(layout(image), "ok")

\* text().push_back(word), and the same for the other payloads: the image
\* keeps what layout computed
PushBack(type) ==
    /\ Len(Payload(image, type)) < MaxPayload
    /\ Build([image EXCEPT ![type] = Append(@, ExtraWord)], "ok")

\* header(), sections() and symbols() are references too
SetTables(t) ==
    /\ Fragile(image)
    /\ Build([image EXCEPT !.header = t.header, !.sections = t.sections, !.symbols = t.symbols], "ok")

SetBssSize(size) ==
    Build(set_bss_size(image, size), IF size < 0 THEN "TrnFormatError" ELSE "ok")

Written(f, s, error) ==
    /\ phase' = "written"
    /\ file' = f /\ stored' = s /\ outcome' = error
    /\ UNCHANGED << image, result >>

\* nothing is opened for an image that is not laid out
WriteUnready == phase = "build" /\ ~image.laid_out /\ Written(file, stored, "TrnWriterError")

\* the file is opened, and emptied, before serialize throws: there is no memory
\* for so many words, a negative number of them included, or a word does not fit
WriteUnreservable ==
    /\ phase = "build" /\ image.laid_out /\ payload_end(image) \notin 0 .. MaxReserve
    /\ Written(EmptyFile, Nothing, IF payload_end(image) < 0 THEN "length_error" ELSE "bad_alloc")

WriteUnserializable ==
    /\ phase = "build" /\ image.laid_out
    /\ payload_end(image) \in 0 .. MaxReserve /\ ~Serializable(image)
    /\ Written(EmptyFile, Nothing, "TrnFormatError")

Writable(img) ==
    img.laid_out /\ payload_end(img) \in 0 .. MaxReserve /\ Serializable(img)

Write ==
    /\ phase = "build" /\ Writable(image)
    /\ Written(Whole(serialize(image)), IF Faithful(image) THEN Meaning(image) ELSE Unknown, "ok")

\* the stream fails, or the program ends, behind some word or inside it
WriteInterrupted ==
    /\ phase = "build" /\ Writable(image) /\ Fragile(image)
    /\ \E n \in 0 .. Len(serialize(image)) - 1, whole \in BOOLEAN :
          Written([words |-> SubSeq(serialize(image), 1, n), whole |-> whole],
                  IF Faithful(image) THEN Nothing ELSE Unknown, "TrnWriterError")

\* the environment: one word of the file becomes another
Damage ==
    /\ phase = "written" /\ outcome = "ok" /\ Fragile(image)
    /\ \E at \in DOMAIN file.words, word \in DamagedWords :
          file.words[at] # word /\ file' = [file EXCEPT !.words[at] = word]
    /\ stored' = Unknown /\ outcome' = "damaged"
    /\ UNCHANGED << image, phase, result >>

Load ==
    /\ phase = "written" /\ phase' = "loaded"
    /\ \/ Loads(file)  /\ result' = Loaded(file) /\ outcome' = "ok"
       \/ ~Loads(file) /\ result' = Error /\ outcome' = "TrnLoaderError"
    /\ UNCHANGED << image, file, stored >>

Next ==
    \/ Layout
    \/ \E type \in {"text", "data", "rodata"} : PushBack(type)
    \/ \E t \in Tables : SetTables(t)
    \/ \E size \in {-1, 1} : SetBssSize(size)
    \/ WriteUnready \/ WriteUnreservable \/ WriteUnserializable \/ Write \/ WriteInterrupted
    \/ Damage
    \/ Load

Spec == Init /\ [][Next]_vars
-----------------------------------------------------------------------------
Store == INSTANCE ImageStore

\* A file is a store of images. For an image that is Faithful when it is written,
\* a load returns it, with every payload in its section and every symbol at its
\* address, or fails if it is not acceptable; if its write did not end, or
\* serialize threw, a load fails, and no part of the new image is ever mixed
\* with the old one; a write that is refused leaves the old one. From a file that
\* was damaged, and from an image changed behind its layout, a load returns an
\* acceptable image or fails.
RefinesStore == Store!Spec

\* Whatever is on the disk, an image TrnLoader accepts fails ImageLoader's
\* validation for two reasons only: the flags of its sections and a memory that
\* begins below 0. The two loaders check the same sizes and ranges twice.
LoadersAgree ==
    Loads(file) =>
        (validate(Loaded(file)) <=> ProperFlags(Loaded(file)) /\ Loaded(file).memory_base >= 0)
=============================================================================
