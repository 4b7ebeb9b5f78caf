---------------------------- MODULE TrnTheorems -----------------------------
(***************************************************************************)
(* The two loaders on every file, and the refinement of the store of       *)
(* images.  Its invariant, StoreInv, says of the file that it is the words *)
(* of an image that was laid out and is Faithful, or does not load, or     *)
(* that its content is unknown; what follows from that is in               *)
(* FormatTheorems.                                                         *)
(***************************************************************************)
EXTENDS TrnFile, FormatTheorems

\* Of every file TrnLoader accepts, ImageLoader's validation accepts the image
\* but for the flags of its sections and a memory that begins below 0.
THEOREM SecondLoaderAgrees == file \in File => LoadersAgree
  BY SecondLoaderTests DEF LoadersAgree

StoredRight ==
    \/ stored = Unknown
    \/ stored = Nothing /\ ~Loads(file)
    \/ \E img \in TypedImages :
          Storable(img) /\ file = Whole(serialize(img)) /\ stored = Meaning(img)

StoreInv ==
    /\ image \in TypedImages
    /\ file \in File
    /\ StoredRight

-----------------------------------------------------------------------------
(* The invariant and the refinement. *)

\* A payload with one word more.
Pushed(img, type, word) == [img EXCEPT ![type] = Append(@, word)]

\* A word more keeps the types.
LEMMA PushBackKeeps ==
    ASSUME NEW img \in TypedImages, NEW type \in Filed, NEW word \in Int
    PROVE  Pushed(img, type, word) \in TypedImages
<1> DEFINE z == Pushed(img, type, word)
           A == [DOMAIN NewHeader -> Int]
           B == Seq([type : DOMAIN SectionType, flags : SUBSET DOMAIN SectionFlag,
                     file_offset : Int, size : Int, alignment : Int, virtual_address : Int])
           C == Seq([identifier : Int, type : DOMAIN SymbolType, section : Int, offset : Int,
                     visibility : DOMAIN SymbolVisibility])
           D == Seq(Int)
           typed == [header : A, sections : B, symbols : C, text : D, data : D, rodata : D,
                     bss_size : Nat, laid_out : BOOLEAN]
<1>1. img \in typed
  BY DEF TypedImages
<1>2. \A q \in D : Append(q, word) \in D
  OBVIOUS
<1>3. type \in {"text", "data", "rodata"} /\ z = [img EXCEPT ![type] = Append(@, word)]
  BY DEF Filed, Pushed
<1> HIDE DEF A, B, C, D, z
<1>4. z \in typed
  BY <1>1, <1>2, <1>3
<1> QED BY <1>4 DEF TypedImages, A, B, C, D, z

\* Other tables in an image.
Edited(img, t) ==
    [img EXCEPT !.header = t.header, !.sections = t.sections, !.symbols = t.symbols]

\* They keep the types.
LEMMA SetTablesKeeps ==
    ASSUME NEW img \in TypedImages, NEW t \in Tables
    PROVE  Edited(img, t) \in TypedImages
<1> DEFINE e == Edited(EmptyImage, t)
           z == Edited(img, t)
           A == [DOMAIN NewHeader -> Int]
           B == Seq([type : DOMAIN SectionType, flags : SUBSET DOMAIN SectionFlag,
                     file_offset : Int, size : Int, alignment : Int, virtual_address : Int])
           C == Seq([identifier : Int, type : DOMAIN SymbolType, section : Int, offset : Int,
                     visibility : DOMAIN SymbolVisibility])
           D == Seq(Int)
           typed == [header : A, sections : B, symbols : C, text : D, data : D, rodata : D,
                     bss_size : Nat, laid_out : BOOLEAN]
<1>1. img \in typed /\ e \in typed
  BY ClientAssumption DEF TypedImages, Edited
<1>2. e.header = t.header /\ e.sections = t.sections /\ e.symbols = t.symbols
  BY DEF Edited, EmptyImage
<1>3. z = [img EXCEPT !.header = t.header, !.sections = t.sections, !.symbols = t.symbols]
  BY DEF Edited
<1> HIDE DEF A, B, C, D, z, e
<1>4. t.header \in A /\ t.sections \in B /\ t.symbols \in C
  BY <1>1, <1>2
<1>5. z \in typed
  BY <1>1, <1>3, <1>4
<1> QED BY <1>5 DEF TypedImages, A, B, C, D, z

\* A size of .bss keeps the types.
LEMMA SetBssKeeps ==
    ASSUME NEW img \in TypedImages, NEW size \in {-1, 1}, NEW z, z = set_bss_size(img, size)
    PROVE  z \in TypedImages
<1> DEFINE A == [DOMAIN NewHeader -> Int]
           B == Seq([type : DOMAIN SectionType, flags : SUBSET DOMAIN SectionFlag,
                     file_offset : Int, size : Int, alignment : Int, virtual_address : Int])
           C == Seq([identifier : Int, type : DOMAIN SymbolType, section : Int, offset : Int,
                     visibility : DOMAIN SymbolVisibility])
           D == Seq(Int)
           typed == [header : A, sections : B, symbols : C, text : D, data : D, rodata : D,
                     bss_size : Nat, laid_out : BOOLEAN]
<1>1. img \in typed
  BY DEF TypedImages
<1>2. z = img \/ z = [img EXCEPT !.bss_size = 1, !.laid_out = FALSE]
  <2>1. CASE size = -1
    BY <2>1 DEF set_bss_size
  <2>2. CASE size = 1
    BY <2>2 DEF set_bss_size
  <2> QED BY <2>1, <2>2
<1> HIDE DEF A, B, C, D
<1>3. z \in typed
  <2>1. CASE z = img
    BY <1>1, <2>1
  <2>2. CASE z = [img EXCEPT !.bss_size = 1, !.laid_out = FALSE]
    <3> HIDE DEF typed
    <3>1. z \in typed
      <4>1. z = [header |-> img.header, sections |-> img.sections, symbols |-> img.symbols,
                 text |-> img.text, data |-> img.data, rodata |-> img.rodata,
                 bss_size |-> 1, laid_out |-> FALSE]
        BY <1>1, <2>2 DEF typed
      <4>2. /\ img.header \in A /\ img.sections \in B /\ img.symbols \in C
            /\ img.text \in D /\ img.data \in D /\ img.rodata \in D
        BY <1>1 DEF typed
      <4> QED BY <4>1, <4>2 DEF typed
    <3> QED BY <3>1
  <2> QED BY <1>2, <2>1, <2>2
<1> QED BY <1>3 DEF TypedImages, A, B, C, D

\* Words of a file, cut or damaged, are words of a file.
LEMMA FilesStay ==
    /\ \A w \in Seq(Int), n \in Nat, b \in BOOLEAN :
          n <= Len(w) => [words |-> SubSeq(w, 1, n), whole |-> b] \in File
    /\ \A f \in File : \A at \in DOMAIN f.words, word \in Int :
          [f EXCEPT !.words[at] = word] \in File
<1>1. ASSUME NEW w \in Seq(Int), NEW n \in Nat, NEW b \in BOOLEAN, n <= Len(w)
      PROVE  [words |-> SubSeq(w, 1, n), whole |-> b] \in File
  <2>1. \A i \in 1 .. n : w[i] \in Int
    <3> TAKE i \in 1 .. n
    <3>1. i \in 1 .. Len(w)
      BY <1>1
    <3> QED BY <3>1, ElementOfSeq
  <2>2. SubSeq(w, 1, n) \in Seq(Int)
    BY <2>1, SubSeqProperties
  <2> QED BY <2>2 DEF File
<1>2. ASSUME NEW f \in File, NEW at \in DOMAIN f.words, NEW word \in Int
      PROVE  [f EXCEPT !.words[at] = word] \in File
  <2> DEFINE w == f.words
             v == [w EXCEPT ![at] = word]
  <2>1. w \in Seq(Int) /\ f \in [words : Seq(Int), whole : BOOLEAN]
    BY DEF File
  <2>2. at \in 1 .. Len(w)
    BY <2>1
  <2> HIDE DEF w
  <2>3. v \in Seq(Int)
    BY <2>1, <2>2, ExceptSeq
  <2>4. [f EXCEPT !.words[at] = word] = [f EXCEPT !.words = v]
    BY DEF w
  <2> HIDE DEF v
  <2> QED BY <2>1, <2>3, <2>4 DEF File
<1> QED BY <1>1, <1>2

\* What an image means is neither nothing nor unknown.
LEMMA MeaningIsAnImage ==
    ASSUME NEW img
    PROVE  Meaning(img) \notin {Nothing, Unknown}
<1>1. DOMAIN Meaning(img) = LoadedHeader \cup {"sections", "symbols"}
  BY DEF Meaning
<1>2. "kind" \notin DOMAIN Meaning(img)
  BY <1>1 DEF LoadedHeader
<1>3. "kind" \in DOMAIN Nothing /\ "kind" \in DOMAIN Unknown
  BY DEF Nothing, Unknown
<1> QED BY <1>2, <1>3

\* The older file is one of these.
LEMMA StoreInvInit == Init => StoreInv
<1> SUFFICES ASSUME Init PROVE StoreInv
  OBVIOUS
<1> DEFINE old == layout(OldImage)
<1>1. Storable(old)
  BY ClientAssumption, LayoutLays DEF Storable
<1>2. image \in TypedImages /\ ~image.laid_out
  BY ClientAssumption DEF Init
<1>3. file = Whole(serialize(old)) /\ stored = Meaning(old)
  BY DEF Init
<1> HIDE DEF old
<1>4. file \in File /\ old \in TypedImages
  BY <1>1, <1>3, WholeFile DEF Storable
<1> QED BY <1>1, <1>2, <1>3, <1>4 DEF StoreInv, StoredRight

\* Every step keeps the invariant.
LEMMA StoreInvStep == StoreInv /\ [Next]_vars => StoreInv'
<1> SUFFICES ASSUME StoreInv, [Next]_vars PROVE StoreInv'
  OBVIOUS
<1>i. image \in TypedImages /\ file \in File /\ StoredRight
  BY DEF StoreInv
<1>s. ASSUME UNCHANGED << file, stored >> PROVE file' \in File /\ StoredRight'
  BY <1>s, <1>i DEF StoredRight
<1>1. CASE Layout
  <2>1. image' = layout(image) /\ UNCHANGED << file, stored >>
    BY <1>1 DEF Layout, Build
  <2>2. image' \in TypedImages
    BY <2>1, <1>i, LayoutLays
  <2> QED BY <2>1, <2>2, <1>s DEF StoreInv
<1>2. ASSUME NEW type \in {"text", "data", "rodata"}, PushBack(type) PROVE StoreInv'
  <2>1. image' = [image EXCEPT ![type] = Append(@, ExtraWord)] /\ UNCHANGED << file, stored >>
    BY <1>2 DEF PushBack, Build
  <2>2. image' \in TypedImages
    <3> DEFINE z == image'
    <3>1. ExtraWord \in Int /\ type \in Filed
      BY ClientAssumption DEF Filed
    <3>2. z = Pushed(image, type, ExtraWord)
      BY <2>1 DEF Pushed
    <3> HIDE DEF z
    <3>3. z \in TypedImages
      BY <3>1, <3>2, <1>i, PushBackKeeps
    <3> QED BY <3>3 DEF z
  <2> QED BY <2>1, <2>2, <1>s DEF StoreInv
<1>3. ASSUME NEW size \in {-1, 1}, SetBssSize(size) PROVE StoreInv'
  <2>1. image' = set_bss_size(image, size) /\ UNCHANGED << file, stored >>
    BY <1>3 DEF SetBssSize, Build
  <2>2. image' \in TypedImages
    BY <2>1, <1>i, SetBssKeeps
  <2> QED BY <2>1, <2>2, <1>s DEF StoreInv
<1>t. ASSUME NEW t \in Tables, SetTables(t) PROVE StoreInv'
  <2>1. image' = Edited(image, t) /\ UNCHANGED << file, stored >>
    BY <1>t DEF SetTables, Build, Edited
  <2>2. image' \in TypedImages
    BY <2>1, <1>i, SetTablesKeeps
  <2> QED BY <2>1, <2>2, <1>s DEF StoreInv
<1>4. CASE WriteUnready
  BY <1>4, <1>i, <1>s DEF WriteUnready, Written, StoreInv
<1>5. CASE WriteUnserializable
  <2>1. file' = EmptyFile /\ stored' = Nothing /\ image' = image
    BY <1>5 DEF WriteUnserializable, Written
  <2> QED BY <2>1, <1>i, NothingLoads DEF StoreInv, StoredRight
<1>r. CASE WriteUnreservable
  <2>1. file' = EmptyFile /\ stored' = Nothing /\ image' = image
    BY <1>r DEF WriteUnreservable, Written
  <2> QED BY <2>1, <1>i, NothingLoads DEF StoreInv, StoredRight
<1>f. Faithful(image) /\ Serializable(image) => Storable(image)
  <2> SUFFICES ASSUME Faithful(image), Serializable(image) PROVE Storable(image)
    OBVIOUS
  <2>1. layout(image) = image
    BY DEF Faithful
  <2>2. HasLayout(layout(image))
    BY <1>i, LayoutLays
  <2> QED BY <1>i, <2>1, <2>2 DEF Storable
<1>6. CASE Write
  <2>1. /\ Serializable(image) /\ file' = Whole(serialize(image)) /\ image' = image
        /\ stored' = IF Faithful(image) THEN Meaning(image) ELSE Unknown
    BY <1>6 DEF Write, Writable, Written
  <2>2. file' \in File
    BY <2>1, <1>i, WholeFile
  <2>3. Faithful(image) => Storable(image)
    BY <2>1, <1>f
  <2>4. StoredRight'
    BY <2>1, <2>3, <1>i DEF StoredRight
  <2> QED BY <2>1, <2>2, <2>4, <1>i DEF StoreInv
<1>7. CASE WriteInterrupted
  <2>1. Serializable(image) /\ image' = image
    BY <1>7 DEF WriteInterrupted, Writable, Written
  <2>2. PICK n \in 0 .. Len(serialize(image)) - 1, b \in BOOLEAN :
           /\ file' = [words |-> SubSeq(serialize(image), 1, n), whole |-> b]
           /\ stored' = IF Faithful(image) THEN Nothing ELSE Unknown
    BY <1>7 DEF WriteInterrupted, Written
  <2>3. serialize(image) \in Seq(Int) /\ Len(serialize(image)) = FileLength(image)
    BY <1>i, SerializeFacts
  <2>4. file' \in File
    <3> DEFINE w == serialize(image)
    <3>1. n \in Nat /\ n <= Len(w) /\ w \in Seq(Int)
      BY <2>3
    <3> HIDE DEF w
    <3>2. [words |-> SubSeq(w, 1, n), whole |-> b] \in File
      BY <3>1, FilesStay
    <3> QED BY <3>2, <2>2 DEF w
  <2>5. Faithful(image) => ~Loads(file')
    <3> SUFFICES ASSUME Faithful(image) PROVE ~Loads(file')
      OBVIOUS
    <3>1. Storable(image)
      BY <2>1, <1>f
    <3>2. n \in 0 .. FileLength(image) - 1
      BY <2>3
    <3> QED BY <2>2, <3>1, <3>2, CutFile
  <2>6. StoredRight'
    BY <2>2, <2>5 DEF StoredRight
  <2> QED BY <2>1, <2>4, <2>6, <1>i DEF StoreInv
<1>8. CASE Damage
  <2>1. image' = image /\ stored' = Unknown
    BY <1>8 DEF Damage
  <2>2. PICK at \in DOMAIN file.words, word \in DamagedWords : file' = [file EXCEPT !.words[at] = word]
    BY <1>8 DEF Damage
  <2>3. file' \in File
    BY <2>2, <1>i, FilesStay, ClientAssumption
  <2> QED BY <2>1, <2>3, <1>i DEF StoreInv, StoredRight
<1>9. CASE Load
  BY <1>9, <1>i, <1>s DEF Load, StoreInv
<1>10. CASE UNCHANGED vars
  BY <1>10, <1>i, <1>s DEF vars, StoreInv
<1> QED BY <1>1, <1>2, <1>3, <1>t, <1>4, <1>5, <1>r, <1>6, <1>7, <1>8, <1>9, <1>10 DEF Next

\* The invariant of the file and of what the client has the right to.
LEMMA StoreInvariant == Spec => []StoreInv
<1> QED BY StoreInvInit, StoreInvStep, PTL DEF Spec

\* A load gives what is stored.
LEMMA LoadFetches == StoreInv /\ Load => Store!Fetch
<1> SUFFICES ASSUME StoreInv, Load PROVE Store!Fetch
  OBVIOUS
<1>1. /\ UNCHANGED << file, stored >>
      /\ Loads(file) => result' = Loaded(file)
      /\ ~Loads(file) => result' = Error
  BY DEF Load
<1>2. StoredRight
  BY DEF StoreInv
<1>3. CASE stored = Unknown
  <2>1. Loads(file) => Acceptable(Loaded(file))
    BY LoadedIsAcceptable DEF StoreInv
  <2> QED BY <1>1, <1>3, <2>1 DEF Store!Fetch
<1>4. CASE stored = Nothing /\ ~Loads(file)
  BY <1>1, <1>4 DEF Store!Fetch
<1>5. ASSUME NEW img \in TypedImages, Storable(img), file = Whole(serialize(img)), stored = Meaning(img)
      PROVE  Store!Fetch
  <2>1. StoredAs(img, file)
    BY <1>5 DEF StoredAs
  <2>2. /\ Loads(file) <=> Acceptable(stored)
        /\ Loads(file) => Loaded(file) = stored
    BY <1>5, <2>1, LoadsIffAcceptable
  <2>3. stored \notin {Nothing, Unknown}
    BY <1>5, MeaningIsAnImage
  <2> QED BY <1>1, <2>2, <2>3 DEF Store!Fetch
<1> QED BY <1>2, <1>3, <1>4, <1>5 DEF StoredRight

\* The file, with its clients, its writers, its interruptions and its damages, implements
\* the store of whole images: what is loaded is the Faithful image that was written last,
\* entire, or an error; of a damaged file, or an image changed behind its layout, only
\* that what is loaded is acceptable.
THEOREM StoreImplemented == Spec => RefinesStore
<1>1. Init => Store!Init
  BY DEF Init, Store!Init
<1>2. StoreInv /\ [Next]_vars => [Store!Next]_<< stored, result >>
  <2> SUFFICES ASSUME StoreInv, [Next]_vars PROVE [Store!Next]_<< stored, result >>
    OBVIOUS
  <2>1. CASE Load
    BY <2>1, LoadFetches DEF Store!Next
  <2>2. CASE ~Load
    <3>1. UNCHANGED result
      BY <2>2 DEF Next, vars, Layout, Build, PushBack, SetTables, SetBssSize, Written, WriteUnready,
                  WriteUnreservable, WriteUnserializable, Write, WriteInterrupted, Damage
    <3> QED BY <3>1 DEF Store!Next, Store!Store
  <2> QED BY <2>1, <2>2
<1> QED BY <1>1, <1>2, StoreInvariant, PTL DEF Spec, RefinesStore, Store!Spec

\* In every file that is ever on the disk the two loaders agree.
THEOREM LoadersAlwaysAgree == Spec => []LoadersAgree
<1>1. StoreInv => LoadersAgree
  BY SecondLoaderAgrees DEF StoreInv
<1> QED BY <1>1, StoreInvariant, PTL
=============================================================================
