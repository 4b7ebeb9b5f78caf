---------------------------- MODULE TVMTheorems ----------------------------
(***************************************************************************)
(* The virtual machine under its host, and the contexts the host saves:    *)
(* every set of images, every CPU the host may write, every width of a     *)
(* word.                                                                   *)
(***************************************************************************)
EXTENDS ContextDiscipline, MachineTheorems

-----------------------------------------------------------------------------
(* What a list of writes leaves in the memory. *)

\* The slots of an image are its payload words, with an address and a word.
LEMMA SlotParts ==
    ASSUME NEW img, TypedImage(img)
    PROVE  /\ Len(img.sections) \in Nat
           /\ \A s \in 1 .. Len(img.sections) :
                 img.sections[s] \in ImageSection /\ Len(img.sections[s].words) \in Nat
           /\ \A p \in Slots(img) :
                 \E s \in 1 .. Len(img.sections) : \E w \in 1 .. Len(img.sections[s].words) :
                     p = << s, w >>
           /\ \A s \in 1 .. Len(img.sections) : \A w \in 1 .. Len(img.sections[s].words) :
                 << s, w >> \in Slots(img)
           /\ \A p \in Slots(img) :
                 /\ p[1] \in Nat /\ p[2] \in Nat /\ p = << p[1], p[2] >>
                 /\ SlotAddress(img, p) \in Int /\ SlotWord(img, p) \in Word
<1>1. img.sections \in Seq(ImageSection)
  BY DEF TypedImage
<1>2. ASSUME NEW s \in 1 .. Len(img.sections)
      PROVE  /\ img.sections[s] \in ImageSection /\ Len(img.sections[s].words) \in Nat
             /\ img.sections[s].words \in Seq(Word) /\ img.sections[s].virtual_address \in Int
  <2>1. img.sections[s] \in ImageSection
    BY <1>1
  <2> QED BY <2>1 DEF ImageSection
<1>3. ASSUME NEW p \in Slots(img)
      PROVE  \E s \in 1 .. Len(img.sections) : \E w \in 1 .. Len(img.sections[s].words) :
                 p = << s, w >>
  <2>1. PICK s \in DOMAIN img.sections : p \in {<< s, w >> : w \in DOMAIN img.sections[s].words}
    BY DEF Slots
  <2>2. s \in 1 .. Len(img.sections)
    BY <1>1, <2>1
  <2>3. DOMAIN img.sections[s].words = 1 .. Len(img.sections[s].words)
    BY <1>2, <2>2
  <2> QED BY <2>1, <2>2, <2>3
<1>4. ASSUME NEW s \in 1 .. Len(img.sections), NEW w \in 1 .. Len(img.sections[s].words)
      PROVE  << s, w >> \in Slots(img)
  <2>1. s \in DOMAIN img.sections /\ w \in DOMAIN img.sections[s].words
    BY <1>1, <1>2
  <2> QED BY <2>1 DEF Slots
<1>5. ASSUME NEW p \in Slots(img)
      PROVE  /\ p[1] \in Nat /\ p[2] \in Nat /\ p = << p[1], p[2] >>
             /\ SlotAddress(img, p) \in Int /\ SlotWord(img, p) \in Word
  <2>0. PICK s \in 1 .. Len(img.sections) : \E w \in 1 .. Len(img.sections[s].words) : p = << s, w >>
    BY <1>3
  <2>1. PICK w \in 1 .. Len(img.sections[s].words) : p = << s, w >>
    BY <2>0
  <2>2. s \in Nat /\ w \in Nat /\ Len(img.sections) \in Nat
    BY <1>1, <1>2, <2>1
  <2>3. img.sections[s].words[w] \in Word /\ img.sections[s].virtual_address + w - 1 \in Int
    BY <1>2, <2>1, <2>2
  <2> QED BY <2>1, <2>2, <2>3 DEF SlotAddress, SlotWord
<1> QED BY <1>1, <1>2, <1>3, <1>4, <1>5

\* No address has two last writes.
LEMMA LatestIsUnique ==
    ASSUME NEW img, TypedImage(img), NEW slots \in SUBSET Slots(img),
           NEW p \in slots, NEW q \in slots, Latest(img, slots, p), Latest(img, slots, q),
           SlotAddress(img, p) = SlotAddress(img, q)
    PROVE  p = q
<1>1. ~Before(p, q) /\ ~Before(q, p)
  BY DEF Latest
<1>2. /\ p[1] \in Nat /\ p[2] \in Nat /\ p = << p[1], p[2] >>
      /\ q[1] \in Nat /\ q[2] \in Nat /\ q = << q[1], q[2] >>
  BY SlotParts
<1>3. p[1] = q[1] /\ p[2] = q[2]
  BY <1>1, <1>2 DEF Before
<1> QED BY <1>2, <1>3

\* Contents holds the last writes that are not zero, and nothing else.
LEMMA ContentsParts ==
    ASSUME NEW img, TypedImage(img), NEW slots \in SUBSET Slots(img)
    PROVE  /\ Contents(img, slots) =
                 [a \in DOMAIN Contents(img, slots) |-> Contents(img, slots)[a]]
           /\ DOMAIN Contents(img, slots) = {SlotAddress(img, p) : p \in Kept(img, slots)}
           /\ \A p \in Kept(img, slots) :
                 Contents(img, slots)[SlotAddress(img, p)] = SlotWord(img, p)
<1> DEFINE kept == Kept(img, slots)
           chosen(a) == CHOOSE p \in kept : SlotAddress(img, p) = a
<1>1. Contents(img, slots) =
          [a \in {SlotAddress(img, p) : p \in kept} |-> SlotWord(img, chosen(a))]
  BY DEF Contents
<1>2. ASSUME NEW p \in kept PROVE chosen(SlotAddress(img, p)) = p
  <2>1. chosen(SlotAddress(img, p)) \in kept
        /\ SlotAddress(img, chosen(SlotAddress(img, p))) = SlotAddress(img, p)
    BY <1>2
  <2> QED BY <2>1, LatestIsUnique DEF Kept
<1> HIDE DEF kept, chosen
<1>3. DOMAIN Contents(img, slots) = {SlotAddress(img, p) : p \in kept}
  BY <1>1
<1>4. \A p \in kept : Contents(img, slots)[SlotAddress(img, p)] = SlotWord(img, p)
  BY <1>1, <1>2
<1>5. Contents(img, slots) = [a \in DOMAIN Contents(img, slots) |-> Contents(img, slots)[a]]
  BY <1>1
<1> QED BY <1>3, <1>4, <1>5 DEF kept

\* No write leaves the memory of a new machine.
LEMMA NoContents ==
    ASSUME NEW img
    PROVE  Contents(img, {}) = EmptyStorage
  BY DEF Contents, Kept, EmptyStorage

\* One more write, behind the others, is a write to the memory they leave.
LEMMA ContentsStep ==
    ASSUME NEW img, TypedImage(img), NEW slots \in SUBSET Slots(img),
           NEW p \in Slots(img), \A q \in slots : Before(q, p)
    PROVE  Contents(img, slots \cup {p}) =
               Written(Contents(img, slots), SlotAddress(img, p), SlotWord(img, p))
<1> DEFINE a == SlotAddress(img, p)
           v == SlotWord(img, p)
           more == slots \cup {p}
           old == Contents(img, slots)
           new == Contents(img, more)
<1>1. more \in SUBSET Slots(img)
  OBVIOUS
<1>2. ~Before(p, p) /\ \A q \in slots : ~Before(p, q)
  <2>1. ASSUME NEW q \in slots PROVE ~Before(p, q)
    <3>1. Before(q, p)
      OBVIOUS
    <3>2. p[1] \in Nat /\ p[2] \in Nat /\ q[1] \in Nat /\ q[2] \in Nat
      BY SlotParts
    <3> QED BY <3>1, <3>2 DEF Before
  <2>2. p[1] \in Nat /\ p[2] \in Nat
    BY SlotParts
  <2> QED BY <2>1, <2>2 DEF Before
<1>3. Latest(img, more, p)
  BY <1>2 DEF Latest
<1>4. ASSUME NEW q \in slots
      PROVE  Latest(img, more, q) <=> Latest(img, slots, q) /\ SlotAddress(img, q) # a
  BY DEF Latest
<1>5. Kept(img, more) = {q \in Kept(img, slots) : SlotAddress(img, q) # a}
                            \cup {q \in {p} : v # 0}
  <2>1. ASSUME NEW q
        PROVE  q \in Kept(img, more) <=>
                  \/ q \in Kept(img, slots) /\ SlotAddress(img, q) # a
                  \/ q = p /\ v # 0
    <3>1. CASE q = p /\ p \notin slots
      BY <1>3, <3>1 DEF Kept
    <3>2. CASE q \in slots
      <4>1. q # p
        BY <1>2, <3>2
      <4> QED BY <1>4, <3>2, <4>1 DEF Kept
    <3>3. CASE q \notin slots /\ q # p
      BY <3>3 DEF Kept
    <3>4. p \notin slots
      BY <1>2
    <3> QED BY <3>1, <3>2, <3>3, <3>4
  <2> QED BY <2>1
<1>6. /\ new = [x \in DOMAIN new |-> new[x]]
      /\ DOMAIN new = {SlotAddress(img, q) : q \in Kept(img, more)}
      /\ \A q \in Kept(img, more) : new[SlotAddress(img, q)] = SlotWord(img, q)
  BY <1>1, ContentsParts
<1>7. /\ old = [x \in DOMAIN old |-> old[x]]
      /\ DOMAIN old = {SlotAddress(img, q) : q \in Kept(img, slots)}
      /\ \A q \in Kept(img, slots) : old[SlotAddress(img, q)] = SlotWord(img, q)
  BY ContentsParts
<1> HIDE DEF a, v, more, old, new
<1>8. /\ DOMAIN new = (DOMAIN old \ {a}) \cup {x \in {a} : v # 0}
      /\ \A x \in DOMAIN new : x # a => new[x] = old[x]
      /\ v # 0 => new[a] = v
  <2>1. a = SlotAddress(img, p) /\ v = SlotWord(img, p)
    BY DEF a, v
  <2> QED BY <1>5, <1>6, <1>7, <2>1
<1>9. CASE v = 0
  <2>1. Written(old, a, v) = [x \in DOMAIN old \ {a} |-> old[x]]
    BY <1>9 DEF Written
  <2> QED BY <1>6, <1>8, <1>9, <2>1 DEF a, v, more, old, new
<1>10. CASE v # 0
  <2>1. Written(old, a, v) = [x \in DOMAIN old \cup {a} |-> IF x = a THEN v ELSE old[x]]
    BY <1>10 DEF Written
  <2>2. DOMAIN new = DOMAIN old \cup {a}
    BY <1>8, <1>10
  <2>3. \A x \in DOMAIN new : new[x] = IF x = a THEN v ELSE old[x]
    BY <1>8, <1>10
  <2>4. new = Written(old, a, v)
    BY <1>6, <2>1, <2>2, <2>3
  <2> QED BY <2>4 DEF a, v, more, old, new
<1> QED BY <1>9, <1>10
-----------------------------------------------------------------------------
(***************************************************************************)
(* The inductive invariant.  What a load promises of its last step is only *)
(* true because of all the steps before: while a load is in progress the   *)
(* image has passed validate, the machine is a reset one, and its memory   *)
(* holds exactly the words written so far, all of them at addresses that   *)
(* are words.                                                              *)
(***************************************************************************)
\* the slots the load has written
Filled == {p \in Slots(image) : Before(p, << at.section, at.word >>)}

LoadInProgress ==
    call = "load" =>
        /\ TypedImage(image) /\ validate(image)
        /\ cpu = ResetCPU /\ contexts = << >> /\ ~halted /\ outcome = "ok"
        /\ storage = Contents(image, Filled)
        /\ \A p \in Filled : SlotAddress(image, p) \in Word

Cursor == [section : Nat \ {0}, word : Nat \ {0}]

TvmInv == TvmTypeOK /\ at \in Cursor /\ LoadInProgress

\* The slots written when the cursor is at the first word of the image.
LEMMA FilledAtFirst ==
    ASSUME NEW img, TypedImage(img)
    PROVE  {p \in Slots(img) : Before(p, << 1, 1 >>)} = {}
<1>1. ASSUME NEW p \in Slots(img) PROVE ~Before(p, << 1, 1 >>)
  <2>1. PICK s \in 1 .. Len(img.sections) : \E w \in 1 .. Len(img.sections[s].words) : p = << s, w >>
    BY SlotParts
  <2>2. PICK w \in 1 .. Len(img.sections[s].words) : p = << s, w >>
    BY <2>1
  <2>3. p[1] = s /\ p[2] = w /\ s >= 1 /\ w >= 1
    BY <2>2
  <2> QED BY <2>3 DEF Before
<1> QED BY <1>1

\* The word at the cursor is a slot, behind all those that are written, and
\* joins them when the cursor moves to the next word.
LEMMA FilledByWord ==
    ASSUME TypedImage(image), at \in Cursor, InSection
    PROVE  LET p == << at.section, at.word >>
           IN  /\ p \in Slots(image) /\ \A q \in Filled : Before(q, p)
               /\ SlotAddress(image, p) = Address /\ SlotWord(image, p) = Current.words[at.word]
               /\ {q \in Slots(image) : Before(q, << at.section, at.word + 1 >>)} = Filled \cup {p}
<1> DEFINE p == << at.section, at.word >>
<1>1. at.section \in Nat /\ at.section >= 1 /\ at.word \in Nat /\ at.word >= 1
  BY DEF Cursor
<1>2. at.section \in 1 .. Len(image.sections)
  BY <1>1, SlotParts DEF InSection
<1>3. at.word \in 1 .. Len(image.sections[at.section].words)
  BY <1>1, <1>2, SlotParts DEF InSection, Current
<1>4. p \in Slots(image)
  BY <1>2, <1>3, SlotParts
<1>5. SlotAddress(image, p) = Address /\ SlotWord(image, p) = Current.words[at.word]
  BY DEF SlotAddress, SlotWord, Address, Current
<1>6. ASSUME NEW q \in Slots(image)
      PROVE  Before(q, << at.section, at.word + 1 >>) <=> Before(q, p) \/ q = p
  <2>1. q[1] \in Nat /\ q[2] \in Nat /\ q = << q[1], q[2] >>
    BY SlotParts
  <2> QED BY <1>1, <2>1 DEF Before
<1> QED BY <1>4, <1>5, <1>6 DEF Filled

\* A section that has no more words to write, or is a .bss, adds no slot.
LEMMA FilledBySection ==
    ASSUME TypedImage(image), validate(image), at \in Cursor, call = "load",
           at.section <= Len(image.sections), ~InSection
    PROVE  {q \in Slots(image) : Before(q, << at.section + 1, 1 >>)} = Filled
<1>1. at.section \in Nat /\ at.section >= 1 /\ at.word \in Nat /\ at.word >= 1
  BY DEF Cursor
<1>2. at.section \in 1 .. Len(image.sections) /\ at.section \in DOMAIN image.sections
  BY <1>1, SlotParts DEF TypedImage
<1>3. Current \in ImageSection /\ Len(Current.words) \in Nat
  BY <1>2, SlotParts DEF Current
<1>4. Current.type = "Bss" => Current.words = << >>
  BY <1>2 DEF validate, ValidSection, Current
<1>5. Len(Current.words) < at.word
  BY <1>1, <1>3, <1>4 DEF InSection
<1>6. ASSUME NEW q \in Slots(image)
      PROVE  Before(q, << at.section + 1, 1 >>) <=> Before(q, << at.section, at.word >>)
  <2>1. PICK s \in 1 .. Len(image.sections) : \E w \in 1 .. Len(image.sections[s].words) : q = << s, w >>
    BY SlotParts
  <2>2. PICK w \in 1 .. Len(image.sections[s].words) : q = << s, w >>
    BY <2>1
  <2>3. Len(image.sections) \in Nat /\ Len(image.sections[s].words) \in Nat
    BY SlotParts
  <2>4. q[1] = s /\ q[2] = w /\ s \in Nat /\ w \in Nat /\ w >= 1
    BY <2>2, <2>3
  <2>5. s = at.section => w < at.word
    BY <1>1, <1>3, <1>5, <2>3 DEF Current
  <2> QED BY <1>1, <2>4, <2>5 DEF Before
<1> QED BY <1>6 DEF Filled

\* Behind the last section every slot is written.
LEMMA FilledAtEnd ==
    ASSUME TypedImage(image), at \in Cursor, at.section > Len(image.sections)
    PROVE  Filled = Slots(image)
<1>1. at.section \in Nat
  BY DEF Cursor
<1>2. ASSUME NEW q \in Slots(image) PROVE Before(q, << at.section, at.word >>)
  <2>1. PICK s \in 1 .. Len(image.sections) : \E w \in 1 .. Len(image.sections[s].words) : q = << s, w >>
    BY SlotParts
  <2>2. q[1] = s /\ s \in Nat /\ Len(image.sections) \in Nat
    BY <2>1, SlotParts
  <2> QED BY <1>1, <2>2 DEF Before
<1> QED BY <1>2 DEF Filled

\* Where every word of a valid image has an address that is a word, so does the
\* entry point: it lies in the first .text section, which is all payload.
LEMMA EntryIsWord ==
    ASSUME NEW img, TypedImage(img), validate(img),
           \A p \in Slots(img) : SlotAddress(img, p) \in Word
    PROVE  img.entry_point \in Word
<1> DEFINE IsText(s) == img.sections[s].type = "Text"
           Texts == {s \in DOMAIN img.sections : IsText(s)}
<1>1. DOMAIN img.sections = 1 .. Len(img.sections) /\ Len(img.sections) \in Nat
  BY SlotParts DEF TypedImage
<1>2. \E s \in DOMAIN img.sections : IsText(s)
  BY DEF validate, has_section
<1>3. PICK f \in Texts : \A q \in Texts : f <= q
  <2>1. Texts \in SUBSET Nat /\ Texts # {}
    BY <1>1, <1>2
  <2> HIDE DEF Texts
  <2> QED BY <2>1, Least
<1>4. \A q \in 1 .. f - 1 : q \in DOMAIN img.sections /\ ~IsText(q)
  BY <1>1, <1>3
<1>5. PICK s \in DOMAIN img.sections : IsText(s) /\ text(img) = img.sections[s]
  BY <1>3, <1>4 DEF text
<1>6. /\ img.sections[s].type = "Text" /\ ValidSection(img, img.sections[s])
      /\ img.sections[s] \in ImageSection
  BY <1>1, <1>5, SlotParts DEF validate
<1>7. /\ img.sections[s].memory_size = Len(img.sections[s].words)
      /\ img.sections[s].virtual_address \in Int /\ img.entry_point \in Int
  BY <1>6 DEF ValidSection, ImageSection, TypedImage
<1>8. /\ img.entry_point >= img.sections[s].virtual_address
      /\ img.entry_point < img.sections[s].virtual_address + img.sections[s].memory_size
  BY <1>5 DEF validate, is_valid_entry_point
<1> DEFINE w == img.entry_point - img.sections[s].virtual_address + 1
<1>9. w \in 1 .. Len(img.sections[s].words)
  BY <1>1, <1>7, <1>8, SlotParts
<1>10. << s, w >> \in Slots(img) /\ SlotAddress(img, << s, w >>) = img.entry_point
  <2>1. << s, w >> \in Slots(img)
    BY <1>1, <1>9, SlotParts
  <2> QED BY <1>7, <2>1 DEF SlotAddress
<1> QED BY <1>10
-----------------------------------------------------------------------------
(* The invariant holds of a new machine, and every action keeps it. *)

LEMMA InitTvm == Init => TvmInv
<1> SUFFICES ASSUME Init PROVE TvmInv
  OBVIOUS
<1>1. StorageOK
  BY EmptyIsOK DEF Init, NewMachine
<1>2. contexts \in Seq(SavedContext)
  BY EmptySeq DEF Init, NewMachine
<1>3. TypeOK
  BY <1>1, <1>2, ResetIsTyped DEF Init, NewMachine, TypeOK, Outcome
<1> QED BY <1>3 DEF Init, TvmTypeOK, TvmInv, LoadInProgress, Cursor

\* An image is rejected without a trace, or begins to be loaded.
LEMMA LoadKeeps ==
    ASSUME TvmInv, NEW img \in Images, load(img)
    PROVE  TvmInv'
<1>1. TypeOK /\ call = "none" /\ at \in Cursor /\ image' = img
  BY DEF TvmInv, TvmTypeOK, load
<1>2. CASE Reject(img)
  <2>1. TypeOK'
    BY <1>1, <1>2 DEF Reject, machine, TypeOK, StorageOK, Outcome
  <2> QED BY <1>1, <1>2, <2>1 DEF Reject, TvmInv, TvmTypeOK, LoadInProgress, Cursor
<1>3. CASE Accept(img)
  <2>1. /\ TypeOK' /\ cpu' = ResetCPU /\ storage' = EmptyStorage /\ contexts' = << >>
        /\ halted' = FALSE
    BY <1>3, ResetStep DEF Accept, Outcome
  <2>2. TypedImage(img) /\ validate(img)
    BY <1>3, ImagesAssumption DEF Accept
  <2>3. at' = [section |-> 1, word |-> 1] /\ call' = "load" /\ outcome' = "ok"
    BY <1>3 DEF Accept
  <2>4. Filled' = {}
    BY <1>1, <2>2, <2>3, FilledAtFirst DEF Filled
  <2>5. storage' = Contents(image, Filled)'
    BY <2>1, <2>4, NoContents
  <2>6. LoadInProgress'
    BY <1>1, <2>1, <2>2, <2>3, <2>4, <2>5 DEF LoadInProgress
  <2> QED BY <2>1, <2>3, <2>6 DEF TvmInv, TvmTypeOK, Cursor
<1> QED BY <1>2, <1>3 DEF load

\* What is known while a load is in progress.
LEMMA LoadFacts ==
    ASSUME TvmInv, call = "load"
    PROVE  /\ TypeOK /\ at \in Cursor /\ TypedImage(image) /\ validate(image)
           /\ cpu = ResetCPU /\ contexts = << >> /\ halted = FALSE /\ outcome = "ok"
           /\ storage = Contents(image, Filled)
           /\ \A p \in Filled : SlotAddress(image, p) \in Word
  BY DEF TvmInv, TvmTypeOK, TypeOK, LoadInProgress

LEMMA LoadWordKeeps ==
    ASSUME TvmInv, LoadWord
    PROVE  TvmInv'
<1>0. call = "load" /\ InSection
  BY DEF LoadWord, InSection
<1>1. /\ TypeOK /\ at \in Cursor /\ TypedImage(image) /\ validate(image)
      /\ cpu = ResetCPU /\ contexts = << >> /\ halted = FALSE /\ outcome = "ok"
      /\ storage = Contents(image, Filled)
      /\ \A p \in Filled : SlotAddress(image, p) \in Word
  BY <1>0, LoadFacts
<1>2. cpu' = cpu /\ contexts' = contexts /\ halted' = halted /\ image' = image
  BY DEF LoadWord
<1> DEFINE p == << at.section, at.word >>
<1>3. /\ p \in Slots(image) /\ \A q \in Filled : Before(q, p)
      /\ SlotAddress(image, p) = Address /\ SlotWord(image, p) = Current.words[at.word]
      /\ {q \in Slots(image) : Before(q, << at.section, at.word + 1 >>)} = Filled \cup {p}
  BY <1>0, <1>1, FilledByWord
<1>4. Address \in Int /\ Current.words[at.word] \in Word
  BY <1>1, <1>3, SlotParts
<1>5. CASE Fits(Address) /\ write(Address, Current.words[at.word])
           /\ at' = [at EXCEPT !.word = @ + 1] /\ call' = call /\ outcome' = outcome
  <2>1. Address \in Word
    BY <1>4, <1>5, WordIsInt
  <2>2. StorageOK'
    BY <1>1, <1>4, <1>5, <2>1, WriteChangesOneWord DEF TypeOK
  <2>3. TypeOK'
    BY <1>1, <1>2, <1>5, <2>2 DEF TypeOK
  <2>4. at' \in Cursor /\ at'.section = at.section /\ at'.word = at.word + 1
    BY <1>1, <1>5 DEF Cursor
  <2>5. Filled' = Filled \cup {p}
    BY <1>2, <1>3, <2>4 DEF Filled
  <2>6. Filled \in SUBSET Slots(image)
    BY DEF Filled
  <2>7. storage' = Contents(image', Filled')
    <3>1. storage' = Written(Contents(image, Filled), SlotAddress(image, p), SlotWord(image, p))
      BY <1>1, <1>3, <1>5 DEF write
    <3> QED BY <1>1, <1>2, <1>3, <2>5, <2>6, <3>1, ContentsStep
  <2>8. \A q \in Filled' : SlotAddress(image, q) \in Word
    BY <1>1, <1>3, <2>1, <2>5
  <2> QED BY <1>0, <1>1, <1>2, <1>5, <2>3, <2>4, <2>7, <2>8
          DEF TvmInv, TvmTypeOK, LoadInProgress, Cursor
<1>6. CASE outcome' = "out_of_range" /\ call' = "none" /\ storage' = storage /\ at' = at
  BY <1>1, <1>2, <1>6 DEF TypeOK, StorageOK, Outcome, TvmInv, TvmTypeOK, LoadInProgress, Cursor
<1> QED BY <1>5, <1>6 DEF LoadWord

LEMMA NextSectionKeeps ==
    ASSUME TvmInv, NextSection
    PROVE  TvmInv'
<1>0. /\ call = "load" /\ at.section <= Len(image.sections) /\ ~InSection
      /\ at' = [section |-> at.section + 1, word |-> 1]
      /\ cpu' = cpu /\ storage' = storage /\ contexts' = contexts /\ halted' = halted
      /\ outcome' = outcome /\ image' = image /\ call' = call
  BY DEF NextSection, machine
<1>1. /\ TypeOK /\ at \in Cursor /\ TypedImage(image) /\ validate(image)
      /\ storage = Contents(image, Filled)
  BY <1>0, LoadFacts
<1>2. Filled' = Filled
  BY <1>0, <1>1, FilledBySection DEF Filled
<1>3. TypeOK'
  BY <1>0, <1>1 DEF TypeOK, StorageOK
<1>4. at' \in Cursor
  BY <1>0, <1>1 DEF Cursor
<1> QED BY <1>0, <1>1, <1>2, <1>3, <1>4, LoadFacts
        DEF TvmInv, TvmTypeOK, LoadInProgress, Cursor

LEMMA SetEntryKeeps ==
    ASSUME TvmInv, SetEntry
    PROVE  /\ TvmInv' /\ outcome' = "ok"
           /\ cpu' = [ResetCPU EXCEPT !.pc = image.entry_point]
           /\ storage' = Contents(image, Slots(image))
           /\ contexts' = << >> /\ halted' = FALSE
<1>0. /\ call = "load" /\ at.section > Len(image.sections) /\ call' = "none"
      /\ storage' = storage /\ contexts' = contexts /\ halted' = halted
      /\ image' = image /\ at' = at
  BY DEF SetEntry
<1>1. /\ TypeOK /\ at \in Cursor /\ TypedImage(image) /\ validate(image)
      /\ cpu = ResetCPU /\ contexts = << >> /\ halted = FALSE
      /\ storage = Contents(image, Filled)
      /\ \A p \in Filled : SlotAddress(image, p) \in Word
  BY <1>0, LoadFacts
<1>2. Filled = Slots(image)
  BY <1>0, <1>1, FilledAtEnd
<1>3. image.entry_point \in Word /\ Fits(image.entry_point)
  <2>1. image.entry_point \in Word
    BY <1>1, <1>2, EntryIsWord
  <2> QED BY <2>1, WordIsInt
<1>4. cpu' = [cpu EXCEPT !.pc = image.entry_point] /\ outcome' = "ok"
  BY <1>3 DEF SetEntry
<1>5. cpu' \in CPUState
  BY <1>1, <1>3, <1>4 DEF TypeOK, CPUState
<1>6. TypeOK'
  BY <1>0, <1>1, <1>4, <1>5 DEF TypeOK, StorageOK, Outcome
<1>7. TvmInv'
  BY <1>0, <1>1, <1>6 DEF TvmInv, TvmTypeOK, LoadInProgress, Cursor
<1> QED BY <1>0, <1>1, <1>2, <1>4, <1>7

\* The calls that run instructions, and the host between calls.
LEMMA OtherCallsKeep ==
    ASSUME TvmInv, Step \/ Run \/ RunTurn \/ Host
    PROVE  TvmInv'
<1>1. TypeOK /\ at \in Cursor /\ call \in {"none", "load", "run"}
  BY DEF TvmInv, TvmTypeOK
<1>2. CASE Step
  <2>1. at' = at /\ call' = call /\ call = "none"
    BY <1>2 DEF Step, loader
  <2>2. TypeOK'
    <3>1. CASE halted
      BY <1>1, <1>2, <3>1 DEF Step, machine, TypeOK, StorageOK, Outcome
    <3>2. CASE ~halted
      BY <1>1, <1>2, <3>2, StepIsTyped DEF Step
    <3> QED BY <3>1, <3>2
  <2> QED BY <1>1, <2>1, <2>2 DEF TvmInv, TvmTypeOK, LoadInProgress, Cursor
<1>3. CASE Run
  <2>1. at' = at /\ call' = "run" /\ TypeOK'
    BY <1>1, <1>3 DEF Run, vars, TypeOK, StorageOK
  <2> QED BY <1>1, <2>1 DEF TvmInv, TvmTypeOK, LoadInProgress, Cursor
<1>4. CASE RunTurn
  <2>1. at' = at /\ call' \in {"none", "run"}
    BY <1>4 DEF RunTurn
  <2>2. TypeOK'
    <3>1. CASE halted
      BY <1>1, <1>4, <3>1 DEF RunTurn, machine, TypeOK, StorageOK, Outcome
    <3>2. CASE ~halted
      BY <1>1, <1>4, <3>2, StepIsTyped DEF RunTurn
    <3> QED BY <3>1, <3>2
  <2> QED BY <1>1, <2>1, <2>2 DEF TvmInv, TvmTypeOK, LoadInProgress, Cursor
<1>5. CASE Host
  <2>1. at' = at /\ call' = call /\ call = "none"
    BY <1>5 DEF Host, loader
  <2>2. TypeOK'
    <3>1. CASE HostCPU
      BY <1>1, <3>1, HostAssumption DEF HostCPU, TypeOK, StorageOK, Outcome
    <3>2. CASE HostWrite
      <4>1. PICK w \in HostWrites : write(w[1], w[2])
        BY <3>2 DEF HostWrite
      <4>2. w[1] \in Word /\ w[2] \in Word
        BY HostAssumption
      <4>3. StorageOK'
        BY <1>1, <4>1, <4>2, WriteChangesOneWord DEF TypeOK
      <4> QED BY <1>1, <3>2, <4>3 DEF HostWrite, TypeOK, Outcome
    <3>3. CASE HostSave
      BY <1>1, <3>3, SaveIsTyped DEF HostSave
    <3>4. CASE restore_context
      BY <1>1, <3>4, RestoreIsTyped
    <3>5. CASE HostHalt
      BY <1>1, <3>5 DEF HostHalt, halt, TypeOK, StorageOK, Outcome
    <3>6. CASE HostReset
      BY <3>6, ResetStep DEF HostReset, Outcome
    <3> QED BY <1>5, <3>1, <3>2, <3>3, <3>4, <3>5, <3>6 DEF Host
  <2> QED BY <1>1, <2>1, <2>2 DEF TvmInv, TvmTypeOK, LoadInProgress, Cursor
<1> QED BY <1>2, <1>3, <1>4, <1>5

LEMMA TvmInductive == TvmInv /\ [Next]_allvars => TvmInv'
<1> SUFFICES ASSUME TvmInv, [Next]_allvars PROVE TvmInv'
  OBVIOUS
<1>1. CASE Load
  BY <1>1, LoadKeeps DEF Load
<1>2. CASE LoadTurn
  BY <1>2, LoadWordKeeps, NextSectionKeeps, SetEntryKeeps DEF LoadTurn
<1>3. CASE Step \/ Run \/ RunTurn \/ Host
  BY <1>3, OtherCallsKeep
<1>4. CASE UNCHANGED allvars
  <2>1. UNCHANGED << cpu, storage, contexts, halted, outcome, image, at, call >>
    BY <1>4 DEF allvars, vars, loader
  <2>2. TypeOK'
    BY <2>1 DEF TvmInv, TvmTypeOK, TypeOK, StorageOK
  <2> QED BY <2>1, <2>2 DEF TvmInv, TvmTypeOK, LoadInProgress, Filled, Cursor
<1> QED BY <1>1, <1>2, <1>3, <1>4 DEF Next
-----------------------------------------------------------------------------
\* The machine stays typed, and the loader's cursor with it, for every image
\* and every host.
THEOREM TvmTyped == Spec => []TvmTypeOK
<1>1. TvmInv => TvmTypeOK
  BY DEF TvmInv
<1> QED BY <1>1, InitTvm, TvmInductive, PTL DEF Spec

\* Whatever ran before, a load that ends leaves the machine the image says: no
\* register, context or word of an earlier program survives, the last of several
\* writes to an address wins, and the entry point converts.
THEOREM LoadsTheImage == Spec => LoadDependsOnImageOnly
<1>1. TvmInv /\ [Next]_allvars => [LoadedStep]_allvars
  BY SetEntryKeeps DEF LoadedStep
<1> QED BY <1>1, InitTvm, TvmInductive, PTL DEF Spec, LoadDependsOnImageOnly

\* A rejected image leaves the machine alone; a load that meets an address that
\* is no word leaves a reset machine with the words before it.
THEOREM FailedLoadsAreContained == Spec => FailedLoadEffects
<1>1. TvmInv /\ [Next]_allvars => [FailedLoadStep]_allvars
  <2> SUFFICES ASSUME TvmInv PROVE FailedLoadStep
    OBVIOUS
  <2>1. ASSUME Load, outcome' = "ImageLoadError" PROVE UNCHANGED machine /\ call' = "none"
    BY <2>1 DEF Load, load, Reject, Accept
  <2>2. ASSUME LoadWord, outcome' = "out_of_range"
        PROVE  /\ cpu' = ResetCPU /\ contexts' = << >> /\ ~halted'
               /\ storage' = Contents(image, Filled)
    <3>1. /\ cpu = ResetCPU /\ contexts = << >> /\ halted = FALSE /\ outcome = "ok"
          /\ storage = Contents(image, Filled)
      BY <2>2, LoadFacts DEF LoadWord, InSection
    <3> QED BY <2>2, <3>1 DEF LoadWord
  <2> QED BY <2>1, <2>2 DEF Filled, FailedLoadStep
<1> QED BY <1>1, InitTvm, TvmInductive, PTL DEF Spec, FailedLoadEffects
-----------------------------------------------------------------------------
(* The saved contexts of a machine under its host. *)

\* No instruction touches the context stack.
LEMMA StepKeepsContexts ==
    ASSUME step
    PROVE  contexts' = contexts
<1>1. CASE halted
  BY <1>1 DEF step, machine
<1>2. CASE ~halted
  <2> DEFINE i == Fetched
  <2>1. Execute(i)
    BY <1>2 DEF step
  <2>2. ASSUME NEW c, Advance(c) PROVE contexts' = contexts
    BY <2>2 DEF Advance
  <2>3. Jump(i) => contexts' = contexts
    BY DEF Jump
  <2>4. ASSUME NEW v, WriteBack(i, v) PROVE contexts' = contexts
    BY <2>2, <2>4 DEF WriteBack
  <2> HIDE DEF i
  <2>5. CASE Ldi(i) \/ Mov(i) \/ Add(i) \/ Sub(i) \/ Mul(i) \/ Ld(i) \/ Lea(i)
    BY <2>4, <2>5 DEF Ldi, Mov, Add, Sub, Mul, Ld, Lea
  <2>6. CASE Tand(i) \/ Tor(i) \/ Txor(i) \/ Tnot(i) \/ Shf(i)
    BY <2>4, <2>6 DEF Tand, Tor, Txor, Tnot, Shf
  <2>7. CASE Nop(i) \/ Cmp(i) \/ St(i)
    BY <2>2, <2>7 DEF Nop, Cmp, St
  <2>8. CASE Jmp(i) \/ Beq(i) \/ Bgt(i) \/ Blt(i)
    BY <2>2, <2>3, <2>8 DEF Jmp, Beq, Bgt, Blt, Branch
  <2>9. CASE Hlt(i) \/ Call(i) \/ Ret(i) \/ Unsupported(i)
    BY <2>9 DEF Hlt, Call, Pushed, Pushing, Ret, Unsupported, machine
  <2> QED BY <2>1, <2>5, <2>6, <2>7, <2>8, <2>9 DEF Execute
<1> QED BY <1>1, <1>2

\* The open saves are the frames of the context stack, field by field.
Matching(frames, saves) ==
    /\ saves \in Seq(CPUState) /\ Len(frames) = Len(saves)
    /\ \A k \in DOMAIN saves : \A field \in SavedFields : frames[k][field] = saves[k][field]

LEMMA MatchingIs ==
    /\ ContextsMatchSaves <=> Matching(contexts, saved)
    /\ ContextsMatchSaves' <=> Matching(contexts, saved)'
  BY DEF ContextsMatchSaves, Matching, SavedFields

\* With no open save there is no frame.
LEMMA NoneMatch == Matching(<< >>, << >>)
  BY EmptySeq DEF Matching

\* One more of both.
LEMMA PushMatches ==
    ASSUME NEW frames \in Seq(SavedContext), NEW saves, Matching(frames, saves),
           NEW f \in SavedContext, NEW c \in CPUState,
           \A field \in SavedFields : f[field] = c[field]
    PROVE  Matching(Append(frames, f), Append(saves, c))
<1>1. saves \in Seq(CPUState) /\ Len(frames) = Len(saves)
  BY DEF Matching
<1>2. Append(saves, c) \in Seq(CPUState) /\ Len(Append(frames, f)) = Len(Append(saves, c))
  BY <1>1
<1>3. ASSUME NEW k \in DOMAIN Append(saves, c), NEW field \in SavedFields
      PROVE  Append(frames, f)[k][field] = Append(saves, c)[k][field]
  <2>1. CASE k = Len(saves) + 1
    BY <1>1, <2>1
  <2>2. CASE k \in DOMAIN saves
    BY <1>1, <2>2 DEF Matching
  <2> QED BY <1>1, <2>1, <2>2
<1> QED BY <1>2, <1>3 DEF Matching

\* One less of both.
LEMMA PopMatches ==
    ASSUME NEW frames \in Seq(SavedContext), NEW saves, Matching(frames, saves), frames # << >>
    PROVE  Matching(SubSeq(frames, 1, Len(frames) - 1), SubSeq(saves, 1, Len(saves) - 1))
<1> DEFINE less == SubSeq(saves, 1, Len(saves) - 1)
           fewer == SubSeq(frames, 1, Len(frames) - 1)
<1>1. saves \in Seq(CPUState) /\ Len(frames) = Len(saves) /\ Len(saves) >= 1
  BY DEF Matching
<1>2. less \in Seq(CPUState) /\ Len(fewer) = Len(less)
  BY <1>1
<1>3. \A k \in DOMAIN less : k \in DOMAIN saves /\ less[k] = saves[k] /\ fewer[k] = frames[k]
  BY <1>1
<1> HIDE DEF less, fewer
<1>4. Matching(fewer, less)
  BY <1>2, <1>3 DEF Matching
<1> QED BY <1>4 DEF less, fewer

\* The steps that leave both alone, and the load.
LEMMA OthersMatch ==
    ASSUME Matching(contexts, saved), Reload \/ Turn
    PROVE  Matching(contexts, saved)'
<1>1. CASE Reload
  <2>1. PICK img \in Images : load(img)
    BY <1>1 DEF Reload, Load
  <2>2. CASE Reject(img)
    <3>1. contexts' = contexts /\ saved' = saved
      BY <1>1, <2>2 DEF Reject, machine, Reload
    <3> QED BY <3>1
  <2>3. CASE Accept(img)
    <3>1. contexts' = << >> /\ saved' = << >>
      BY <1>1, <2>3 DEF Accept, reset, Reload
    <3> QED BY <3>1, NoneMatch
  <2> QED BY <2>1, <2>2, <2>3 DEF load
<1>2. CASE Turn
  <2>1. saved' = saved
    BY <1>2 DEF Turn
  <2>2. CASE LoadTurn
    <3>1. contexts' = contexts
      BY <2>2 DEF LoadTurn, LoadWord, NextSection, SetEntry, machine
    <3> QED BY <2>1, <3>1
  <2>3. CASE Step \/ Run \/ RunTurn
    <3>1. contexts' = contexts
      BY <2>3, StepKeepsContexts DEF Step, Run, RunTurn, machine, vars
    <3> QED BY <2>1, <3>1
  <2> QED BY <1>2, <2>2, <2>3 DEF Turn
<1> QED BY <1>1, <1>2

\* What the host does to the machine.
LEMMA HostMatches ==
    ASSUME TypeOK, Matching(contexts, saved), HostTurn
    PROVE  Matching(contexts, saved)'
<1>1. cpu \in CPUState /\ contexts \in Seq(SavedContext)
  BY DEF TypeOK
<1>2. CASE Save
  <2>1. PICK cause \in TransitionCause : save_context(cause)
    BY <1>2 DEF Save, HostSave
  <2>2. contexts' = Append(contexts, capture(cause)) /\ saved' = Append(saved, cpu)
    BY <1>2, <2>1 DEF Save, save_context
  <2>3. Matching(Append(contexts, capture(cause)), Append(saved, cpu))
    BY <1>1, CaptureIsTyped, PushMatches
  <2> QED BY <2>2, <2>3
<1>3. CASE Restore
  <2>1. saved \in Seq(CPUState) /\ Len(contexts) = Len(saved)
    BY DEF Matching
  <2>2. CASE contexts = << >>
    <3>1. contexts' = contexts /\ saved' = saved
      BY <1>1, <1>3, <2>1, <2>2 DEF Restore, restore_context, machine
    <3> QED BY <3>1
  <2>3. CASE contexts # << >>
    <3>1. saved # << >>
      BY <1>1, <2>1, <2>3
    <3>2. /\ contexts' = SubSeq(contexts, 1, Len(contexts) - 1)
          /\ saved' = SubSeq(saved, 1, Len(saved) - 1)
      BY <1>3, <2>3, <3>1 DEF Restore, restore_context
    <3>3. Matching(SubSeq(contexts, 1, Len(contexts) - 1), SubSeq(saved, 1, Len(saved) - 1))
      BY <1>1, <2>3, PopMatches
    <3> QED BY <3>2, <3>3
  <2> QED BY <2>2, <2>3
<1>4. CASE Reset
  <2>1. contexts' = << >> /\ saved' = << >>
    BY <1>4 DEF Reset, HostReset, reset
  <2> QED BY <2>1, NoneMatch
<1>5. CASE (HostCPU \/ HostWrite \/ HostHalt) /\ UNCHANGED saved
  <2>1. contexts' = contexts /\ saved' = saved
    BY <1>5 DEF HostCPU, HostWrite, HostHalt
  <2> QED BY <2>1
<1> QED BY <1>2, <1>3, <1>4, <1>5 DEF HostTurn

\* The machine under its host is that of TVM, and its saves are tracked.
SavesInv == TvmInv /\ Matching(contexts, saved)

LEMMA SavesInvStep == SavesInv /\ [HostNext]_tracked => SavesInv'
<1> SUFFICES ASSUME SavesInv, [HostNext]_tracked PROVE SavesInv'
  OBVIOUS
<1>1. [Next]_allvars
  <2>1. CASE HostTurn
    <3>1. Host
      BY <2>1 DEF HostTurn, Host, Save, Restore, Reset
    <3> QED BY <3>1 DEF Next
  <2> QED BY <2>1 DEF HostNext, Reload, Turn, Next, tracked
<1>2. TvmInv'
  BY <1>1, TvmInductive DEF SavesInv
<1>3. Matching(contexts, saved)'
  <2>1. CASE HostTurn
    BY <2>1, HostMatches DEF SavesInv, TvmInv, TvmTypeOK
  <2>2. CASE Reload \/ Turn
    BY <2>2, OthersMatch DEF SavesInv
  <2>3. CASE UNCHANGED tracked
    <3>1. contexts' = contexts /\ saved' = saved
      BY <2>3 DEF tracked, allvars, vars
    <3> QED BY <3>1 DEF SavesInv
  <2> QED BY <2>1, <2>2, <2>3 DEF HostNext
<1> QED BY <1>2, <1>3 DEF SavesInv

LEMMA SavesInvInit == HostInit => SavesInv
<1> SUFFICES ASSUME HostInit PROVE SavesInv
  OBVIOUS
<1>1. TvmInv /\ contexts = << >> /\ saved = << >>
  BY InitTvm DEF HostInit, Init, NewMachine
<1> QED BY <1>1, NoneMatch DEF SavesInv

\* The context stack is the stack of the CPUs at the saves still open, for every
\* host, every image and every depth.
THEOREM StackOfSaves == HostSpec => []ContextsMatchSaves
<1>1. SavesInv => ContextsMatchSaves
  BY MatchingIs DEF SavesInv
<1> QED BY <1>1, SavesInvInit, SavesInvStep, PTL DEF HostSpec

\* A restore brings back the latest open save exactly, for every host.
THEOREM RestoresExactly == HostSpec => RestoreIsExact
<1>1. SavesInv /\ SavesInv' /\ [HostNext]_tracked => [RestoreStep]_tracked
  <2> SUFFICES ASSUME SavesInv, SavesInv', Restore PROVE RestoreStep
    BY DEF RestoreStep
  <2>1. cpu \in CPUState /\ contexts \in Seq(SavedContext)
    BY DEF SavesInv, TvmInv, TvmTypeOK, TypeOK
  <2>2. /\ saved \in Seq(CPUState) /\ Len(contexts) = Len(saved)
        /\ \A k \in DOMAIN saved : \A field \in SavedFields : contexts[k][field] = saved[k][field]
    BY DEF SavesInv, Matching
  <2>3. Len(contexts') = Len(saved')
    BY DEF SavesInv, Matching
  <2>4. CASE saved = << >>
    BY <2>1, <2>2, <2>4 DEF Restore, restore_context, RestoreStep
  <2>5. CASE saved # << >>
    <3>1. Len(saved) \in DOMAIN saved /\ contexts # << >> /\ contexts[Len(contexts)] \in SavedContext
      BY <2>1, <2>2, <2>5
    <3>2. cpu' = restored(contexts[Len(contexts)]) /\ UNCHANGED << storage, halted >>
      BY <3>1 DEF Restore, restore_context
    <3>3. cpu' = [saved[Len(saved)] EXCEPT !.ksp = cpu.ksp]
      BY <2>1, <2>2, <3>1, <3>2, RestoredIsSaved
    <3> QED BY <2>3, <2>5, <3>2, <3>3 DEF RestoreStep
  <2> QED BY <2>4, <2>5
<1> QED BY <1>1, SavesInvInit, SavesInvStep, PTL DEF HostSpec, RestoreIsExact
=============================================================================
