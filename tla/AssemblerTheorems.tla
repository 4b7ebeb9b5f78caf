------------------------- MODULE AssemblerTheorems -------------------------
(***************************************************************************)
(* Theorems about Assembler, for every width, every text and every base,   *)
(* and about Toolchain, for the base that tasm uses.                       *)
(* The invariant that carries them, IndInv, says what every pass has made  *)
(* of the statements in front of its cursor, always in terms of the        *)
(* program and never of another pass:                                      *)
(*   ProgramInv  the statements are well-formed and, behind the analysis,  *)
(*               have the signatures of their mnemonics                    *)
(*   TableInv    offsets and symbols are counts of the instructions in     *)
(*               front of each statement                                   *)
(*   LayoutInv   sizes are those counts too, and the sections a chain      *)
(*   ImageInv    the tables are those of the layout, and the words of the  *)
(*               text the encoded instructions                             *)
(* That the three counts agree at the end is what the properties need.     *)
(* FitInv, for which programs assemble, adds what the loops have tested;   *)
(* GrammarInv, for what the parser accepts, that it has read each line in  *)
(* front of its cursor as the grammar and the spellings have it.           *)
(* The tools need three more: NamesInv, that every label has a place in    *)
(* the order of the symbols; ReadyInv, that an assembled image is one the  *)
(* file gives back, and acceptable to the loader exactly if every label    *)
(* has a word; ToolInv, what each tool knows of the file.                  *)
(* That programs run as they are written takes WordsInv and WrittenInv,    *)
(* that each word of .text decodes to its statement and to the way to its  *)
(* label, and RunInv, that tvm only runs what was assembled, on a CPU      *)
(* whose STATUS is the result of a comparison. What it starts with takes   *)
(* StandingInv, that .text is all an image holds and stands at the base,   *)
(* and LoopInv, that the loader has copied the words in front of its slot. *)
(***************************************************************************)
EXTENDS Toolchain, FormatTheorems, FiniteSetTheorems

-----------------------------------------------------------------------------
(* The program as a whole: the section of a statement and the number of     *)
(* instructions in front of it, as the passes should count them.            *)

Before(p, kind, i) == {j \in 1 .. i - 1 : p[j].kind = kind}

Last(S) == CHOOSE j \in S : \A h \in S : h <= j

SectionIn(p, i) ==
    IF Before(p, "section", i) = {} THEN NoSection ELSE p[Last(Before(p, "section", i))].name

NamesBefore(p, kind, i) == {p[j].name : j \in Before(p, kind, i)}

InstructionsIn(p, name, i) == {j \in Before(p, "instruction", i) : SectionIn(p, j) = name}

Counted(p, name, i) == Cardinality(InstructionsIn(p, name, i))

\* Stepping over one statement.
LEMMA BeforeNext ==
    ASSUME NEW p, NEW kind, NEW i \in Nat \ {0}
    PROVE  Before(p, kind, i + 1) =
               IF p[i].kind = kind THEN Before(p, kind, i) \cup {i} ELSE Before(p, kind, i)
<1>1. \A j : j \in 1 .. (i + 1) - 1 <=> j \in 1 .. i - 1 \/ j = i
  OBVIOUS
<1> QED BY <1>1 DEF Before

\* Nothing is in front of the first statement.
LEMMA BeforeFirst == \A p, kind : Before(p, kind, 1) = {}
  BY DEF Before

\* The first statement is in no section.
LEMMA SectionFirst == \A p : SectionIn(p, 1) = NoSection
  BY BeforeFirst DEF SectionIn

\* Only a section statement changes the section.
LEMMA SectionNext ==
    ASSUME NEW p, NEW i \in Nat \ {0}
    PROVE  SectionIn(p, i + 1) =
               IF p[i].kind = "section" THEN p[i].name ELSE SectionIn(p, i)
<1> DEFINE B == Before(p, "section", i)
           C == Before(p, "section", i + 1)
<1>1. CASE p[i].kind = "section"
  <2>1. C = B \cup {i} /\ \A h \in B : h \in Int /\ h < i
    BY <1>1, BeforeNext DEF Before
  <2> HIDE DEF B, C
  <2>2. ASSUME NEW j \in C, \A h \in C : h <= j PROVE j = i
    BY <2>1, <2>2
  <2>3. i \in C /\ \A h \in C : h <= i
    BY <2>1
  <2>4. Last(C) = i
    BY <2>2, <2>3 DEF Last
  <2> QED BY <1>1, <2>3, <2>4 DEF SectionIn, C
<1>2. CASE p[i].kind # "section"
  <2>1. C = B
    BY <1>2, BeforeNext
  <2> QED BY <1>2, <2>1 DEF SectionIn
<1> QED BY <1>1, <1>2

\* The names of one kind of statement, a statement further.
LEMMA NamesNext ==
    ASSUME NEW p, NEW kind, NEW i \in Nat \ {0}
    PROVE  NamesBefore(p, kind, i + 1) =
               IF p[i].kind = kind THEN NamesBefore(p, kind, i) \cup {p[i].name}
               ELSE NamesBefore(p, kind, i)
<1> DEFINE B == Before(p, kind, i)
           C == Before(p, kind, i + 1)
<1>1. C = IF p[i].kind = kind THEN B \cup {i} ELSE B
  BY BeforeNext
<1> HIDE DEF B, C
<1>2. CASE p[i].kind = kind
  <2>1. C = B \cup {i}
    BY <1>1, <1>2
  <2>2. {p[j].name : j \in C} = {p[j].name : j \in B} \cup {p[i].name}
    BY <2>1
  <2> QED BY <1>2, <2>2 DEF NamesBefore, B, C
<1>3. CASE p[i].kind # kind
  <2>1. C = B
    BY <1>1, <1>3
  <2> QED BY <1>3, <2>1 DEF NamesBefore, B, C
<1> QED BY <1>2, <1>3

\* A statement is in no section or in one that is named before it.
LEMMA SectionIsNamed ==
    ASSUME NEW p, NEW i \in Nat \ {0}
    PROVE  SectionIn(p, i) = NoSection \/ SectionIn(p, i) \in NamesBefore(p, "section", i)
<1> DEFINE Named(k) == SectionIn(p, k) = NoSection
                           \/ SectionIn(p, k) \in NamesBefore(p, "section", k)
           S == {k \in Nat : Named(k + 1)}
<1>1. 0 \in S
  BY SectionFirst
<1>2. ASSUME NEW n \in Nat, n \in S PROVE n + 1 \in S
  <2>1. n + 1 \in Nat \ {0}
    OBVIOUS
  <2>2. Named(n + 1)
    BY <1>2
  <2>3. SectionIn(p, (n + 1) + 1) =
            IF p[n + 1].kind = "section" THEN p[n + 1].name ELSE SectionIn(p, n + 1)
    BY <2>1, SectionNext
  <2>4. NamesBefore(p, "section", (n + 1) + 1) =
            IF p[n + 1].kind = "section" THEN NamesBefore(p, "section", n + 1) \cup {p[n + 1].name}
            ELSE NamesBefore(p, "section", n + 1)
    BY <2>1, NamesNext
  <2>5. Named((n + 1) + 1)
    BY <2>2, <2>3, <2>4
  <2> HIDE DEF Named
  <2> QED BY <2>1, <2>5
<1> HIDE DEF S
<1>3. Nat \subseteq S
  BY <1>1, <1>2, NatSetInduction
<1>4. i - 1 \in S /\ (i - 1) + 1 = i
  BY <1>3
<1> QED BY <1>4 DEF S

\* A later statement has at least these names in front of it.
LEMMA NamesGrow ==
    ASSUME NEW p, NEW kind, NEW i \in Nat, NEW k \in Nat, i <= k
    PROVE  NamesBefore(p, kind, i) \subseteq NamesBefore(p, kind, k)
  BY DEF NamesBefore, Before

\* Counts are numbers.
LEMMA InstructionsFinite ==
    ASSUME NEW p, NEW name, NEW i \in Nat
    PROVE  /\ IsFiniteSet(InstructionsIn(p, name, i))
           /\ Counted(p, name, i) \in Nat
<1>1. IsFiniteSet(1 .. i - 1)
  BY FS_Interval
<1>2. InstructionsIn(p, name, i) \subseteq 1 .. i - 1
  BY DEF InstructionsIn, Before
<1> QED BY <1>1, <1>2, FS_Subset, FS_CardinalityType DEF Counted

\* Nothing is counted in front of the first statement.
LEMMA CountFirst == \A p, name : Counted(p, name, 1) = 0
  BY BeforeFirst, FS_EmptySet DEF Counted, InstructionsIn

\* Only an instruction counts, and only in the section it is in.
LEMMA CountNext ==
    ASSUME NEW p, NEW name, NEW i \in Nat \ {0}
    PROVE  Counted(p, name, i + 1) =
               IF p[i].kind = "instruction" /\ SectionIn(p, i) = name
               THEN Counted(p, name, i) + 1 ELSE Counted(p, name, i)
<1> DEFINE I == InstructionsIn(p, name, i)
           J == InstructionsIn(p, name, i + 1)
<1>1. CASE p[i].kind = "instruction" /\ SectionIn(p, i) = name
  <2>1. J = I \cup {i}
    BY <1>1, BeforeNext DEF InstructionsIn
  <2>2. i \notin I
    BY DEF InstructionsIn, Before
  <2>3. IsFiniteSet(I)
    BY InstructionsFinite
  <2> QED BY <1>1, <2>1, <2>2, <2>3, FS_AddElement DEF Counted
<1>2. CASE ~(p[i].kind = "instruction" /\ SectionIn(p, i) = name)
  <2>1. J = I
    BY <1>2, BeforeNext DEF InstructionsIn
  <2> QED BY <1>2, <2>1 DEF Counted
<1> QED BY <1>1, <1>2

\* Counts never fall.
LEMMA CountGrows ==
    ASSUME NEW p, NEW name, NEW i \in Nat, NEW k \in Nat, i <= k
    PROVE  Counted(p, name, i) <= Counted(p, name, k)
<1>1. InstructionsIn(p, name, i) \subseteq InstructionsIn(p, name, k)
  BY DEF InstructionsIn, Before
<1> QED BY <1>1, InstructionsFinite, FS_Subset DEF Counted

\* The section of a statement as the properties say it.
LEMMA SectionOfIsSectionIn == \A i : SectionOf(i) = SectionIn(program, i)
  BY DEF SectionOf, SectionIn, SectionsBefore, Before, Last

Passes == {"lex", "parse", "analyze", "symbols", "measure", "place", "populate", "encode", "done"}

\* the passes behind the analysis, and behind the symbol table
Analysed == pass \in {"symbols", "measure", "place", "populate", "encode"} \/ outcome = "ok"
Tabled   == pass \in {"measure", "place", "populate", "encode"} \/ outcome = "ok"

ProgramInv ==
    /\ pass \in Passes /\ (pass = "done" <=> outcome # "running")
    /\ IsText(source) /\ base \in Word
    /\ IsSequence(program) /\ \A i \in 1 .. Len(program) : IsStatement(program[i])
    /\ DOMAIN cursor = {"at", "section", "offset"}
    /\ cursor.at \in Nat \ {0} /\ cursor.offset \in Nat
    /\ pass = "lex" => cursor.at = 1
    /\ pass = "parse" => IsTokens(tokens) /\ cursor.at \in 1 .. Len(tokens)
    /\ pass \in {"symbols", "measure", "encode"} => cursor.at \in 1 .. Len(program) + 1
    /\ Analysed => \A i \in DOMAIN program : analyze(program[i])

\* Parsing apart, the passes leave the statements as they are.
LEMMA ProgramStays ==
    ASSUME [Next]_vars, pass \notin {"lex", "parse"}
    PROVE  UNCHANGED << source, base, tokens, program >>
<1>1. CASE UNCHANGED vars
  BY <1>1 DEF vars, arguments, parsed
<1>2. CASE Next
  BY <1>2 DEF Next, Tokenize, ParseStatement, ParseNewline, ParseEnd, Analyze, SymbolSection,
       SymbolGlobal, SymbolLabel, SymbolInstruction, Resolve, MeasureSection,
       MeasureInstruction, MeasureOther, Measured, PlaceSection, ResolveAddresses, Populate,
       EncodeSection, EncodeOther, EncodeInstruction, Finish, Throw, Begin, Onward, Enter,
       At, AtEnd, arguments, parsed
<1> QED BY <1>1, <1>2

\* The statements at the start: there are none.
LEMMA ProgramInvInit == Init => ProgramInv
<1> SUFFICES ASSUME Init PROVE ProgramInv
  OBVIOUS
<1>1. IsText(source) /\ base \in Word
  BY AssemblerAssumption DEF Init
<1>2. << >> \in Seq({0}) /\ Len(<< >>) = 0
  OBVIOUS
<1>3. IsSequence(<< >>)
  BY <1>2, InSeq
<1> QED BY <1>1, <1>2, <1>3 DEF Init, ProgramInv, Passes, Start, Analysed

\* No step breaks the shape of the statements or loses count of them.
LEMMA ProgramInvStep == ProgramInv /\ [Next]_vars => ProgramInv'
<1> SUFFICES ASSUME ProgramInv, [Next]_vars PROVE ProgramInv'
  OBVIOUS
<1> USE DEF ProgramInv
<1> DEFINE Same == /\ source' = source /\ base' = base /\ tokens' = tokens /\ program' = program
           Cursor == /\ DOMAIN cursor' = {"at", "section", "offset"}
                     /\ cursor'.at \in Nat \ {0} /\ cursor'.offset \in Nat
<1>s. Len(program) \in Nat /\ DOMAIN program = 1 .. Len(program)
  BY SequenceFacts
<1>t. ASSUME Same, cursor' = cursor, pass' = "done", outcome' # "running", outcome' # "ok"
      PROVE  ProgramInv'
  BY <1>t DEF Analysed, Passes
<1>b. ASSUME Same, cursor' = Start, pass' \in Passes \ {"parse", "done"}, pass # "done",
             outcome' = outcome,
             pass' # "analyze" => \A i \in DOMAIN program : analyze(program[i])
      PROVE  ProgramInv'
  <2>1. Cursor
    BY <1>b DEF Start
  <2> QED BY <2>1, <1>b, <1>s DEF Analysed, Passes, Start
<1>o. ASSUME Same, pass \in {"symbols", "measure", "encode"}, pass' = pass, outcome' = outcome,
             cursor.at <= Len(program), Cursor, cursor'.at = cursor.at + 1
      PROVE  ProgramInv'
  BY <1>o, <1>s DEF Analysed, Passes
<1>1. CASE Tokenize
  <2>1. CASE source # << >> /\ Lexes(source) /\ tokens' = tokenize(source)
    <3>1. IsTokens(tokens') /\ pass' = "parse" /\ UNCHANGED << source, base, program, cursor, outcome >>
      BY <1>1, <2>1, TokenizeTyped DEF Tokenize, Throw, arguments
    <3>2. cursor.at = 1 /\ pass = "lex"
      BY <1>1 DEF Tokenize
    <3>3. Len(tokens') \in Nat /\ Len(tokens') > 0
      BY <3>1, SequenceFacts DEF IsTokens
    <3> QED BY <3>1, <3>2, <3>3 DEF Analysed, Passes
  <2> QED BY <1>1, <2>1, <1>t DEF Tokenize, Throw, arguments, parsed
<1>2. CASE ParseStatement
  <2>1. pass = "parse" /\ IsTokens(tokens) /\ cursor.at \in 1 .. Len(tokens)
    BY <1>2 DEF ParseStatement
  <2> DEFINE r == parse_statement(tokens, cursor.at)
  <2>2. CASE r.ok /\ ParsesOn(<< r.value >>, r.next)
    <3>1. IsStatement(r.value) /\ r.next \in 1 .. Len(tokens)
      BY <2>1, <2>2, ParseStatementTyped
    <3> DEFINE e == r.value
               k == r.next
    <3>2. /\ program' = program \o << e >> /\ cursor' = [cursor EXCEPT !.at = k]
          /\ UNCHANGED << source, base, tokens, pass, outcome >>
      BY <2>2 DEF ParsesOn, arguments
    <3>3. IsStatement(e) /\ k \in 1 .. Len(tokens)
      BY <3>1
    <3> HIDE DEF e, k, r
    <3>4. IsSequence(program') /\ Len(program') = Len(program) + 1
          /\ program'[Len(program) + 1] = e /\ \A i \in 1 .. Len(program) : program'[i] = program[i]
      <4> DEFINE longer == Append(program, e)
      <4>1. /\ IsSequence(longer) /\ Len(longer) = Len(program) + 1
            /\ longer[Len(program) + 1] = e /\ \A i \in 1 .. Len(program) : longer[i] = program[i]
            /\ longer = program \o << e >>
        BY SequenceFacts
      <4> HIDE DEF longer
      <4> QED BY <3>2, <4>1
    <3>5. \A i \in 1 .. Len(program') : IsStatement(program'[i])
      <4> TAKE i \in 1 .. Len(program')
      <4>1. i \in 1 .. Len(program) \/ i = Len(program) + 1
        BY <3>4, <1>s
      <4> QED BY <4>1, <3>3, <3>4
    <3>6. cursor'.at = k /\ cursor'.offset = cursor.offset
          /\ DOMAIN cursor' = {"at", "section", "offset"}
      BY <3>2
    <3>7. Len(tokens) \in Nat
      BY <2>1, SequenceFacts DEF IsTokens
    <3> QED BY <2>1, <3>2, <3>3, <3>4, <3>5, <3>6, <3>7 DEF Analysed, Passes
  <2>3. CASE Throw("ParseError")
    BY <2>3, <1>t DEF Throw, arguments, parsed
  <2> QED BY <1>2, <2>2, <2>3 DEF ParseStatement
<1>3. CASE ParseNewline
  <2>1. /\ pass = "parse" /\ IsTokens(tokens) /\ cursor.at \in 1 .. Len(tokens)
        /\ tokens[cursor.at].kind = "Newline"
    BY <1>3 DEF ParseNewline
  <2>2. cursor.at + 1 \in 1 .. Len(tokens)
    BY <2>1, SequenceFacts DEF IsTokens
  <2>3. program' = program
    BY <1>3, SequenceFacts DEF ParseNewline, ParsesOn
  <2>4. /\ cursor'.at = cursor.at + 1 /\ cursor'.offset = cursor.offset
        /\ DOMAIN cursor' = {"at", "section", "offset"}
        /\ UNCHANGED << source, base, tokens, pass, outcome >>
    BY <1>3 DEF ParseNewline, ParsesOn, arguments
  <2> QED BY <2>1, <2>2, <2>3, <2>4 DEF Analysed, Passes
<1>4. CASE ParseEnd
  BY <1>4, <1>b DEF ParseEnd, Begin, arguments, parsed, Passes
<1>5. CASE Analyze
  <2>1. CASE Throw("SemanticError")
    BY <2>1, <1>t DEF Throw, arguments, parsed
  <2>2. CASE (\A i \in DOMAIN program : analyze(program[i])) /\ Begin("symbols")
    BY <1>5, <2>2, <1>b DEF Analyze, Begin, arguments, parsed, Passes
  <2> QED BY <1>5, <2>1, <2>2 DEF Analyze
<1>6. ASSUME NEW error, Throw(error), error \notin {"running", "ok"} PROVE ProgramInv'
  BY <1>6, <1>t DEF Throw, arguments, parsed
<1>7. ASSUME NEW next, Begin(next), next \in Passes \ {"analyze", "parse", "done"},
             pass \in {"symbols", "measure", "place", "populate", "encode"}
      PROVE  ProgramInv'
  BY <1>7, <1>b DEF Begin, arguments, parsed, Passes, Analysed
<1>8. ASSUME Onward, pass \in {"symbols", "measure", "encode"}, cursor.at <= Len(program)
      PROVE  ProgramInv'
  <2>1. Cursor /\ cursor'.at = cursor.at + 1
    BY <1>8 DEF Onward
  <2> QED BY <2>1, <1>8, <1>o DEF Onward, arguments, parsed
<1>9. ASSUME NEW name, Enter(name), pass \in {"symbols", "measure", "encode"},
             cursor.at <= Len(program)
      PROVE  ProgramInv'
  <2>1. Cursor /\ cursor'.at = cursor.at + 1
    BY <1>9 DEF Enter
  <2> QED BY <2>1, <1>9, <1>o DEF Enter, arguments, parsed
<1>10. CASE SymbolSection
  BY <1>10, <1>9 DEF SymbolSection, At
<1>11. CASE SymbolGlobal
  BY <1>11, <1>8 DEF SymbolGlobal, At
<1>12. CASE SymbolLabel
  BY <1>12, <1>6, <1>8 DEF SymbolLabel, At
<1>13. CASE SymbolInstruction
  BY <1>13, <1>6, <1>8 DEF SymbolInstruction, At
<1>14. CASE Resolve
  BY <1>14, <1>6, <1>7 DEF Resolve, AtEnd, Passes
<1>15. CASE MeasureSection
  BY <1>15, <1>6, <1>9 DEF MeasureSection, At
<1>16. CASE MeasureInstruction
  BY <1>16, <1>8 DEF MeasureInstruction, At
<1>17. CASE MeasureOther
  BY <1>17, <1>8 DEF MeasureOther, At
<1>18. CASE Measured
  BY <1>18, <1>7 DEF Measured, AtEnd, Passes
<1>19. CASE PlaceSection
  <2>1. CASE Onward
    BY <1>19, <2>1 DEF PlaceSection, Onward, arguments, parsed, Analysed, Passes
  <2> QED BY <1>19, <2>1, <1>6 DEF PlaceSection
<1>20. CASE ResolveAddresses
  BY <1>20, <1>6, <1>7 DEF ResolveAddresses, Passes
<1>21. CASE Populate
  BY <1>21, <1>6, <1>7 DEF Populate, Passes
<1>22. CASE EncodeSection
  BY <1>22, <1>9 DEF EncodeSection, At
<1>23. CASE EncodeOther
  BY <1>23, <1>8 DEF EncodeOther, At
<1>24. CASE EncodeInstruction
  <2>1. CASE cursor' = [cursor EXCEPT !.at = @ + 1, !.offset = @ + 1]
             /\ pass' = pass /\ UNCHANGED << arguments, parsed, outcome >>
    <3>1. pass = "encode" /\ cursor.at <= Len(program)
      BY <1>24 DEF EncodeInstruction, At
    <3>2. Cursor /\ cursor'.at = cursor.at + 1
      BY <2>1
    <3> QED BY <2>1, <3>1, <3>2, <1>o DEF arguments, parsed
  <2> QED BY <1>24, <2>1, <1>6 DEF EncodeInstruction
<1>25. CASE Finish
  BY <1>25 DEF Finish, AtEnd, arguments, parsed, Analysed, Passes
<1>26. CASE UNCHANGED vars
  BY <1>26 DEF vars, arguments, parsed, Analysed
<1> QED BY <1>1, <1>2, <1>3, <1>4, <1>5, <1>10, <1>11, <1>12, <1>13, <1>14, <1>15, <1>16, <1>17,
           <1>18, <1>19, <1>20, <1>21, <1>22, <1>23, <1>24, <1>25, <1>26 DEF Next

\* The parser's part of the invariant: what it has read, and what it found.
GrammarInv ==
    /\ pass = "lex" => program = << >>
    /\ pass = "parse" => /\ Lexes(source) /\ tokens = tokenize(source)
                         /\ ReadOf(tokens, program, cursor.at)
    /\ ParserMatchesGrammar

\* Behind the parser nothing blames the text any more.
LEMMA VerdictStays ==
    ASSUME ProgramInv, [Next]_vars, pass \notin {"lex", "parse"}
    PROVE  /\ outcome' = "ParseError" <=> outcome = "ParseError"
           /\ pass' = "analyze" => pass = "analyze"
<1>0. pass = "done" <=> outcome # "running"
  BY DEF ProgramInv
<1>1. CASE UNCHANGED vars
  BY <1>1 DEF vars, arguments, parsed
<1>2. CASE Next
  BY <1>0, <1>2 DEF Next, Tokenize, ParseStatement, ParseNewline, ParseEnd, Analyze, SymbolSection,
       SymbolGlobal, SymbolLabel, SymbolInstruction, Resolve, MeasureSection,
       MeasureInstruction, MeasureOther, Measured, PlaceSection, ResolveAddresses, Populate,
       EncodeSection, EncodeOther, EncodeInstruction, Finish, Throw, Begin, Onward, Enter,
       At, AtEnd
<1> QED BY <1>1, <1>2

\* Nothing is read at the start.
LEMMA GrammarInvInit == Init => GrammarInv
  BY DEF Init, GrammarInv, ParserMatchesGrammar

\* The parser reads one line of the grammar after the other, or stops at the
\* first that is none; the other steps leave its verdict alone.
LEMMA GrammarInvStep == ProgramInv /\ GrammarInv /\ [Next]_vars => GrammarInv'
<1> SUFFICES ASSUME ProgramInv, GrammarInv, [Next]_vars PROVE GrammarInv'
  OBVIOUS
<1>0. /\ (pass = "done" <=> outcome # "running") /\ IsText(source) /\ IsSequence(program)
      /\ pass = "lex" => cursor.at = 1 /\ program = << >>
      /\ DOMAIN cursor = {"at", "section", "offset"}
  BY DEF ProgramInv, GrammarInv
<1>t. ASSUME NEW t, t = tokenize(source), Lexes(source) PROVE IsLexed(t)
  BY <1>t, <1>0, TokenizeLexed
<1>p. ASSUME pass = "parse"
      PROVE  /\ Lexes(source) /\ tokens = tokenize(source) /\ IsLexed(tokens)
             /\ ReadOf(tokens, program, cursor.at)
             /\ outcome = "running"
             /\ cursor.at \in 1 .. Len(tokens) /\ DOMAIN tokens = 1 .. Len(tokens)
  <2>1. Lexes(source) /\ tokens = tokenize(source) /\ ReadOf(tokens, program, cursor.at)
    BY <1>p DEF GrammarInv
  <2>2. IsLexed(tokens)
    BY <2>1, <1>t
  <2> QED BY <2>1, <2>2, <1>0, <1>p, LexedFacts DEF ProgramInv
<1>1. CASE Tokenize
  <2>0. pass = "lex" /\ outcome = "running" /\ program = << >> /\ cursor.at = 1
    BY <1>0, <1>1 DEF Tokenize
  <2>1. CASE source # << >> /\ Lexes(source) /\ tokens' = tokenize(source)
    <3>1. /\ tokens' = tokenize(source) /\ pass' = "parse"
          /\ UNCHANGED << source, program, cursor, outcome >>
      BY <1>1, <2>0, <2>1 DEF Tokenize, Throw, arguments
    <3>2. IsLexed(tokens')
      BY <2>1, <1>t
    <3>3. ReadOf(tokens', << >>, 1)
      <4> DEFINE t == tokens'
      <4>1. IsLexed(t)
        BY <3>2
      <4> HIDE DEF t
      <4>2. 1 \in Starts(t) \cup Ends(t)
        BY <4>1, LexedFacts DEF Starts
      <4>3. StartsBefore(t, 1) = {}
        <5>1. \A s \in Starts(t) : s \in 1 .. Len(t)
          BY <4>1, StartsFacts
        <5>2. \A s \in Starts(t) : ~(s < 1)
          BY <5>1
        <5> QED BY <5>2 DEF StartsBefore
      <4>4. Len(<< >>) = Cardinality({})
        BY FS_EmptySet
      <4>5. ReadOf(t, << >>, 1)
        BY <4>2, <4>3, <4>4 DEF ReadOf
      <4> QED BY <4>5 DEF t
    <3> QED BY <2>0, <2>1, <3>1, <3>3 DEF GrammarInv, ParserMatchesGrammar
  <2>2. CASE pass' = "done" /\ outcome' \in {"runtime_error", "LexError"}
    BY <2>2 DEF GrammarInv, ParserMatchesGrammar
  <2> QED BY <1>1, <2>1, <2>2 DEF Tokenize, Throw
<1>2. CASE ParseStatement
  <2> DEFINE at == cursor.at
             r == parse_statement(tokens, at)
  <2>0. pass = "parse" /\ tokens[at].kind \notin {"Newline", "EndOfFile"}
    BY <1>2 DEF ParseStatement
  <2>1. /\ IsLexed(tokens) /\ tokens = tokenize(source) /\ Lexes(source)
        /\ ReadOf(tokens, program, at) /\ outcome = "running" /\ at \in 1 .. Len(tokens)
        /\ DOMAIN tokens = 1 .. Len(tokens)
    BY <2>0, <1>p
  <2>2. at \in Starts(tokens) /\ ~EndsStatement(tokens, at)
    BY <2>0, <2>1 DEF ReadOf, Ends, EndsStatement
  <2>3. /\ r.ok <=> Grammatical(tokens, at)
        /\ Grammatical(tokens, at) => r.next = EndOf(tokens, at) /\ Spells(tokens, at, r.value)
    BY <2>1, <2>2, StatementMatches
  <2>4. CASE r.ok
    <3>1. ParsesOn(<< r.value >>, r.next)
      BY <1>2, <2>4 DEF ParseStatement
    <3>2. Grammatical(tokens, at) /\ r.next = EndOf(tokens, at) /\ Spells(tokens, at, r.value)
      BY <2>3, <2>4
    <3>3. ReadOf(tokens, program \o << r.value >>, EndOf(tokens, at))
      BY <2>1, <2>2, <3>2, <1>0, ReadStatement
    <3> HIDE DEF r
    <3>4. /\ program' = program \o << r.value >> /\ cursor'.at = EndOf(tokens, at)
          /\ UNCHANGED << source, tokens, pass, outcome >>
      BY <3>1, <3>2, <1>0 DEF ParsesOn, arguments
    <3>5. ReadOf(tokens, program', cursor'.at)
      BY <3>3, <3>4
    <3> QED BY <2>0, <2>1, <3>4, <3>5 DEF GrammarInv, ParserMatchesGrammar
  <2>5. CASE ~r.ok
    <3>1. Throw("ParseError")
      BY <1>2, <2>5 DEF ParseStatement
    <3>2. \E p \in Starts(tokenize(source)) : ~Grammatical(tokenize(source), p)
      BY <2>1, <2>2, <2>3, <2>5
    <3>3. pass' = "done" /\ outcome' = "ParseError" /\ source' = source
      BY <3>1 DEF Throw, arguments
    <3> QED BY <3>2, <3>3 DEF GrammarInv, ParserMatchesGrammar
  <2> QED BY <2>4, <2>5
<1>3. CASE ParseNewline
  <2> DEFINE at == cursor.at
  <2>0. pass = "parse" /\ tokens[at].kind = "Newline"
    BY <1>3 DEF ParseNewline
  <2>1. /\ IsLexed(tokens) /\ tokens = tokenize(source) /\ Lexes(source)
        /\ ReadOf(tokens, program, at) /\ outcome = "running" /\ at \in 1 .. Len(tokens)
        /\ DOMAIN tokens = 1 .. Len(tokens)
    BY <2>0, <1>p
  <2>2. at \in Ends(tokens)
    BY <2>0, <2>1 DEF Ends
  <2>3. StartsBefore(tokens, at + 1) = StartsBefore(tokens, at)
        /\ at + 1 \in Starts(tokens) \cup Ends(tokens)
    BY <2>0, <2>1, <2>2, OverEnd
  <2>4. ReadOf(tokens, program, at + 1)
    BY <2>1, <2>3 DEF ReadOf
  <2>5. program' = program
    BY <1>0, <1>3, SequenceFacts DEF ParseNewline, ParsesOn
  <2>6. cursor'.at = at + 1 /\ UNCHANGED << source, tokens, pass, outcome >>
    BY <1>0, <1>3 DEF ParseNewline, ParsesOn, arguments
  <2>7. ReadOf(tokens, program', cursor'.at)
    BY <2>4, <2>5, <2>6
  <2> QED BY <2>0, <2>1, <2>6, <2>7 DEF GrammarInv, ParserMatchesGrammar
<1>4. CASE ParseEnd
  <2> DEFINE at == cursor.at
             t == tokenize(source)
  <2>0. pass = "parse" /\ tokens[at].kind = "EndOfFile"
    BY <1>4 DEF ParseEnd
  <2>1. /\ IsLexed(tokens) /\ tokens = t /\ ReadOf(tokens, program, at)
        /\ outcome = "running" /\ at \in 1 .. Len(tokens) /\ DOMAIN tokens = 1 .. Len(tokens)
    BY <2>0, <1>p
  <2>2. pass' = "analyze" /\ UNCHANGED << source, program, outcome >>
    BY <1>4 DEF ParseEnd, Begin, arguments, parsed
  <2>3. at = Len(tokens) /\ at \notin Starts(tokens)
    BY <2>0, <2>1, OneEndOfFile DEF Starts, Ends
  <2>4. StartsBefore(tokens, at) = Starts(tokens)
    <3>1. \A s \in Starts(tokens) : s \in 1 .. at /\ s # at
      BY <2>1, <2>3, StartsFacts
    <3>2. \A s \in Starts(tokens) : s < at
      BY <3>1, <2>1
    <3> QED BY <3>2 DEF StartsBefore
  <2>5. /\ Len(program) = Cardinality(Starts(t))
        /\ \A s \in Starts(t) : Grammatical(t, s) /\ Spells(t, s, program[LineNumber(t, s)])
    BY <2>1, <2>4 DEF ReadOf
  <2> HIDE DEF t
  <2>6. ParserMatchesGrammar'
    BY <2>1, <2>2, <2>5 DEF ParserMatchesGrammar, t
  <2> QED BY <2>2, <2>6 DEF GrammarInv
<1>5. CASE pass \notin {"lex", "parse"}
  <2>1. UNCHANGED << source, program >>
    BY <1>5, ProgramStays
  <2>2. /\ outcome' = "ParseError" <=> outcome = "ParseError"
        /\ pass' = "analyze" => pass = "analyze"
    BY <1>5, VerdictStays
  <2>3. pass' \notin {"lex", "parse"}
    <3>1. CASE UNCHANGED vars
      BY <3>1, <1>5 DEF vars
    <3>2. CASE Next
      BY <3>2, <1>5 DEF Next, Tokenize, ParseStatement, ParseNewline, ParseEnd, Analyze,
         SymbolSection, SymbolGlobal, SymbolLabel, SymbolInstruction, Resolve, MeasureSection,
         MeasureInstruction, MeasureOther, Measured, PlaceSection, ResolveAddresses, Populate,
         EncodeSection, EncodeOther, EncodeInstruction, Finish, Throw, Begin, Onward, Enter,
         At, AtEnd
    <3> QED BY <3>1, <3>2
  <2> QED BY <2>1, <2>2, <2>3 DEF GrammarInv, ParserMatchesGrammar
<1>6. CASE UNCHANGED vars
  BY <1>6 DEF vars, arguments, parsed, GrammarInv, ParserMatchesGrammar
<1>7. CASE Next /\ pass \in {"lex", "parse"}
  BY <1>7, <1>1, <1>2, <1>3, <1>4 DEF Next, Analyze, SymbolSection,
       SymbolGlobal, SymbolLabel, SymbolInstruction, Resolve, MeasureSection,
       MeasureInstruction, MeasureOther, Measured, PlaceSection, ResolveAddresses, Populate,
       EncodeSection, EncodeOther, EncodeInstruction, Finish, At, AtEnd
<1> QED BY <1>5, <1>6, <1>7

\* The symbol table after the statements of p in front of i.
TableOf(p, off, sym, glob, i) ==
    /\ DOMAIN off = NamesBefore(p, "section", i)
    /\ \A name \in DOMAIN off : off[name] = Counted(p, name, i)
    /\ \A j \in Before(p, "instruction", i) : SectionIn(p, j) \in DOMAIN off
    /\ DOMAIN sym = NamesBefore(p, "label", i)
    /\ \A j \in Before(p, "label", i) :
          /\ SectionIn(p, j) \in DOMAIN off
          /\ sym[p[j].name] =
                [section |-> SectionIn(p, j),
                 offset  |-> Counted(p, SectionIn(p, j), j),
                 binding |-> IF p[j].name \in glob THEN "Global" ELSE "Local"]
          /\ \A k \in Before(p, "label", i) : p[k].name = p[j].name => k = j
    /\ glob = NamesBefore(p, "global", i)

TableUpTo(i) == TableOf(program, offsets, symbols, globals, i)

TableInv ==
    /\ pass \in {"lex", "parse", "analyze"} => offsets = << >> /\ symbols = << >> /\ globals = {}
    /\ pass \in {"symbols", "measure", "encode"} => cursor.section = SectionIn(program, cursor.at)
    /\ pass = "symbols" => TableUpTo(cursor.at)
    /\ Tabled => TableUpTo(Len(program) + 1) /\ ~Unresolved
    /\ \A name \in DOMAIN symbols :
          /\ symbols[name].section \in DOMAIN offsets
          /\ symbols[name].offset \in 0 .. offsets[symbols[name].section]

\* Every symbol lies within what has been counted.
LEMMA OffsetsBound ==
    ASSUME NEW p, NEW off, NEW sym, NEW glob, NEW i \in Nat \ {0}, TableOf(p, off, sym, glob, i),
           NEW name \in DOMAIN sym
    PROVE  /\ sym[name].section \in DOMAIN off
           /\ sym[name].offset \in 0 .. off[sym[name].section]
<1>1. PICK j \in Before(p, "label", i) : p[j].name = name
  BY DEF TableOf, NamesBefore
<1> DEFINE s == SectionIn(p, j)
<1>2. /\ s \in DOMAIN off /\ sym[name].section = s
      /\ sym[name].offset = Counted(p, s, j)
      /\ off[s] = Counted(p, s, i)
  <2>1. s \in DOMAIN off
        /\ sym[p[j].name] =
                [section |-> s, offset  |-> Counted(p, s, j),
                 binding |-> IF p[j].name \in glob THEN "Global" ELSE "Local"]
    BY DEF TableOf
  <2>2. \A x \in DOMAIN off : off[x] = Counted(p, x, i)
    BY DEF TableOf
  <2> HIDE DEF s
  <2> QED BY <1>1, <2>1, <2>2
<1>3. j \in Nat /\ j <= i
  BY DEF Before
<1> HIDE DEF s
<1>4. /\ Counted(p, s, j) \in Nat /\ Counted(p, s, i) \in Nat
      /\ Counted(p, s, j) <= Counted(p, s, i)
  BY <1>3, InstructionsFinite, CountGrows
<1> QED BY <1>2, <1>4

\* The empty symbol table is the one of no statement.
LEMMA TableFirst == \A p : TableOf(p, << >>, << >>, {}, 1)
  BY BeforeFirst DEF TableOf, NamesBefore

\* A section that was not opened holds no instruction.
LEMMA UnopenedIsEmpty ==
    ASSUME NEW i \in Nat, NEW name, NEW D, name \notin D,
           \A j \in Before(program, "instruction", i) : SectionIn(program, j) \in D
    PROVE  Counted(program, name, i) = 0
<1>1. InstructionsIn(program, name, i) = {}
  BY DEF InstructionsIn
<1> QED BY <1>1, FS_EmptySet DEF Counted


\* A section statement opens its section once.
LEMMA SymbolSectionStep ==
    ASSUME ProgramInv, TableUpTo(cursor.at), SymbolSection
    PROVE  TableUpTo(cursor.at)'
<1> DEFINE i == cursor.at
           p == program
           name == Here.name
<1>1. /\ i \in Nat \ {0} /\ p[i].kind = "section" /\ name = p[i].name
      /\ p' = p /\ symbols' = symbols /\ globals' = globals /\ cursor'.at = i + 1
  BY DEF SymbolSection, Enter, At, Here, parsed, ProgramInv
<1>2. offsets' = IF name \in DOMAIN offsets THEN offsets ELSE Put(offsets, name, 0)
  BY DEF SymbolSection
<1> HIDE DEF i, name
<1>3. /\ NamesBefore(p, "section", i + 1) = NamesBefore(p, "section", i) \cup {name}
      /\ NamesBefore(p, "label", i + 1) = NamesBefore(p, "label", i)
      /\ NamesBefore(p, "global", i + 1) = NamesBefore(p, "global", i)
      /\ Before(p, "instruction", i + 1) = Before(p, "instruction", i)
      /\ Before(p, "label", i + 1) = Before(p, "label", i)
      /\ \A n : Counted(p, n, i + 1) = Counted(p, n, i)
  <2>1. \A n : Counted(p, n, i + 1) = Counted(p, n, i)
    BY <1>1, CountNext
  <2>2. \A kind : Before(p, kind, i + 1)
                     = IF p[i].kind = kind THEN Before(p, kind, i) \cup {i} ELSE Before(p, kind, i)
    BY <1>1, BeforeNext
  <2>3. \A kind : NamesBefore(p, kind, i + 1)
                     = IF p[i].kind = kind THEN NamesBefore(p, kind, i) \cup {p[i].name}
                       ELSE NamesBefore(p, kind, i)
    BY <1>1, NamesNext
  <2> QED BY <1>1, <2>1, <2>2, <2>3
<1>4. DOMAIN offsets' = DOMAIN offsets \cup {name}
      /\ \A n \in DOMAIN offsets : offsets'[n] = offsets[n]
  BY <1>2 DEF Put
<1>5. name \notin DOMAIN offsets => offsets'[name] = 0 /\ Counted(p, name, i) = 0
  <2>1. \A j \in Before(p, "instruction", i) : SectionIn(p, j) \in DOMAIN offsets
    BY DEF TableUpTo, TableOf, i
  <2>2. name \notin DOMAIN offsets => Counted(p, name, i) = 0
    BY <1>1, <2>1, UnopenedIsEmpty
  <2> QED BY <1>2, <2>2 DEF Put
<1>6. \A n \in DOMAIN offsets' : offsets'[n] = Counted(p, n, i + 1)
  <2>1. \A n \in DOMAIN offsets : offsets[n] = Counted(p, n, i)
    BY DEF TableUpTo, TableOf, i
  <2> QED BY <1>3, <1>4, <1>5, <2>1
<1>7. TableUpTo(i)
  BY DEF i
<1> QED BY <1>1, <1>3, <1>4, <1>6, <1>7 DEF TableUpTo, TableOf, i

\* A directive makes its label global, before or after it.
LEMMA SymbolGlobalStep ==
    ASSUME ProgramInv, TableUpTo(cursor.at), SymbolGlobal
    PROVE  TableUpTo(cursor.at)'
<1> DEFINE i == cursor.at
           p == program
           name == Here.name
<1>1. /\ i \in Nat \ {0} /\ p[i].kind = "global" /\ name = p[i].name
      /\ p' = p /\ offsets' = offsets /\ globals' = globals \cup {name} /\ cursor'.at = i + 1
  BY DEF SymbolGlobal, Onward, At, Here, parsed, ProgramInv
<1>2. symbols' = IF name \in DOMAIN symbols
                 THEN [symbols EXCEPT ![name].binding = "Global"] ELSE symbols
  BY DEF SymbolGlobal
<1>0. TableUpTo(i)
  BY DEF i
<1> HIDE DEF i, name
<1>3. /\ NamesBefore(p, "section", i + 1) = NamesBefore(p, "section", i)
      /\ NamesBefore(p, "label", i + 1) = NamesBefore(p, "label", i)
      /\ NamesBefore(p, "global", i + 1) = NamesBefore(p, "global", i) \cup {name}
      /\ Before(p, "instruction", i + 1) = Before(p, "instruction", i)
      /\ Before(p, "label", i + 1) = Before(p, "label", i)
      /\ \A n : Counted(p, n, i + 1) = Counted(p, n, i)
  <2>1. \A n : Counted(p, n, i + 1) = Counted(p, n, i)
    BY <1>1, CountNext
  <2>2. \A kind : Before(p, kind, i + 1)
                     = IF p[i].kind = kind THEN Before(p, kind, i) \cup {i} ELSE Before(p, kind, i)
    BY <1>1, BeforeNext
  <2>3. \A kind : NamesBefore(p, kind, i + 1)
                     = IF p[i].kind = kind THEN NamesBefore(p, kind, i) \cup {p[i].name}
                       ELSE NamesBefore(p, kind, i)
    BY <1>1, NamesNext
  <2> QED BY <1>1, <2>1, <2>2, <2>3
<1>4. DOMAIN symbols' = DOMAIN symbols
  BY <1>2
<1>5. ASSUME NEW j \in Before(p, "label", i)
      PROVE  symbols'[p[j].name] =
                [section |-> SectionIn(p, j), offset  |-> Counted(p, SectionIn(p, j), j),
                 binding |-> IF p[j].name \in globals' THEN "Global" ELSE "Local"]
  <2>1. p[j].name \in DOMAIN symbols
    BY <1>0 DEF TableUpTo, TableOf, NamesBefore
  <2>2. symbols[p[j].name] =
                [section |-> SectionIn(p, j), offset  |-> Counted(p, SectionIn(p, j), j),
                 binding |-> IF p[j].name \in globals THEN "Global" ELSE "Local"]
    BY <1>0 DEF TableUpTo, TableOf
  <2> DEFINE s == SectionIn(p, j)
             c == Counted(p, s, j)
  <2> HIDE DEF s
  <2> HIDE DEF c
  <2>3. CASE p[j].name = name
    <3>1. symbols'[name] = [symbols[name] EXCEPT !.binding = "Global"]
      BY <1>2, <2>1, <2>3
    <3> QED BY <1>1, <2>2, <2>3, <3>1 DEF s, c
  <2>4. CASE p[j].name # name
    <3>1. symbols'[p[j].name] = symbols[p[j].name]
      BY <1>2, <2>4
    <3> QED BY <1>1, <2>2, <2>4, <3>1
  <2> QED BY <2>3, <2>4
<1>6. \A j \in Before(p, "label", i) :
          /\ SectionIn(p, j) \in DOMAIN offsets
          /\ \A k \in Before(p, "label", i) : p[k].name = p[j].name => k = j
  BY <1>0 DEF TableUpTo, TableOf
<1> QED BY <1>0, <1>1, <1>3, <1>4, <1>5, <1>6 DEF TableUpTo, TableOf, i

\* A new label gets the offset counted so far.
LEMMA SymbolLabelStep ==
    ASSUME ProgramInv, TableUpTo(cursor.at), cursor.section = SectionIn(program, cursor.at),
           SymbolLabel, pass' = pass
    PROVE  TableUpTo(cursor.at)'
<1> DEFINE i == cursor.at
           p == program
           name == Here.name
           s == cursor.section
<1>1. /\ i \in Nat \ {0} /\ p[i].kind = "label" /\ name = p[i].name
      /\ p' = p /\ offsets' = offsets /\ globals' = globals /\ cursor'.at = i + 1
      /\ name \notin DOMAIN symbols /\ s # NoSection
      /\ symbols' = Put(symbols, name,
                        [section |-> s, offset |-> offsets[s],
                         binding |-> IF name \in globals THEN "Global" ELSE "Local"])
  BY DEF SymbolLabel, Throw, Onward, At, Here, parsed, ProgramInv, Passes
<1>0. TableUpTo(i) /\ s = SectionIn(p, i)
  BY DEF i
<1> HIDE DEF i, name, s
<1>3. /\ NamesBefore(p, "section", i + 1) = NamesBefore(p, "section", i)
      /\ NamesBefore(p, "label", i + 1) = NamesBefore(p, "label", i) \cup {name}
      /\ NamesBefore(p, "global", i + 1) = NamesBefore(p, "global", i)
      /\ Before(p, "instruction", i + 1) = Before(p, "instruction", i)
      /\ Before(p, "label", i + 1) = Before(p, "label", i) \cup {i}
      /\ \A n : Counted(p, n, i + 1) = Counted(p, n, i)
  <2>1. \A n : Counted(p, n, i + 1) = Counted(p, n, i)
    BY <1>1, CountNext
  <2>2. \A kind : Before(p, kind, i + 1)
                     = IF p[i].kind = kind THEN Before(p, kind, i) \cup {i} ELSE Before(p, kind, i)
    BY <1>1, BeforeNext
  <2>3. \A kind : NamesBefore(p, kind, i + 1)
                     = IF p[i].kind = kind THEN NamesBefore(p, kind, i) \cup {p[i].name}
                       ELSE NamesBefore(p, kind, i)
    BY <1>1, NamesNext
  <2> QED BY <1>1, <2>1, <2>2, <2>3
<1>4. s \in DOMAIN offsets /\ offsets[s] = Counted(p, s, i)
  <2>1. s \in NamesBefore(p, "section", i)
    BY <1>0, <1>1, SectionIsNamed
  <2> QED BY <2>1, <1>0 DEF TableUpTo, TableOf
<1> DEFINE entry == [section |-> s, offset |-> Counted(p, s, i),
                     binding |-> IF name \in globals THEN "Global" ELSE "Local"]
<1>5. /\ DOMAIN symbols' = DOMAIN symbols \cup {name}
      /\ \A n \in DOMAIN symbols : symbols'[n] = symbols[n]
      /\ symbols'[name] = entry
  <2>1. symbols' = Put(symbols, name, entry)
    BY <1>1, <1>4
  <2> HIDE DEF entry
  <2> QED BY <2>1, <1>1 DEF Put
<1>6. ASSUME NEW j \in Before(p, "label", i) \cup {i}
      PROVE  /\ SectionIn(p, j) \in DOMAIN offsets
             /\ symbols'[p[j].name] =
                  [section |-> SectionIn(p, j), offset  |-> Counted(p, SectionIn(p, j), j),
                   binding |-> IF p[j].name \in globals THEN "Global" ELSE "Local"]
             /\ \A k \in Before(p, "label", i) \cup {i} : p[k].name = p[j].name => k = j
  <2>1. \A k \in Before(p, "label", i) : p[k].name \in DOMAIN symbols
    BY <1>0 DEF TableUpTo, TableOf, NamesBefore
  <2>2. CASE j = i
    <3>1. \A k \in Before(p, "label", i) : p[k].name # p[j].name
      BY <2>1, <2>2, <1>1
    <3>2. \A k \in Before(p, "label", i) \cup {i} : p[k].name = p[j].name => k = j
      BY <3>1, <2>2
    <3>3. p[j].name = name /\ SectionIn(p, j) = s
      BY <2>2, <1>0, <1>1
    <3>4. symbols'[name] = [section |-> s, offset |-> Counted(p, s, j),
                            binding |-> IF name \in globals THEN "Global" ELSE "Local"]
      BY <2>2, <1>5
    <3> QED BY <3>2, <3>3, <3>4, <1>4
  <2>3. CASE j # i
    <3>1. j \in Before(p, "label", i)
      BY <2>3
    <3>2. /\ SectionIn(p, j) \in DOMAIN offsets
          /\ symbols[p[j].name] =
                  [section |-> SectionIn(p, j), offset  |-> Counted(p, SectionIn(p, j), j),
                   binding |-> IF p[j].name \in globals THEN "Global" ELSE "Local"]
          /\ \A k \in Before(p, "label", i) : p[k].name = p[j].name => k = j
      BY <3>1, <1>0 DEF TableUpTo, TableOf
    <3>3. p[j].name # p[i].name
      BY <3>1, <2>1, <1>1
    <3> QED BY <3>1, <3>2, <3>3, <2>1, <1>5
  <2> QED BY <2>2, <2>3
<1>7. /\ DOMAIN symbols' = NamesBefore(p, "label", i + 1)
      /\ DOMAIN offsets' = NamesBefore(p, "section", i + 1)
      /\ globals' = NamesBefore(p, "global", i + 1)
  BY <1>0, <1>1, <1>3, <1>5 DEF TableUpTo, TableOf
<1>8. /\ \A n \in DOMAIN offsets : offsets'[n] = Counted(p, n, i + 1)
      /\ \A j \in Before(p, "instruction", i + 1) : SectionIn(p, j) \in DOMAIN offsets'
  BY <1>0, <1>1, <1>3 DEF TableUpTo, TableOf
<1> QED BY <1>1, <1>3, <1>6, <1>7, <1>8 DEF TableUpTo, TableOf, i

\* An instruction counts for the section it is in.
LEMMA SymbolInstructionStep ==
    ASSUME ProgramInv, TableUpTo(cursor.at), cursor.section = SectionIn(program, cursor.at),
           SymbolInstruction, pass' = pass
    PROVE  TableUpTo(cursor.at)'
<1> DEFINE i == cursor.at
           p == program
           s == cursor.section
<1>1. /\ i \in Nat \ {0} /\ p[i].kind = "instruction"
      /\ p' = p /\ symbols' = symbols /\ globals' = globals /\ cursor'.at = i + 1
      /\ s # NoSection /\ offsets' = [offsets EXCEPT ![s] = @ + 1]
  BY DEF SymbolInstruction, Throw, Onward, At, Here, parsed, ProgramInv, Passes
<1>0. TableUpTo(i) /\ s = SectionIn(p, i)
  BY DEF i
<1> HIDE DEF i, s
<1>3. /\ NamesBefore(p, "section", i + 1) = NamesBefore(p, "section", i)
      /\ NamesBefore(p, "label", i + 1) = NamesBefore(p, "label", i)
      /\ NamesBefore(p, "global", i + 1) = NamesBefore(p, "global", i)
      /\ Before(p, "instruction", i + 1) = Before(p, "instruction", i) \cup {i}
      /\ Before(p, "label", i + 1) = Before(p, "label", i)
      /\ \A n : Counted(p, n, i + 1) = IF s = n THEN Counted(p, n, i) + 1 ELSE Counted(p, n, i)
  <2>1. \A n : Counted(p, n, i + 1) = IF s = n THEN Counted(p, n, i) + 1 ELSE Counted(p, n, i)
    BY <1>0, <1>1, CountNext
  <2>2. \A kind : Before(p, kind, i + 1)
                     = IF p[i].kind = kind THEN Before(p, kind, i) \cup {i} ELSE Before(p, kind, i)
    BY <1>1, BeforeNext
  <2>3. \A kind : NamesBefore(p, kind, i + 1)
                     = IF p[i].kind = kind THEN NamesBefore(p, kind, i) \cup {p[i].name}
                       ELSE NamesBefore(p, kind, i)
    BY <1>1, NamesNext
  <2> QED BY <1>1, <2>1, <2>2, <2>3
<1>4. s \in DOMAIN offsets /\ \A n \in DOMAIN offsets : offsets[n] = Counted(p, n, i)
  <2>1. s \in NamesBefore(p, "section", i)
    BY <1>0, <1>1, SectionIsNamed
  <2> QED BY <2>1, <1>0 DEF TableUpTo, TableOf
<1>5. DOMAIN offsets' = DOMAIN offsets
      /\ \A n \in DOMAIN offsets : offsets'[n] = Counted(p, n, i + 1)
  BY <1>1, <1>3, <1>4
<1> QED BY <1>0, <1>1, <1>3, <1>4, <1>5 DEF TableUpTo, TableOf, i

\* The symbol table at the start.
LEMMA TableInvInit == Init => TableInv
  BY DEF Init, TableInv, Tabled

\* Each step keeps the table that of the statements read so far.
LEMMA TableInvStep == ProgramInv /\ TableInv /\ [Next]_vars => TableInv'
<1> SUFFICES ASSUME ProgramInv, TableInv, [Next]_vars PROVE TableInv'
  OBVIOUS
<1> DEFINE Same == UNCHANGED << program, offsets, symbols, globals >>
           Bound == \A name \in DOMAIN symbols :
                       /\ symbols[name].section \in DOMAIN offsets
                       /\ symbols[name].offset \in 0 .. offsets[symbols[name].section]
           Loops == {"symbols", "measure", "encode"}
<1>b. Bound
  BY DEF TableInv
<1>i. cursor.at \in Nat \ {0} /\ pass \in Passes /\ (pass = "done" <=> outcome # "running")
  BY DEF ProgramInv

<1>n. ASSUME pass' = "symbols", pass = "symbols", outcome' = outcome, TableUpTo(cursor.at)',
             cursor'.at \in Nat \ {0}, cursor'.section = SectionIn(program', cursor'.at)
      PROVE  TableInv'
  <2>1. Bound'
    BY <1>n, OffsetsBound DEF TableUpTo
  <2>2. outcome' # "ok"
    BY <1>n, <1>i
  <2> QED BY <1>n, <2>1, <2>2 DEF TableInv, Tabled
\* a pass that does not touch the table, in front of the symbols or behind them
<1>e. ASSUME UNCHANGED << offsets, symbols, globals >>, pass' \in {"lex", "parse", "analyze"},
             pass \in {"lex", "parse", "analyze"}, outcome' = outcome
      PROVE  TableInv'
  <2>1. outcome' # "ok"
    BY <1>e, <1>i DEF Passes
  <2> QED BY <1>e, <2>1, <1>b DEF TableInv, Tabled
<1>f. ASSUME Same, Tabled', TableUpTo(Len(program) + 1), ~Unresolved,
             pass' \in Loops => cursor'.section = SectionIn(program, cursor'.at), pass' # "symbols",
             pass' \notin {"lex", "parse", "analyze"}
      PROVE  TableInv'
  <2>1. TableUpTo(Len(program) + 1)' /\ ~Unresolved'
    BY <1>f DEF TableUpTo, Unresolved
  <2> QED BY <1>f, <2>1, <1>b DEF TableInv
<1>t. ASSUME NEW error, Throw(error), error # "ok" PROVE TableInv'
  BY <1>t, <1>b DEF Throw, table, TableInv, Tabled
<1>l. Len(program) \in Nat
  BY SequenceFacts DEF ProgramInv
\* within a loop, cursor.section follows the directives
<1>c. ASSUME pass \in Loops, cursor.at <= Len(program), program' = program,
             \/ Here.kind = "section" /\ Enter(Here.name)
             \/ Here.kind # "section" /\ (Onward \/ cursor' = [cursor EXCEPT !.at = @ + 1, !.offset = @ + 1])
      PROVE  cursor'.at = cursor.at + 1 /\ cursor'.section = SectionIn(program, cursor'.at)
  <2>1. cursor.section = SectionIn(program, cursor.at) /\ DOMAIN cursor = {"at", "section", "offset"}
    BY <1>c DEF TableInv, ProgramInv
  <2>2. SectionIn(program, cursor.at + 1) =
            IF Here.kind = "section" THEN Here.name ELSE SectionIn(program, cursor.at)
    BY <1>i, SectionNext DEF Here
  <2>3. CASE Here.kind = "section" /\ Enter(Here.name)
    BY <2>2, <2>3, <1>c DEF Enter
  <2>4. CASE Here.kind # "section" /\ cursor' = [cursor EXCEPT !.at = @ + 1]
    <3>1. cursor'.at = cursor.at + 1 /\ cursor'.section = cursor.section
      BY <2>1, <2>4
    <3> QED BY <3>1, <2>1, <2>2, <2>4, <1>c
  <2>5. CASE Here.kind # "section" /\ cursor' = [cursor EXCEPT !.at = @ + 1, !.offset = @ + 1]
    <3>1. cursor'.at = cursor.at + 1 /\ cursor'.section = cursor.section
      BY <2>1, <2>5
    <3> QED BY <3>1, <2>1, <2>2, <2>5, <1>c
  <2> QED BY <2>3, <2>4, <2>5, <1>c DEF Onward
<1>1. CASE Tokenize
  BY <1>1, <1>e, <1>t DEF Tokenize, table
<1>2. CASE ParseStatement
  BY <1>2, <1>e, <1>t DEF ParseStatement, ParsesOn, table
<1>3. CASE ParseNewline
  BY <1>3, <1>e DEF ParseNewline, ParsesOn, table
<1>4. CASE ParseEnd
  BY <1>4, <1>e DEF ParseEnd, Begin, table
<1>5. CASE Analyze
  <2>1. CASE Begin("symbols") /\ UNCHANGED table
    <3>1. offsets' = << >> /\ symbols' = << >> /\ globals' = {} /\ pass' = "symbols"
          /\ cursor' = Start /\ outcome' = outcome /\ pass = "analyze"
      BY <1>5, <2>1 DEF Analyze, TableInv, Begin, table
    <3>2. TableOf(program', << >>, << >>, {}, 1)
      BY TableFirst
    <3>3. TableUpTo(cursor.at)' /\ cursor'.section = SectionIn(program', cursor'.at)
      BY <3>1, <3>2, SectionFirst DEF TableUpTo, Start
    <3>4. Bound' /\ outcome' # "ok"
      BY <3>1, <1>i
    <3> QED BY <3>1, <3>3, <3>4 DEF TableInv, Tabled
  <2> QED BY <1>5, <2>1, <1>t DEF Analyze
<1>10. CASE SymbolSection
  <2>1. pass = "symbols" /\ TableUpTo(cursor.at) /\ cursor.at <= Len(program)
    BY <1>10 DEF SymbolSection, At, TableInv
  <2>2. /\ Here.kind = "section" /\ Enter(Here.name) /\ program' = program
        /\ pass' = pass /\ outcome' = outcome
    BY <1>10 DEF SymbolSection, At, Enter, parsed
  <2>3. TableUpTo(cursor.at)'
    BY <1>10, <2>1, SymbolSectionStep
  <2> QED BY <2>1, <2>2, <2>3, <1>c, <1>n, <1>i
<1>11. CASE SymbolGlobal
  <2>1. pass = "symbols" /\ TableUpTo(cursor.at) /\ cursor.at <= Len(program)
    BY <1>11 DEF SymbolGlobal, At, TableInv
  <2>2. /\ Here.kind = "global" /\ Onward /\ program' = program
        /\ pass' = pass /\ outcome' = outcome
    BY <1>11 DEF SymbolGlobal, At, Onward, parsed
  <2>3. TableUpTo(cursor.at)'
    BY <1>11, <2>1, SymbolGlobalStep
  <2> QED BY <2>1, <2>2, <2>3, <1>c, <1>n, <1>i
<1>12. CASE SymbolLabel
  <2>1. /\ pass = "symbols" /\ TableUpTo(cursor.at) /\ cursor.at <= Len(program)
        /\ cursor.section = SectionIn(program, cursor.at) /\ Here.kind = "label"
    BY <1>12 DEF SymbolLabel, At, TableInv
  <2>2. CASE Throw("SymbolTableError")
    BY <2>2, <1>t
  <2>3. CASE Onward
    <3>1. program' = program /\ pass' = pass /\ outcome' = outcome
      BY <2>3 DEF Onward, parsed
    <3>2. TableUpTo(cursor.at)'
      BY <1>12, <2>1, <3>1, SymbolLabelStep
    <3> QED BY <2>1, <2>3, <3>1, <3>2, <1>c, <1>n, <1>i
  <2> QED BY <1>12, <2>2, <2>3 DEF SymbolLabel
<1>13. CASE SymbolInstruction
  <2>1. /\ pass = "symbols" /\ TableUpTo(cursor.at) /\ cursor.at <= Len(program)
        /\ cursor.section = SectionIn(program, cursor.at) /\ Here.kind = "instruction"
    BY <1>13 DEF SymbolInstruction, At, TableInv
  <2>2. CASE Throw("SymbolTableError")
    BY <2>2, <1>t
  <2>3. CASE Onward
    <3>1. program' = program /\ pass' = pass /\ outcome' = outcome
      BY <2>3 DEF Onward, parsed
    <3>2. TableUpTo(cursor.at)'
      BY <1>13, <2>1, <3>1, SymbolInstructionStep
    <3> QED BY <2>1, <2>3, <3>1, <3>2, <1>c, <1>n, <1>i
  <2> QED BY <1>13, <2>2, <2>3 DEF SymbolInstruction
<1>14. CASE Resolve
  <2>1. CASE ~Unresolved /\ Begin("measure") /\ UNCHANGED table
    <3>1. pass = "symbols" /\ cursor.at = Len(program) + 1 /\ TableUpTo(cursor.at)
      BY <1>14, <1>l DEF Resolve, AtEnd, TableInv, ProgramInv
    <3>2. Same /\ pass' = "measure" /\ cursor' = Start
      BY <2>1 DEF Begin, parsed, table
    <3>3. cursor'.section = SectionIn(program, cursor'.at)
      BY <3>2, SectionFirst DEF Start
    <3> QED BY <2>1, <3>1, <3>2, <3>3, <1>f DEF Tabled
  <2> QED BY <1>14, <2>1, <1>t DEF Resolve
<1>g. Tabled => TableUpTo(Len(program) + 1) /\ ~Unresolved
  BY DEF TableInv
\* a turn of a later loop, and the beginning of a later pass
<1>15. ASSUME UNCHANGED table, pass' = pass, pass \in {"measure", "encode"},
              cursor.at <= Len(program), program' = program,
              \/ Here.kind = "section" /\ Enter(Here.name)
              \/ Here.kind # "section" /\ (Onward \/ cursor' = [cursor EXCEPT !.at = @ + 1, !.offset = @ + 1])
       PROVE  TableInv'
  BY <1>15, <1>c, <1>f, <1>g DEF table, Tabled
<1>16. ASSUME UNCHANGED table, NEW next, Begin(next), pass \in {"measure", "place", "populate"},
              next \in {"place", "populate", "encode"}
       PROVE  TableInv'
  <2>1. cursor' = Start /\ Same /\ pass' = next
    BY <1>16 DEF Begin, parsed, table
  <2>2. cursor'.section = SectionIn(program, cursor'.at)
    BY <2>1, SectionFirst DEF Start
  <2> QED BY <1>16, <2>1, <2>2, <1>f, <1>g DEF Tabled
<1>17. CASE MeasureSection
  BY <1>17, <1>15, <1>t DEF MeasureSection, At, Enter, parsed
<1>18. CASE MeasureInstruction
  BY <1>18, <1>15 DEF MeasureInstruction, At, Onward, parsed
<1>19. CASE MeasureOther
  BY <1>19, <1>15 DEF MeasureOther, At, Onward, parsed
<1>20. CASE Measured
  BY <1>20, <1>16 DEF Measured, AtEnd
<1>21. CASE PlaceSection
  <2>1. CASE Onward /\ UNCHANGED table
    BY <1>21, <2>1, <1>f, <1>g DEF PlaceSection, Onward, parsed, table, Tabled
  <2> QED BY <1>21, <2>1, <1>t DEF PlaceSection
<1>22. CASE ResolveAddresses
  BY <1>22, <1>16, <1>t DEF ResolveAddresses
<1>23. CASE Populate
  BY <1>23, <1>16, <1>t DEF Populate
<1>24. CASE EncodeSection
  BY <1>24, <1>15 DEF EncodeSection, At, Enter, parsed
<1>25. CASE EncodeOther
  BY <1>25, <1>15 DEF EncodeOther, At, Onward, parsed
<1>26. CASE EncodeInstruction
  BY <1>26, <1>15, <1>t DEF EncodeInstruction, At, parsed
<1>27. CASE Finish
  BY <1>27, <1>f, <1>g DEF Finish, AtEnd, parsed, table, Tabled
<1>28. CASE UNCHANGED vars
  BY <1>28 DEF vars, parsed, table, TableInv, TableUpTo, Tabled, Unresolved
<1> QED BY <1>1, <1>2, <1>3, <1>4, <1>5, <1>10, <1>11, <1>12, <1>13, <1>14, <1>17, <1>18, <1>19,
           <1>20, <1>21, <1>22, <1>23, <1>24, <1>25, <1>26, <1>27, <1>28 DEF Next

\* Layout's sizes after the statements of p in front of i.
Sizes(p, sz, i) ==
    /\ DOMAIN sz = NamesBefore(p, "section", i) /\ DOMAIN sz \subseteq SectionNames
    /\ \A name \in DOMAIN sz : sz[name] = Counted(p, name, i)

\* A placed section: a word for an address, and the size that was counted.
IsPlaced(sz, s) ==
    /\ s = [name |-> s.name, address |-> s.address, size |-> sz[s.name]]
    /\ s.name \in DOMAIN sz /\ s.address \in Word

\* Layout's sections when the first m - 1 names of SectionOrder have been placed from b on.
SectionChain(b, sz, secs, m) ==
    /\ IsSequence(secs) /\ \A k \in 1 .. Len(secs) : IsPlaced(sz, secs[k])
    /\ \A j, k \in 1 .. Len(secs) : secs[j].name = secs[k].name => j = k
    /\ \A h \in 1 .. 4 : (\E k \in 1 .. Len(secs) : secs[k].name = SectionOrder[h])
                             <=> h < m /\ SectionOrder[h] \in DOMAIN sz
    /\ Len(secs) > 0 => secs[1].address = b
    /\ \A k \in 1 .. Len(secs) - 1 : secs[k].address + secs[k].size = secs[k + 1].address

AllSizes == Sizes(program, sizes, Len(program) + 1)

LaidOut == pass \in {"populate", "encode"} \/ outcome = "ok"

LayoutInv ==
    /\ pass \in {"lex", "parse", "analyze", "symbols"} =>
           sizes = << >> /\ sections = << >> /\ addresses = << >>
    /\ pass = "measure" =>
           sections = << >> /\ addresses = << >> /\ Sizes(program, sizes, cursor.at)
    /\ pass = "place" => /\ AllSizes /\ cursor.at \in 1 .. 5 /\ addresses = << >>
                         /\ SectionChain(base, sizes, sections, cursor.at)
    /\ LaidOut => /\ AllSizes /\ SectionChain(base, sizes, sections, 5)
                  /\ addresses = [name \in DOMAIN symbols |-> SymbolAddress(name)]
    /\ \A k \in DOMAIN sections : sections[k].address \in Word /\ sections[k].size \in Nat
    /\ \A name \in DOMAIN addresses : addresses[name] \in Word

\* Sizes are numbers.
LEMMA SizesAreCounts ==
    ASSUME NEW p, NEW sz, NEW i \in Nat, Sizes(p, sz, i)
    PROVE  \A name \in DOMAIN sz : sz[name] \in Nat
  BY InstructionsFinite DEF Sizes

\* No section has the name of none.
LEMMA SectionNamesNamed == NoSection \notin SectionNames
<1>1. SectionNames = {"text", "data", "rodata", "bss"}
  BY DEF SectionNames, SectionOrder
<1>2. "" \notin {"text", "data", "rodata", "bss"}
  OBVIOUS
<1> QED BY <1>1, <1>2 DEF NoSection

\* A section statement measures a new section as empty.
LEMMA MeasureSectionStep ==
    ASSUME ProgramInv, Sizes(program, sizes, cursor.at), MeasureSection, Here.name \in SectionNames
    PROVE  Sizes(program, sizes, cursor.at)'
<1> DEFINE i == cursor.at
           p == program
           name == Here.name
<1>1. /\ i \in Nat \ {0} /\ p[i].kind = "section" /\ name = p[i].name
      /\ p' = p /\ cursor'.at = i + 1 /\ name \in SectionNames
      /\ sizes' = IF name \in DOMAIN sizes THEN sizes ELSE Put(sizes, name, 0)
  BY DEF MeasureSection, Throw, Enter, At, Here, parsed, ProgramInv
<1> HIDE DEF i, name
<1>2. NamesBefore(p, "section", i + 1) = NamesBefore(p, "section", i) \cup {name}
  <2>1. NamesBefore(p, "section", i + 1)
            = IF p[i].kind = "section" THEN NamesBefore(p, "section", i) \cup {p[i].name}
              ELSE NamesBefore(p, "section", i)
    BY <1>1, NamesNext
  <2> QED BY <1>1, <2>1
<1>3. \A n : Counted(p, n, i + 1) = Counted(p, n, i)
  BY <1>1, CountNext
<1>4. /\ DOMAIN sizes' = DOMAIN sizes \cup {name}
      /\ \A n \in DOMAIN sizes : sizes'[n] = sizes[n]
      /\ name \notin DOMAIN sizes => sizes'[name] = 0
  BY <1>1 DEF Put
<1>5. Sizes(p, sizes, i)
  BY DEF i
<1>6. name \notin DOMAIN sizes => Counted(p, name, i) = 0
  <2>1. ASSUME name \notin NamesBefore(p, "section", i) PROVE InstructionsIn(p, name, i) = {}
    <3>1. ASSUME NEW j \in Before(p, "instruction", i), SectionIn(p, j) = name PROVE FALSE
      <4>1. j \in Nat \ {0} /\ j <= i /\ i \in Nat
        BY <1>1 DEF Before
      <4>2. name # NoSection
        BY <1>1, SectionNamesNamed
      <4>3. name \in NamesBefore(p, "section", j)
        BY <4>1, <4>2, <3>1, SectionIsNamed
      <4>4. NamesBefore(p, "section", j) \subseteq NamesBefore(p, "section", i)
        BY <4>1, NamesGrow
      <4> QED BY <4>3, <4>4, <2>1
    <3> QED BY <3>1 DEF InstructionsIn
  <2>2. Counted(p, name, i) = 0 \/ name \in NamesBefore(p, "section", i)
    BY <2>1, FS_EmptySet DEF Counted
  <2> QED BY <2>2, <1>5 DEF Sizes
<1>7. Sizes(p, sizes', i + 1)
  <2>1. DOMAIN sizes' = NamesBefore(p, "section", i + 1) /\ DOMAIN sizes' \subseteq SectionNames
    BY <1>1, <1>2, <1>4, <1>5 DEF Sizes
  <2>2. \A n \in DOMAIN sizes : sizes[n] = Counted(p, n, i)
    BY <1>5 DEF Sizes
  <2>3. \A n \in DOMAIN sizes' : sizes'[n] = Counted(p, n, i + 1)
    <3> TAKE n \in DOMAIN sizes'
    <3>1. Counted(p, n, i + 1) = Counted(p, n, i)
      BY <1>3
    <3>2. CASE n \in DOMAIN sizes
      BY <3>1, <3>2, <2>2, <1>4
    <3>3. CASE n \notin DOMAIN sizes
      <4>1. n = name
        BY <3>3, <1>4
      <4> QED BY <4>1, <3>1, <3>3, <1>4, <1>6
    <3> QED BY <3>2, <3>3
  <2> QED BY <2>1, <2>3 DEF Sizes
<1> QED BY <1>1, <1>7

\* An instruction makes its section one word longer.
LEMMA MeasureInstructionStep ==
    ASSUME ProgramInv, Sizes(program, sizes, cursor.at), cursor.section = SectionIn(program, cursor.at),
           MeasureInstruction
    PROVE  Sizes(program, sizes, cursor.at)'
<1> DEFINE i == cursor.at
           p == program
           s == cursor.section
<1>1. /\ i \in Nat \ {0} /\ p[i].kind = "instruction" /\ p' = p /\ cursor'.at = i + 1
      /\ sizes' = [sizes EXCEPT ![s] = @ + 1]
  BY DEF MeasureInstruction, Onward, At, Here, parsed, ProgramInv
<1>2. Sizes(p, sizes, i) /\ s = SectionIn(p, i)
  BY DEF i
<1> HIDE DEF i, s
<1>3. NamesBefore(p, "section", i + 1) = NamesBefore(p, "section", i)
  <2>1. i \in Nat \ {0} /\ p[i].kind # "section"
    BY <1>1
  <2> QED BY <2>1, NamesNext
<1>4. \A n : Counted(p, n, i + 1) = IF s = n THEN Counted(p, n, i) + 1 ELSE Counted(p, n, i)
  BY <1>1, <1>2, CountNext
<1> QED BY <1>1, <1>2, <1>3, <1>4 DEF Sizes, i

\* Labels and directives take no room.
LEMMA MeasureOtherStep ==
    ASSUME ProgramInv, Sizes(program, sizes, cursor.at), MeasureOther
    PROVE  Sizes(program, sizes, cursor.at)'
<1> DEFINE i == cursor.at
           p == program
<1>1. /\ i \in Nat \ {0} /\ p[i].kind \in {"label", "global"} /\ p' = p /\ cursor'.at = i + 1
      /\ sizes' = sizes
  BY DEF MeasureOther, Onward, At, Here, parsed, placement, ProgramInv
<1>2. Sizes(p, sizes, i)
  BY DEF i
<1> HIDE DEF i
<1>3. NamesBefore(p, "section", i + 1) = NamesBefore(p, "section", i)
  BY <1>1, NamesNext
<1>4. \A n : Counted(p, n, i + 1) = Counted(p, n, i)
  BY <1>1, CountNext
<1> QED BY <1>1, <1>2, <1>3, <1>4 DEF Sizes, i

\* One more section behind the others.
LEMMA ChainAppend ==
    ASSUME NEW b, NEW sz, NEW secs, NEW m \in 1 .. 4, NEW a \in Word, SectionChain(b, sz, secs, m),
           SectionOrder[m] \in DOMAIN sz, \A n \in DOMAIN sz : sz[n] \in Nat,
           a = IF Len(secs) = 0 THEN b ELSE secs[Len(secs)].address + secs[Len(secs)].size
    PROVE  SectionChain(b, sz, Append(secs, [name |-> SectionOrder[m], address |-> a,
                                      size |-> sz[SectionOrder[m]]]), m + 1)
<1> DEFINE name == SectionOrder[m]
           e == [name |-> name, address |-> a, size |-> sz[name]]
           longer == Append(secs, e)
           n == Len(secs)
<1>0. IsSequence(secs)
  BY DEF SectionChain
<1>2. IsPlaced(sz, e) /\ e.name = name /\ e.address = a /\ e.size = sz[name]
  BY DEF IsPlaced
<1>3. \A h \in 1 .. 4 : SectionOrder[h] = name => h = m
  BY DEF SectionOrder
<1>4. \A k \in 1 .. n : secs[k].name # name
  BY DEF SectionChain
<1> HIDE DEF e
<1>1. /\ n \in Nat /\ IsSequence(longer) /\ Len(longer) = n + 1 /\ longer[n + 1] = e
      /\ \A k \in 1 .. n : longer[k] = secs[k]
  BY <1>0, SequenceFacts
<1> HIDE DEF longer, n, name
<1>5. \A k \in 1 .. n + 1 : k \in 1 .. n \/ k = n + 1
  BY <1>1
<1>6. SectionChain(b, sz, secs, m) /\ n = Len(secs)
  BY DEF n
<1>7. \A k \in 1 .. n + 1 : IsPlaced(sz, longer[k])
  BY <1>1, <1>2, <1>5, <1>6 DEF SectionChain
<1>8. \A j, k \in 1 .. n + 1 : longer[j].name = longer[k].name => j = k
  <2>1. \A j \in 1 .. n : longer[j].name # name
    BY <1>1, <1>4
  <2>2. \A j, k \in 1 .. n : longer[j].name = longer[k].name => j = k
    BY <1>1, <1>6 DEF SectionChain
  <2> QED BY <2>1, <2>2, <1>1, <1>2, <1>5
<1>9. ASSUME NEW h \in 1 .. 4
      PROVE  (\E k \in 1 .. n + 1 : longer[k].name = SectionOrder[h])
                  <=> h < m + 1 /\ SectionOrder[h] \in DOMAIN sz
  <2>1. (\E k \in 1 .. n : secs[k].name = SectionOrder[h]) <=> h < m /\ SectionOrder[h] \in DOMAIN sz
    BY <1>6 DEF SectionChain
  <2>2. (\E k \in 1 .. n + 1 : longer[k].name = SectionOrder[h])
            <=> (\E k \in 1 .. n : secs[k].name = SectionOrder[h]) \/ name = SectionOrder[h]
    <3>1. n + 1 \in 1 .. n + 1 /\ 1 .. n \subseteq 1 .. n + 1
      BY <1>1
    <3> QED BY <3>1, <1>1, <1>2, <1>5
  <2>3. name = SectionOrder[h] <=> h = m
    BY <1>3 DEF name
  <2>4. name \in DOMAIN sz
    BY DEF name
  <2>5. CASE h = m
    BY <2>2, <2>3, <2>4, <2>5
  <2>6. CASE h # m
    <3>1. h < m + 1 <=> h < m
      BY <2>6
    <3> QED BY <3>1, <2>1, <2>2, <2>3, <2>6
  <2> QED BY <2>5, <2>6
<1>10. longer[1].address = b
  <2>1. CASE n = 0
    BY <2>1, <1>1, <1>2, <1>6
  <2>2. CASE n > 0
    BY <2>2, <1>1, <1>6 DEF SectionChain
  <2> QED BY <2>1, <2>2, <1>1
<1>11. ASSUME NEW k \in 1 .. (n + 1) - 1
       PROVE  longer[k].address + longer[k].size = longer[k + 1].address
  <2>1. CASE k = n
    BY <2>1, <1>1, <1>2, <1>6
  <2>2. CASE k # n
    <3>1. k \in 1 .. n - 1 /\ k \in 1 .. n /\ k + 1 \in 1 .. n
      BY <2>2, <1>1
    <3>2. secs[k].address + secs[k].size = secs[k + 1].address
      BY <3>1, <1>6 DEF SectionChain
    <3> QED BY <3>1, <3>2, <1>1
  <2> QED BY <2>1, <2>2
<1>12. SectionChain(b, sz, longer, m + 1)
  BY <1>1, <1>7, <1>8, <1>9, <1>10, <1>11 DEF SectionChain
<1> QED BY <1>12 DEF longer, e, name

\* A name that is in no program is passed over.
LEMMA ChainPass ==
    ASSUME NEW b, NEW sz, NEW secs, NEW m \in 1 .. 4, SectionChain(b, sz, secs, m),
           SectionOrder[m] \notin DOMAIN sz
    PROVE  SectionChain(b, sz, secs, m + 1)
<1>1. \A h \in 1 .. 4 : h < m + 1 /\ SectionOrder[h] \in DOMAIN sz
                            <=> h < m /\ SectionOrder[h] \in DOMAIN sz
  <2> TAKE h \in 1 .. 4
  <2>1. h < m + 1 <=> h < m \/ h = m
    OBVIOUS
  <2> QED BY <2>1
<1> QED BY <1>1 DEF SectionChain

\* No section is placed at the start.
LEMMA ChainFirst == \A b, sz : SectionChain(b, sz, << >>, 1)
<1>1. << >> \in Seq({0}) /\ Len(<< >>) = 0
  OBVIOUS
<1>2. IsSequence(<< >>)
  BY <1>1, InSeq
<1> QED BY <1>1, <1>2 DEF SectionChain

\* Placed sections have words for addresses and numbers for sizes.
LEMMA ChainTyped ==
    ASSUME NEW b, NEW sz, NEW secs, NEW m, SectionChain(b, sz, secs, m), \A n \in DOMAIN sz : sz[n] \in Nat
    PROVE  /\ DOMAIN secs = 1 .. Len(secs) /\ Len(secs) \in Nat
           /\ \A k \in DOMAIN secs : secs[k].address \in Word /\ secs[k].size \in Nat
<1>1. DOMAIN secs = 1 .. Len(secs) /\ Len(secs) \in Nat
  BY SequenceFacts DEF SectionChain
<1>2. ASSUME NEW k \in 1 .. Len(secs) PROVE secs[k].address \in Word /\ secs[k].size \in Nat
  <2> DEFINE s == secs[k]
  <2>1. IsPlaced(sz, s)
    BY DEF SectionChain
  <2> HIDE DEF s
  <2>2. s.address \in Word /\ s.size = sz[s.name] /\ s.name \in DOMAIN sz
    BY <2>1 DEF IsPlaced
  <2> QED BY <2>2 DEF s
<1> QED BY <1>1, <1>2

\* Every measured section has a place.
LEMMA EverySectionIsPlaced ==
    ASSUME NEW b, NEW sz, SectionChain(b, sz, sections, 5), DOMAIN sz \subseteq SectionNames,
           NEW name \in DOMAIN sz
    PROVE  /\ Placed(name) /\ section_index(name) + 1 \in DOMAIN sections
           /\ section_index(name) \in Int
           /\ section(name) = sections[section_index(name) + 1]
           /\ section(name).name = name /\ IsPlaced(sz, section(name))
<1>1. PICK h \in 1 .. 4 : SectionOrder[h] = name
  BY DEF SectionNames
<1>2. PICK k \in 1 .. Len(sections) : sections[k].name = name
  <2>1. h < 5
    OBVIOUS
  <2>2. \E k \in 1 .. Len(sections) : sections[k].name = SectionOrder[h]
    BY <1>1, <2>1 DEF SectionChain
  <2> QED BY <1>1, <2>2
<1>3. DOMAIN sections = 1 .. Len(sections) /\ Len(sections) \in Nat
  BY SequenceFacts DEF SectionChain
<1> DEFINE c == CHOOSE j \in DOMAIN sections : sections[j].name = name
<1>4. c \in DOMAIN sections /\ sections[c].name = name
  BY <1>2, <1>3
<1>5. section_index(name) = c - 1
  BY DEF section_index
<1> HIDE DEF c
<1>6. c \in Int /\ (c - 1) + 1 = c
  BY <1>3, <1>4
<1>7. section(name) = sections[c]
  BY <1>5, <1>6 DEF section
<1>8. IsPlaced(sz, sections[c])
  BY <1>3, <1>4 DEF SectionChain
<1> QED BY <1>2, <1>3, <1>4, <1>5, <1>6, <1>7, <1>8 DEF Placed

\* Every symbol has an address: its section was placed.
LEMMA SymbolAddressTyped ==
    ASSUME TableUpTo(Len(program) + 1), TableInv, AllSizes, NEW b, SectionChain(b, sizes, sections, 5),
           ProgramInv, NEW name \in DOMAIN symbols
    PROVE  /\ symbols[name].section \in DOMAIN sizes
           /\ SymbolAddress(name) \in Int
           /\ section(symbols[name].section).address \in Word
           /\ symbols[name].offset \in Nat
<1> DEFINE s == symbols[name].section
           o == symbols[name].offset
<1>0. Len(program) + 1 \in Nat
  BY SequenceFacts DEF ProgramInv
<1>1. s \in DOMAIN offsets /\ o \in 0 .. offsets[s]
  BY DEF TableInv
<1>2. DOMAIN offsets = DOMAIN sizes /\ DOMAIN sizes \subseteq SectionNames
  BY DEF TableUpTo, TableOf, AllSizes, Sizes
<1>3. \A n \in DOMAIN offsets : offsets[n] \in Nat
  BY <1>0, InstructionsFinite DEF TableUpTo, TableOf
<1>4. SymbolAddress(name) = section(s).address + o
  BY DEF SymbolAddress
<1> HIDE DEF s, o
<1>5. IsPlaced(sizes, section(s))
  BY <1>1, <1>2, EverySectionIsPlaced
<1>6. section(s).address \in Word
  BY <1>5 DEF IsPlaced
<1>7. section(s).address \in Int /\ o \in Nat
  BY <1>1, <1>3, <1>6, MaxValue DEF Word
<1>8. SymbolAddress(name) \in Int
  BY <1>4, <1>7
<1> QED BY <1>1, <1>2, <1>6, <1>7, <1>8 DEF s, o

\* The layout at the start.
LEMMA LayoutInvInit == Init => LayoutInv
  BY DEF Init, LayoutInv, LaidOut

\* Each step keeps the sizes counts, the sections a chain and the addresses words.
LEMMA LayoutInvStep == ProgramInv /\ TableInv /\ LayoutInv /\ [Next]_vars => LayoutInv'
<1> SUFFICES ASSUME ProgramInv, TableInv, LayoutInv, [Next]_vars PROVE LayoutInv'
  OBVIOUS
<1> DEFINE Same == UNCHANGED << base, program, symbols, sizes, sections, addresses >>
           Typed == /\ \A k \in DOMAIN sections : sections[k].address \in Word /\ sections[k].size \in Nat
                    /\ \A name \in DOMAIN addresses : addresses[name] \in Word
           Front == {"lex", "parse", "analyze", "symbols"}
<1>y. Typed
  BY DEF LayoutInv
<1>i. cursor.at \in Nat \ {0} /\ pass \in Passes /\ (pass = "done" <=> outcome # "running")
  BY DEF ProgramInv
<1>l. Len(program) \in Nat /\ DOMAIN program = 1 .. Len(program)
  BY SequenceFacts DEF ProgramInv
<1>t. ASSUME NEW error, Throw(error), error # "ok" PROVE LayoutInv'
  <2>1. sections' = sections /\ addresses' = addresses /\ pass' = "done" /\ outcome' # "ok"
    BY <1>t DEF Throw, placement
  <2> QED BY <2>1, <1>y DEF LayoutInv, LaidOut
<1>e. ASSUME UNCHANGED placement, pass \in Front, pass' \in Front, outcome' = outcome PROVE LayoutInv'
  <2>1. outcome' # "ok"
    BY <1>e, <1>i
  <2> QED BY <1>e, <2>1, <1>y DEF LayoutInv, LaidOut, placement
<1>f. ASSUME Same, LaidOut, LaidOut', pass' \notin Front \cup {"measure", "place"} PROVE LayoutInv'
  <2>1. AllSizes' /\ SectionChain(base, sizes, sections, 5)'
    BY <1>f DEF LayoutInv, AllSizes
  <2>2. addresses' = [name \in DOMAIN symbols' |-> SymbolAddress(name)']
    BY <1>f DEF LayoutInv, SymbolAddress, section, section_index
  <2> QED BY <1>f, <2>1, <2>2, <1>y DEF LayoutInv
<1>1. CASE Tokenize
  BY <1>1, <1>e, <1>t DEF Tokenize
<1>2. CASE ParseStatement
  BY <1>2, <1>e, <1>t DEF ParseStatement, ParsesOn
<1>3. CASE ParseNewline
  BY <1>3, <1>e DEF ParseNewline, ParsesOn
<1>4. CASE ParseEnd
  BY <1>4, <1>e DEF ParseEnd, Begin
<1>5. CASE Analyze
  BY <1>5, <1>e, <1>t DEF Analyze, Begin
<1>6. CASE SymbolSection
  BY <1>6, <1>e DEF SymbolSection, At, Enter
<1>7. CASE SymbolGlobal
  BY <1>7, <1>e DEF SymbolGlobal, At, Onward
<1>8. CASE SymbolLabel
  BY <1>8, <1>e, <1>t DEF SymbolLabel, At, Onward
<1>9. CASE SymbolInstruction
  BY <1>9, <1>e, <1>t DEF SymbolInstruction, At, Onward
<1>10. CASE Resolve
  <2>1. CASE Begin("measure") /\ UNCHANGED placement
    <3>1. /\ pass' = "measure" /\ outcome' # "ok" /\ cursor'.at = 1
          /\ sizes' = << >> /\ sections' = << >> /\ addresses' = << >>
      BY <1>10, <2>1, <1>i DEF Resolve, AtEnd, Begin, LayoutInv, placement, Start
    <3>2. Sizes(program', << >>, 1)
      BY BeforeFirst DEF Sizes, NamesBefore
    <3> QED BY <3>1, <3>2 DEF LayoutInv, LaidOut
  <2> QED BY <1>10, <2>1, <1>t DEF Resolve
<1>m. ASSUME pass = "measure", pass' = pass, outcome' = outcome, UNCHANGED << sections, addresses >>,
             Sizes(program, sizes, cursor.at)'
      PROVE  LayoutInv'
  <2>1. outcome' # "ok"
    BY <1>m, <1>i
  <2>2. sections' = << >> /\ addresses' = << >>
    BY <1>m DEF LayoutInv
  <2> QED BY <1>m, <2>1, <2>2 DEF LayoutInv, LaidOut
<1>11. CASE MeasureSection
  <2>1. CASE Here.name \in SectionNames /\ Enter(Here.name)
    <3>1. pass = "measure" /\ Sizes(program, sizes, cursor.at)
      BY <1>11 DEF MeasureSection, At, LayoutInv
    <3>2. Sizes(program, sizes, cursor.at)'
      BY <1>11, <2>1, <3>1, MeasureSectionStep
    <3>3. UNCHANGED << sections, addresses, pass, outcome >>
      BY <1>11, <2>1, <3>1 DEF MeasureSection, Throw, Enter
    <3> QED BY <3>1, <3>2, <3>3, <1>m
  <2> QED BY <1>11, <2>1, <1>t DEF MeasureSection
<1>12. CASE MeasureInstruction
  <2>1. /\ pass = "measure" /\ Sizes(program, sizes, cursor.at)
        /\ cursor.section = SectionIn(program, cursor.at)
    BY <1>12 DEF MeasureInstruction, At, LayoutInv, TableInv
  <2>2. UNCHANGED << sections, addresses, pass, outcome >>
    BY <1>12 DEF MeasureInstruction, Onward
  <2> QED BY <1>12, <2>1, <2>2, <1>m, MeasureInstructionStep
<1>13. CASE MeasureOther
  <2>1. pass = "measure" /\ Sizes(program, sizes, cursor.at)
    BY <1>13 DEF MeasureOther, At, LayoutInv
  <2>2. UNCHANGED << sections, addresses, pass, outcome >>
    BY <1>13 DEF MeasureOther, Onward, placement
  <2> QED BY <1>13, <2>1, <2>2, <1>m, MeasureOtherStep
<1>14. CASE Measured
  <2>1. pass = "measure" /\ cursor.at = Len(program) + 1
    BY <1>14, <1>l DEF Measured, AtEnd, ProgramInv
  <2>2. Same /\ pass' = "place" /\ cursor'.at = 1 /\ outcome' = outcome
    BY <1>14 DEF Measured, Begin, Start, placement, table, parsed, arguments
  <2>3. AllSizes' /\ sections' = << >> /\ addresses' = << >>
    BY <2>1, <2>2 DEF LayoutInv, AllSizes
  <2>4. SectionChain(base', sizes', << >>, 1)
    BY ChainFirst
  <2>5. outcome' # "ok"
    BY <2>1, <2>2, <1>i
  <2> QED BY <2>2, <2>3, <2>4, <2>5 DEF LayoutInv, LaidOut
<1>15. CASE PlaceSection
  <2> DEFINE m == cursor.at
             name == SectionOrder[m]
  <2>1. /\ pass = "place" /\ m \in 1 .. 4 /\ AllSizes /\ SectionChain(base, sizes, sections, m)
        /\ addresses = << >>
    <3>1. pass = "place" /\ m <= 4
      BY <1>15 DEF PlaceSection
    <3>2. AllSizes /\ SectionChain(base, sizes, sections, m) /\ addresses = << >> /\ m \in 1 .. 5
      BY <3>1 DEF LayoutInv
    <3> QED BY <3>1, <3>2
  <2>n. \A n \in DOMAIN sizes : sizes[n] \in Nat
    <3>1. Len(program) + 1 \in Nat
      BY <1>l
    <3> QED BY <2>1, <3>1, SizesAreCounts DEF AllSizes
  <2>o. ASSUME Onward, UNCHANGED << sizes, addresses >>, SectionChain(base, sizes, sections', m + 1)
        PROVE  LayoutInv'
    <3>1. /\ pass' = "place" /\ outcome' = outcome /\ base' = base /\ program' = program
          /\ cursor' = [cursor EXCEPT !.at = @ + 1]
      BY <2>o, <2>1 DEF Onward, arguments, parsed
    <3>2. cursor'.at = m + 1
      BY <3>1 DEF ProgramInv
    <3>3. outcome' # "ok"
      BY <3>1, <2>1, <1>i
    <3>4. AllSizes' /\ addresses' = << >> /\ SectionChain(base, sizes, sections, cursor.at)'
      BY <2>1, <2>o, <3>1, <3>2 DEF AllSizes
    <3>5. \A k \in DOMAIN sections' : sections'[k].address \in Word /\ sections'[k].size \in Nat
      BY <2>o, <2>n, ChainTyped
    <3> QED BY <2>1, <3>1, <3>2, <3>3, <3>4, <3>5 DEF LayoutInv, LaidOut
  <2>2. CASE name \notin DOMAIN sizes /\ Onward /\ UNCHANGED placement
    <3>1. SectionChain(base, sizes, sections, m + 1)
      <4> HIDE DEF m
      <4> QED BY <2>1, <2>2, ChainPass
    <3> QED BY <2>2, <3>1, <2>o DEF placement
  <2>3. CASE Throw("out_of_range")
    BY <2>3, <1>t
  <2>4. CASE /\ name \in DOMAIN sizes /\ Fits(NextAddress) /\ Onward /\ UNCHANGED << sizes, addresses >>
             /\ sections' = Append(sections, [name |-> name, address |-> NextAddress,
                                              size |-> sizes[name]])
    <3> DEFINE a == NextAddress
    <3>1. /\ DOMAIN sections = 1 .. Len(sections) /\ Len(sections) \in Nat
          /\ \A k \in DOMAIN sections : sections[k].address \in Word /\ sections[k].size \in Nat
      BY <2>1, <2>n, ChainTyped
    <3>2. sections = << >> <=> Len(sections) = 0
      <4>1. sections = << >> => Len(sections) = 0
        OBVIOUS
      <4>2. Len(sections) = 0 => sections = << >>
        BY <2>1, EmptySeq DEF SectionChain, IsSequence
      <4> QED BY <4>1, <4>2
    <3>3. a = IF Len(sections) = 0 THEN base ELSE sections[Len(sections)].address
                                                     + sections[Len(sections)].size
      BY <3>2 DEF NextAddress
    <3>4. a \in Int
      <4>1. base \in Int
        BY MaxValue DEF ProgramInv, Word
      <4>2. CASE Len(sections) > 0
        <5>1. sections[Len(sections)].address \in Word /\ sections[Len(sections)].size \in Nat
          BY <3>1, <4>2
        <5> QED BY <5>1, <3>3, <4>2, MaxValue DEF Word
      <4> QED BY <4>1, <4>2, <3>1, <3>3
    <3>5. a \in Word
      BY <2>4, <3>4, MaxValue DEF Fits, Word
    <3> HIDE DEF a, m
    <3>6. SectionChain(base, sizes, Append(sections, [name |-> SectionOrder[m], address |-> a,
                                               size |-> sizes[SectionOrder[m]]]), m + 1)
      BY <2>1, <2>4, <2>n, <3>3, <3>5, ChainAppend
    <3>7. SectionChain(base, sizes, sections', m + 1)
      BY <2>4, <3>6 DEF a
    <3> QED BY <2>4, <3>7, <2>o
  <2> QED BY <1>15, <2>2, <2>3, <2>4 DEF PlaceSection, placement
<1>16. CASE ResolveAddresses
  <2>1. CASE /\ \A name \in DOMAIN symbols : Fits(SymbolAddress(name))
             /\ addresses' = [name \in DOMAIN symbols |-> SymbolAddress(name)]
             /\ Begin("populate") /\ UNCHANGED << table, sizes, sections >>
    <3>1. pass = "place" /\ cursor.at = 5 /\ AllSizes /\ SectionChain(base, sizes, sections, 5)
      <4>1. pass = "place" /\ cursor.at > 4
        BY <1>16 DEF ResolveAddresses
      <4> QED BY <4>1 DEF LayoutInv
    <3>2. TableUpTo(Len(program) + 1)
      BY <3>1 DEF TableInv, Tabled
    <3>3. \A name \in DOMAIN symbols : SymbolAddress(name) \in Word
      <4> TAKE name \in DOMAIN symbols
      <4>1. SymbolAddress(name) \in Int
        BY <3>1, <3>2, SymbolAddressTyped
      <4>2. Fits(SymbolAddress(name))
        BY <2>1
      <4> QED BY <4>1, <4>2, MaxValue DEF Fits, Word
    <3>4. UNCHANGED << base, program, symbols, sizes, sections >> /\ pass' = "populate"
      BY <2>1 DEF Begin, arguments, parsed, table
    <3>5. AllSizes' /\ SectionChain(base, sizes, sections, 5)'
      BY <3>1, <3>4 DEF AllSizes
    <3>6. addresses' = [name \in DOMAIN symbols' |-> SymbolAddress(name)']
      BY <2>1, <3>4 DEF SymbolAddress, section, section_index
    <3>7. \A name \in DOMAIN addresses' : addresses'[name] \in Word
      BY <2>1, <3>3
    <3> QED BY <3>4, <3>5, <3>6, <3>7, <1>y DEF LayoutInv
  <2> QED BY <1>16, <2>1, <1>t DEF ResolveAddresses
<1>17. CASE Populate
  <2>1. CASE Begin("encode") /\ UNCHANGED << table, placement >>
    <3>1. pass = "populate" /\ pass' = "encode" /\ Same
      BY <1>17, <2>1 DEF Populate, Begin, placement, table, parsed, arguments
    <3> QED BY <3>1, <1>f DEF LaidOut
  <2> QED BY <1>17, <2>1, <1>t DEF Populate
<1>k. ASSUME pass = "encode", pass' = "encode", UNCHANGED << arguments, parsed, table, placement >>
      PROVE  LayoutInv'
  <2>1. Same
    BY <1>k DEF placement, table, parsed, arguments
  <2> QED BY <2>1, <1>k, <1>f DEF LaidOut
<1>18. CASE EncodeSection
  BY <1>18, <1>k DEF EncodeSection, At, Enter
<1>19. CASE EncodeOther
  BY <1>19, <1>k DEF EncodeOther, At, Onward
<1>20. CASE EncodeInstruction
  BY <1>20, <1>k, <1>t DEF EncodeInstruction, At
<1>21. CASE Finish
  <2>1. Same /\ pass = "encode" /\ pass' = "done" /\ outcome' = "ok"
    BY <1>21 DEF Finish, AtEnd, placement, table, parsed, arguments
  <2> QED BY <2>1, <1>f DEF LaidOut
<1>22. CASE UNCHANGED vars
  <2>1. UNCHANGED << base, program, pass, cursor, symbols, sizes, sections, addresses, outcome >>
    BY <1>22 DEF vars, placement, table, parsed, arguments
  <2>2. addresses = [name \in DOMAIN symbols |-> SymbolAddress(name)]
           => addresses' = [name \in DOMAIN symbols' |-> SymbolAddress(name)']
    BY <2>1 DEF SymbolAddress, section, section_index
  <2> QED BY <2>1, <2>2 DEF LayoutInv, LaidOut, AllSizes
<1> QED BY <1>1, <1>2, <1>3, <1>4, <1>5, <1>6, <1>7, <1>8, <1>9, <1>10, <1>11, <1>12, <1>13, <1>14,
           <1>15, <1>16, <1>17, <1>18, <1>19, <1>20, <1>21, <1>22 DEF Next

-----------------------------------------------------------------------------
(* The encoder. *)

\* Every mnemonic of the analysis has an opcode.
LEMMA MnemonicsAreOpcodes == Mnemonic \subseteq Opcode
<1> SUFFICES ASSUME NEW m \in Mnemonic PROVE \E k \in 1 .. 27 : Mnemonics[k] = m
  BY DEF Opcode
<1> QED BY DEF Mnemonic, ZeroOperand, ThreeRegister, TwoRegister, InOut, Branches, Mnemonics

\* The kinds of the operands the analysis accepts, one by one.
LEMMA OperandKinds ==
    ASSUME NEW p, IsStatement(p), p.kind = "instruction", analyze(p), NEW m, m = p.mnemonic,
           NEW o, o = p.operands
    PROVE  /\ m \in Mnemonic /\ IsOperands(o)
           /\ m \in ThreeRegister => Len(o) = 3 /\ o[1].kind = "register"
                                     /\ o[2].kind = "register" /\ o[3].kind = "register"
           /\ m \in TwoRegister \cup {"CMP"} => Len(o) = 2 /\ o[1].kind = "register"
                                                /\ o[2].kind = "register"
           /\ m \in InOut \cup {"LDI"} => Len(o) = 2 /\ o[1].kind = "register"
                                          /\ o[2].kind = "immediate"
           /\ m \in {"LD", "LEA"} => Len(o) = 2 /\ o[1].kind = "register" /\ o[2].kind = "memory"
           /\ m = "ST" => Len(o) = 2 /\ o[1].kind = "memory" /\ o[2].kind = "register"
           /\ m \in Branches => Len(o) = 1 /\ o[1].kind = "symbol"
<1>1. IsOperands(o) /\ m \in Mnemonic
  BY DEF IsStatement, analyze
<1> DEFINE kinds == [k \in DOMAIN o |-> o[k].kind]
<1>2. kinds = INSTRUCTION_SIGNATURES[m]
  BY DEF analyze
<1>3. DOMAIN o = 1 .. Len(o) /\ Len(o) \in Nat
  BY <1>1, SequenceFacts DEF IsOperands
<1>4. DOMAIN kinds = 1 .. Len(o) /\ \A k \in 1 .. Len(o) : kinds[k] = o[k].kind
  BY <1>3
<1> HIDE DEF kinds
<1> USE DEF ZeroOperand, ThreeRegister, TwoRegister, InOut, Branches
<1>5. CASE m \in ThreeRegister
  <2>1. kinds = << "register", "register", "register" >>
    BY <1>1, <1>2, <1>5 DEF INSTRUCTION_SIGNATURES
  <2>2. DOMAIN kinds = 1 .. 3 /\ kinds[1] = "register" /\ kinds[2] = "register" /\ kinds[3] = "register"
    BY <2>1
  <2>3. Len(o) = 3
    BY <2>2, <1>3, <1>4
  <2> QED BY <1>1, <1>4, <1>5, <2>2, <2>3
<1>6. CASE m \in TwoRegister \cup {"CMP"}
  <2>1. kinds = << "register", "register" >>
    BY <1>1, <1>2, <1>6 DEF INSTRUCTION_SIGNATURES
  <2>2. DOMAIN kinds = 1 .. 2 /\ kinds[1] = "register" /\ kinds[2] = "register"
    BY <2>1
  <2>3. Len(o) = 2
    BY <2>2, <1>3, <1>4
  <2> QED BY <1>1, <1>4, <1>6, <2>2, <2>3
<1>7. CASE m \in InOut \cup {"LDI"}
  <2>1. kinds = << "register", "immediate" >>
    BY <1>1, <1>2, <1>7 DEF INSTRUCTION_SIGNATURES
  <2>2. DOMAIN kinds = 1 .. 2 /\ kinds[1] = "register" /\ kinds[2] = "immediate"
    BY <2>1
  <2>3. Len(o) = 2
    BY <2>2, <1>3, <1>4
  <2> QED BY <1>1, <1>4, <1>7, <2>2, <2>3
<1>8. CASE m \in {"LD", "LEA"}
  <2>1. kinds = << "register", "memory" >>
    BY <1>1, <1>2, <1>8 DEF INSTRUCTION_SIGNATURES
  <2>2. DOMAIN kinds = 1 .. 2 /\ kinds[1] = "register" /\ kinds[2] = "memory"
    BY <2>1
  <2>3. Len(o) = 2
    BY <2>2, <1>3, <1>4
  <2> QED BY <1>1, <1>4, <1>8, <2>2, <2>3
<1>9. CASE m = "ST"
  <2>1. kinds = << "memory", "register" >>
    BY <1>1, <1>2, <1>9 DEF INSTRUCTION_SIGNATURES
  <2>2. DOMAIN kinds = 1 .. 2 /\ kinds[1] = "memory" /\ kinds[2] = "register"
    BY <2>1
  <2>3. Len(o) = 2
    BY <2>2, <1>3, <1>4
  <2> QED BY <1>1, <1>4, <1>9, <2>2, <2>3
<1>10. CASE m \in Branches
  <2>1. kinds = << "symbol" >>
    BY <1>1, <1>2, <1>10 DEF INSTRUCTION_SIGNATURES
  <2>2. DOMAIN kinds = 1 .. 1 /\ kinds[1] = "symbol"
    BY <2>1
  <2>3. Len(o) = 1
    BY <2>2, <1>3, <1>4
  <2> QED BY <1>1, <1>4, <1>10, <2>2, <2>3
<1>11. CASE m \in ZeroOperand
  BY <1>1, <1>11
<1> QED BY <1>1, <1>5, <1>6, <1>7, <1>8, <1>9, <1>10, <1>11 DEF Mnemonic

\* What the encoder takes out of accepted operands fits the fields of a word.
LEMMA FieldsTyped ==
    ASSUME NEW p, IsStatement(p), p.kind = "instruction", analyze(p), NEW m, m = p.mnemonic,
           NEW o, m \in Branches => \E n \in Int : o = << Imm(n) >>,
           m \notin Branches => o = p.operands
    PROVE  /\ FieldsOf(m, o).rd \in Register /\ FieldsOf(m, o).rs1 \in Register
           /\ FieldsOf(m, o).rs2 \in Register /\ FieldsOf(m, o).cargo \in Int
<1> DEFINE q == p.operands
           T(f) == f.rd \in Register /\ f.rs1 \in Register /\ f.rs2 \in Register /\ f.cargo \in Int
<1>1. m \in Mnemonic /\ IsOperands(q)
  BY OperandKinds
<1>c. m \in TwoRegister \cup {"CMP"} => Len(q) = 2 /\ q[1].kind = "register" /\ q[2].kind = "register"
  BY OperandKinds
<1>s. m = "ST" => Len(q) = 2 /\ q[1].kind = "memory" /\ q[2].kind = "register"
  BY OperandKinds
<1>2. \A a, b, c \in Register, n \in Int : T(Fields(a, b, c, n))
  BY DEF Fields
<1>3. 0 \in Register /\ 0 \in Int
  BY DEF Register
<1>4. \A k \in 1 .. Len(q) : IsOperand(q[k])
  BY <1>1 DEF IsOperands
<1> USE DEF ZeroOperand, ThreeRegister, TwoRegister, InOut, Branches
<1> HIDE DEF T
<1>5. CASE m \in ThreeRegister
  <2>1. Len(q) = 3 /\ q[1].kind = "register" /\ q[2].kind = "register" /\ q[3].kind = "register"
    BY <1>5, OperandKinds
  <2>2. q[1].index \in Register /\ q[2].index \in Register /\ q[3].index \in Register
    BY <2>1, <1>4 DEF IsOperand
  <2>3. FieldsOf(m, o) = Fields(q[1].index, q[2].index, q[3].index, 0)
    BY <1>5 DEF FieldsOf
  <2>4. T(Fields(q[1].index, q[2].index, q[3].index, 0))
    BY <2>2, <1>2, <1>3
  <2> QED BY <2>3, <2>4 DEF T
<1>6. CASE m \in TwoRegister
  <2>1. Len(q) = 2 /\ q[1].kind = "register" /\ q[2].kind = "register"
    BY <1>6, OperandKinds
  <2>2. q[1].index \in Register /\ q[2].index \in Register
    BY <2>1, <1>4 DEF IsOperand
  <2>3. FieldsOf(m, o) = Fields(q[1].index, q[2].index, 0, 0)
    BY <1>6 DEF FieldsOf
  <2> QED BY <2>2, <2>3, <1>2, <1>3 DEF T
<1>7. CASE m = "CMP"
  <2>1. Len(q) = 2 /\ q[1].kind = "register" /\ q[2].kind = "register"
    BY <1>7, <1>c
  <2>2. q[1].index \in Register /\ q[2].index \in Register
    BY <2>1, <1>4 DEF IsOperand
  <2>3. FieldsOf(m, o) = Fields(0, q[1].index, q[2].index, 0)
    BY <1>7 DEF FieldsOf
  <2> QED BY <2>2, <2>3, <1>2, <1>3 DEF T
<1>8. CASE m \in InOut \cup {"LDI"}
  <2>1. Len(q) = 2 /\ q[1].kind = "register" /\ q[2].kind = "immediate"
    BY <1>8, OperandKinds
  <2>2. q[1].index \in Register /\ q[2].value \in Int
    BY <2>1, <1>4 DEF IsOperand
  <2>3. FieldsOf(m, o) = Fields(q[1].index, 0, 0, q[2].value)
    BY <1>8 DEF FieldsOf
  <2> QED BY <2>2, <2>3, <1>2, <1>3 DEF T
<1>9. CASE m \in {"LD", "LEA"}
  <2>1. Len(q) = 2 /\ q[1].kind = "register" /\ q[2].kind = "memory"
    BY <1>9, OperandKinds
  <2>2. q[1].index \in Register /\ q[2].base \in Register /\ q[2].offset \in Int
    BY <2>1, <1>4 DEF IsOperand
  <2>3. FieldsOf(m, o) = Fields(q[1].index, q[2].base, 0, q[2].offset)
    BY <1>9 DEF FieldsOf
  <2> QED BY <2>2, <2>3, <1>2, <1>3 DEF T
<1>10. CASE m = "ST"
  <2>1. Len(q) = 2 /\ q[1].kind = "memory" /\ q[2].kind = "register"
    BY <1>10, <1>s
  <2>2. q[2].index \in Register /\ q[1].base \in Register /\ q[1].offset \in Int
    BY <2>1, <1>4 DEF IsOperand
  <2>3. FieldsOf(m, o) = Fields(0, q[2].index, q[1].base, q[1].offset)
    BY <1>10 DEF FieldsOf
  <2> QED BY <2>2, <2>3, <1>2, <1>3 DEF T
<1>11. CASE m \in Branches
  <2>1. PICK n \in Int : o = << Imm(n) >>
    BY <1>11
  <2>2. o[1].value = n
    BY <2>1 DEF Imm
  <2>3. FieldsOf(m, o) = Fields(0, 0, 0, n)
    BY <1>11, <2>2 DEF FieldsOf
  <2> QED BY <2>3, <1>2, <1>3 DEF T
<1>12. CASE m \in ZeroOperand
  <2>1. FieldsOf(m, o) = Fields(0, 0, 0, 0)
    BY <1>12 DEF FieldsOf
  <2> QED BY <2>1, <1>2, <1>3 DEF T
<1> QED BY <1>1, <1>5, <1>6, <1>7, <1>8, <1>9, <1>10, <1>11, <1>12 DEF Mnemonic

\* The trits of a cargo that fits are the last trits of the number.
LEMMA CargoTrits ==
    ASSUME NEW v \in Int
    PROVE  /\ CARGO_WIDTH \in Nat /\ WIDTH = CARGO_OFFSET + CARGO_WIDTH
           /\ \A i \in CargoIndex : make_cargo(v)[i] \in Trit
           /\ \A i \in TritIndex : i >= CARGO_OFFSET =>
                 make_cargo(v)[i - CARGO_OFFSET] = from_integer(v)[i]
           /\ CargoFits(v) => /\ \A i \in TritIndex : i < CARGO_OFFSET => from_integer(v)[i] = 0
                              /\ Remaining(v)[WIDTH] = 0
<1> DEFINE r == Remaining(v)
           w == CARGO_WIDTH
<1>1. w \in Nat /\ WIDTH = 9 + w /\ WIDTH \in Nat /\ CARGO_OFFSET = 9
  BY WidthAssumption, FormatAssumption DEF CARGO_WIDTH, CARGO_OFFSET
<1>2. /\ r \in [0 .. WIDTH -> Int] /\ \A k \in 0 .. WIDTH - 1 : r[k + 1] = Shifted(r[k])
  BY RemainingDef
<1>3. \A i \in TritIndex : from_integer(v)[i] = LowTrit(r[WIDTH - 1 - i])
  BY DEF from_integer
<1>4. CargoFits(v) => r[w] = 0
  BY DEF CargoFits
<1>5. CargoIndex = 0 .. w - 1 /\ TritIndex = 0 .. WIDTH - 1
  BY DEF CargoIndex, TritIndex
<1>6. \A i \in CargoIndex : make_cargo(v)[i] = LowTrit(r[w - 1 - i])
  BY DEF make_cargo
<1> HIDE DEF r, w
<1>7. ASSUME NEW i \in CargoIndex PROVE make_cargo(v)[i] \in Trit
  <2>1. w - 1 - i \in 0 .. WIDTH
    BY <1>1, <1>5
  <2>2. r[w - 1 - i] \in Int
    BY <2>1, <1>2
  <2> QED BY <2>2, <1>6, LowTritSplits
<1>8. ASSUME NEW i \in TritIndex, i >= 9 PROVE make_cargo(v)[i - 9] = from_integer(v)[i]
  <2>1. i - 9 \in CargoIndex /\ w - 1 - (i - 9) = WIDTH - 1 - i
    BY <1>1, <1>5, <1>8
  <2> QED BY <2>1, <1>3, <1>6
<1>9. ASSUME CargoFits(v)
      PROVE  /\ \A i \in TritIndex : i < 9 => from_integer(v)[i] = 0
             /\ r[WIDTH] = 0
  <2> DEFINE S == {k \in 0 .. 9 : r[w + k] = 0}
  <2>1. 0 \in S
    BY <1>1, <1>4, <1>9
  <2>2. ASSUME NEW k \in 0 .. 9 - 1, k \in S PROVE k + 1 \in S
    <3>1. w + k \in 0 .. WIDTH - 1 /\ (w + k) + 1 = w + (k + 1) /\ k + 1 \in 0 .. 9
      BY <1>1
    <3>2. r[w + k] = 0
      BY <2>2
    <3>3. Shifted(0) = 0
      BY DEF Shifted
    <3> QED BY <1>2, <3>1, <3>2, <3>3
  <2>3. \A k \in S : r[w + k] = 0
    OBVIOUS
  <2> HIDE DEF S
  <2>4. 0 .. 9 \subseteq S
    BY <2>1, <2>2, UpTo
  <2>5. ASSUME NEW i \in TritIndex, i < 9 PROVE from_integer(v)[i] = 0
    <3> DEFINE k == 8 - i
    <3>1. k \in 0 .. 9 /\ w + k = WIDTH - 1 - i
      BY <1>1, <1>5, <2>5
    <3> HIDE DEF k
    <3>2. r[WIDTH - 1 - i] = 0
      BY <3>1, <2>3, <2>4
    <3>3. LowTrit(0) = 0
      BY DEF LowTrit
    <3> QED BY <3>2, <3>3, <1>3
  <2>6. 9 \in 0 .. 9 /\ w + 9 = WIDTH
    BY <1>1
  <2> QED BY <2>3, <2>4, <2>5, <2>6
<1> QED BY <1>1, <1>7, <1>8, <1>9 DEF r, w

\* An encoded instruction is a word, and its cargo decodes to the number it was made from.
LEMMA EncodeRoundTrip ==
    ASSUME NEW m \in Opcode, NEW rd \in Register, NEW rs1 \in Register, NEW rs2 \in Register,
           NEW v \in Int
    PROVE  /\ encode(m, rd, rs1, rs2, make_cargo(v)) \in Word
           /\ CargoFits(v) => decode(encode(m, rd, rs1, rs2, make_cargo(v))).immediate = v
<1> DEFINE c == make_cargo(v)
           head == OpcodeTrits(m) \o REGISTER_ENCODING[rd]
                       \o REGISTER_ENCODING[rs1] \o REGISTER_ENCODING[rs2]
           T == [i \in TritIndex |-> IF i < CARGO_OFFSET THEN head[i + 1] ELSE c[i - CARGO_OFFSET]]
           e == encode(m, rd, rs1, rs2, c)
<1>1. e = to_integer(T)
  BY DEF encode
<1>2. head \in Seq(Trit) /\ Len(head) = 9
  <2>1. \A reg \in Register : REGISTER_ENCODING[reg] \in Seq(Trit) /\ Len(REGISTER_ENCODING[reg]) = 2
    <3> TAKE reg \in Register
    <3> DEFINE a == (reg \div 3) - 1
               b == (reg % 3) - 1
    <3>1. a \in Trit /\ b \in Trit
      BY DEF Register, Trit
    <3>2. REGISTER_ENCODING[reg] = << a, b >>
      BY DEF REGISTER_ENCODING
    <3> HIDE DEF a, b
    <3> QED BY <3>1, <3>2
  <2>2. OpcodeTrits(m) \in Seq(Trit) /\ Len(OpcodeTrits(m)) = 3
    <3> DEFINE code == CHOOSE k \in 1 .. 27 : Mnemonics[k] = m
               n == code - 14
    <3>1. n \in Int
      <4>1. \E k \in 1 .. 27 : Mnemonics[k] = m
        BY DEF Opcode
      <4>2. code \in 1 .. 27
        BY <4>1
      <4> HIDE DEF code
      <4> QED BY <4>2
    <3>2. OpcodeTrits(m) = << LowTrit(Shifted(Shifted(n))), LowTrit(Shifted(n)), LowTrit(n) >>
      BY DEF OpcodeTrits
    <3> HIDE DEF n
    <3>3. LowTrit(n) \in Trit /\ Shifted(n) \in Int
      BY <3>1, LowTritSplits
    <3>4. LowTrit(Shifted(n)) \in Trit /\ Shifted(Shifted(n)) \in Int
      BY <3>3, LowTritSplits
    <3>5. LowTrit(Shifted(Shifted(n))) \in Trit
      BY <3>4, LowTritSplits
    <3> QED BY <3>2, <3>3, <3>4, <3>5
  <2> DEFINE o == OpcodeTrits(m)
             x == REGISTER_ENCODING[rd]
             y == REGISTER_ENCODING[rs1]
             z == REGISTER_ENCODING[rs2]
  <2>3. /\ o \in Seq(Trit) /\ Len(o) = 3 /\ x \in Seq(Trit) /\ Len(x) = 2
        /\ y \in Seq(Trit) /\ Len(y) = 2 /\ z \in Seq(Trit) /\ Len(z) = 2
    BY <2>1, <2>2
  <2> HIDE DEF o, x, y, z
  <2>4. o \o x \in Seq(Trit) /\ Len(o \o x) = 5
    <3>1. o \o x \in Seq(Trit) /\ Len(o \o x) = Len(o) + Len(x)
      BY <2>3, ConcatProperties
    <3> QED BY <3>1, <2>3
  <2>5. (o \o x) \o y \in Seq(Trit) /\ Len((o \o x) \o y) = 7
    BY <2>3, <2>4, ConcatProperties
  <2>6. ((o \o x) \o y) \o z \in Seq(Trit) /\ Len(((o \o x) \o y) \o z) = 9
    BY <2>3, <2>5, ConcatProperties
  <2> QED BY <2>6 DEF o, x, y, z
<1>3. /\ CARGO_OFFSET = 9 /\ CARGO_WIDTH \in Nat /\ WIDTH = 9 + CARGO_WIDTH
      /\ TritIndex = 0 .. WIDTH - 1 /\ CargoIndex = 0 .. CARGO_WIDTH - 1
  BY CargoTrits DEF CARGO_OFFSET, TritIndex, CargoIndex
<1>4. \A i \in CargoIndex : c[i] \in Trit
  BY CargoTrits
<1> HIDE DEF head, c
<1>5. T \in Trits
  <2>1. ASSUME NEW i \in TritIndex PROVE T[i] \in Trit
    <3>1. CASE i < 9
      <4>1. i + 1 \in 1 .. 9
        BY <1>3, <3>1
      <4>2. head[i + 1] \in Trit
        BY <4>1, <1>2, ElementOfSeq
      <4> QED BY <4>2, <3>1, <1>3
    <3>2. CASE i >= 9
      <4>1. i - 9 \in CargoIndex /\ ~(i < 9)
        BY <1>3, <3>2
      <4> QED BY <4>1, <1>3, <1>4
    <3> QED BY <3>1, <3>2, <1>3
  <2> QED BY <2>1 DEF Trits
<1>6. e \in Word
  BY <1>1, <1>5, ToIntegerIsWord
<1>7. ASSUME CargoFits(v) PROVE decode(e).immediate = v
  <2>1. from_integer(e) = T
    BY <1>1, <1>5, TritsRoundTrip
  <2>2. decode(e).immediate = immediate(T)
    BY <2>1 DEF decode
  <2> DEFINE U == [i \in TritIndex |-> IF i < CARGO_OFFSET THEN 0 ELSE T[i]]
  <2>3. from_integer(v) \in Trits
    BY FromIntegerIsTrits
  <2>4. U = from_integer(v)
    <3>1. \A i \in TritIndex : i >= 9 => c[i - 9] = from_integer(v)[i]
      BY <1>3, CargoTrits DEF c
    <3>2. \A i \in TritIndex : i < 9 => from_integer(v)[i] = 0
      BY <1>3, <1>7, CargoTrits
    <3>3. ASSUME NEW i \in TritIndex PROVE U[i] = from_integer(v)[i]
      <4>1. i < 9 \/ (i >= 9 /\ ~(i < 9))
        BY <1>3
      <4> QED BY <4>1, <3>1, <3>2, <1>3
    <3> QED BY <3>3, <2>3 DEF Trits
  <2>5. Remaining(v)[WIDTH] = 0
    BY <1>7, CargoTrits
  <2>6. immediate(T) = to_integer(from_integer(v))
    BY <2>4 DEF immediate
  <2> QED BY <2>2, <2>5, <2>6, DigitsSumUp
<1> QED BY <1>6, <1>7 DEF c

-----------------------------------------------------------------------------
(* The tables of the image. *)

\* The names NameOrder knows.
Listed(name) == \E k \in DOMAIN NameOrder : NameOrder[k] = name

\* The sorted names are these names, and a listed one is among them.
LEMMA SortedHas ==
    ASSUME NEW names, NEW wanted, Listed(wanted)
    PROVE  /\ IsSequence(Sorted(names))
           /\ \A k \in DOMAIN Sorted(names) : Sorted(names)[k] \in names
           /\ wanted \in names => \E k \in DOMAIN Sorted(names) : Sorted(names)[k] = wanted
<1> DEFINE R == {NameOrder[k] : k \in DOMAIN NameOrder}
           n == Len(NameOrder)
           V == Seq(R)
           turn == [k \in 0 .. n - 1 |->
                      [s \in V |-> IF NameOrder[k + 1] \in names THEN Append(s, NameOrder[k + 1]) ELSE s]]
           Eq(f) == f = [k \in 0 .. n |->
                           IF k = 0 THEN << >>
                           ELSE IF NameOrder[k] \in names THEN Append(f[k - 1], NameOrder[k])
                                                          ELSE f[k - 1]]
           p == CHOOSE f : Eq(f)
<1>1. NameOrder \in Seq(R)
  BY NameOrderAssumption
<1>2. /\ n \in Nat /\ DOMAIN NameOrder = 1 .. n
      /\ \A k \in 1 .. n : NameOrder[k] \in R
  <2> HIDE DEF R
  <2> QED BY <1>1
<1>3. PICK h \in 1 .. n : NameOrder[h] = wanted
  BY <1>2 DEF Listed
<1>4. Sorted(names) = p[n]
  BY DEF Sorted
<1> HIDE DEF R, n
<1>5. /\ \A k \in 0 .. n - 1 : \A s \in V : turn[k][s] \in V
      /\ \A k \in 0 .. n - 1 : \A s \in V :
            turn[k][s] = IF NameOrder[k + 1] \in names THEN Append(s, NameOrder[k + 1]) ELSE s
  <2>1. \A k \in 0 .. n - 1 : \A s \in V :
            turn[k][s] = IF NameOrder[k + 1] \in names THEN Append(s, NameOrder[k + 1]) ELSE s
    OBVIOUS
  <2>2. ASSUME NEW k \in 0 .. n - 1, NEW s \in V PROVE turn[k][s] \in V
    <3>1. k + 1 \in 1 .. n
      BY <1>2
    <3>2. NameOrder[k + 1] \in R
      BY <1>2, <3>1
    <3>3. Append(s, NameOrder[k + 1]) \in V
      BY <3>2
    <3> HIDE DEF turn, V
    <3> QED BY <2>1, <3>3
  <2> QED BY <2>1, <2>2
<1>6. << >> \in V
  BY EmptySeq
<1>7. PICK f : /\ f \in [0 .. n -> V] /\ f[0] = << >>
               /\ \A k \in 0 .. n - 1 : f[k + 1] = turn[k][f[k]]
  <2> HIDE DEF V, turn
  <2> DEFINE x == << >>
  <2>1. x \in V
    BY <1>6
  <2> HIDE DEF x
  <2>2. \E f : Trace(f, n, V, x, turn)
    BY <1>2, <1>5, <2>1, LoopTrace
  <2> QED BY <2>2 DEF Trace, x
<1> HIDE DEF turn, V
<1>8. \A k \in 0 .. n : k # 0 =>
          f[k] = IF NameOrder[k] \in names THEN Append(f[k - 1], NameOrder[k]) ELSE f[k - 1]
  <2> TAKE k \in 0 .. n
  <2> HAVE k # 0
  <2>1. k - 1 \in 0 .. n - 1 /\ k - 1 \in 0 .. n /\ (k - 1) + 1 = k
    BY <1>2
  <2>2. f[k - 1] \in V
    BY <1>7, <2>1
  <2>3. f[(k - 1) + 1] = turn[k - 1][f[k - 1]]
    BY <1>7, <2>1
  <2>4. turn[k - 1][f[k - 1]] =
            IF NameOrder[(k - 1) + 1] \in names THEN Append(f[k - 1], NameOrder[(k - 1) + 1]) ELSE f[k - 1]
    BY <1>5, <2>1, <2>2
  <2> QED BY <2>1, <2>3, <2>4
<1>9. Eq(f)
  <2>1. f = [k \in 0 .. n |-> f[k]]
    BY <1>7
  <2> QED BY <1>7, <1>8, <2>1
<1>10. Eq(p)
  <2> HIDE DEF Eq
  <2> QED BY <1>9
<1>11. /\ p[0] = << >>
       /\ \A k \in 0 .. n : k # 0 =>
             p[k] = IF NameOrder[k] \in names THEN Append(p[k - 1], NameOrder[k]) ELSE p[k - 1]
  <2> HIDE DEF p
  <2>1. 0 \in 0 .. n
    BY <1>2
  <2>2. \A k \in 0 .. n :
           p[k] = IF k = 0 THEN << >>
                  ELSE IF NameOrder[k] \in names THEN Append(p[k - 1], NameOrder[k]) ELSE p[k - 1]
    BY <1>10
  <2> QED BY <2>1, <2>2
<1> HIDE DEF p
<1> DEFINE Good(k) == /\ p[k] \in Seq(R) /\ \A j \in 1 .. Len(p[k]) : p[k][j] \in names
                      /\ h <= k /\ wanted \in names => \E j \in 1 .. Len(p[k]) : p[k][j] = wanted
           S == {k \in 0 .. n : Good(k)}
<1>12. 0 \in S
  <2>1. p[0] \in Seq(R) /\ Len(p[0]) = 0
    BY <1>11, EmptySeq
  <2>2. 0 \in 0 .. n /\ ~(h <= 0)
    BY <1>2
  <2> QED BY <2>1, <2>2
<1>13. ASSUME NEW k \in 0 .. n - 1, k \in S PROVE k + 1 \in S
  <2>1. k + 1 \in 0 .. n /\ k + 1 # 0 /\ (k + 1) - 1 = k /\ k + 1 \in 1 .. n
    BY <1>2
  <2> DEFINE e == NameOrder[k + 1]
             s == p[k]
  <2>2. p[k + 1] = IF e \in names THEN Append(s, e) ELSE s
    BY <1>11, <2>1
  <2>3. e \in R /\ s \in Seq(R) /\ Good(k)
    BY <1>2, <1>13, <2>1
  <2>4. h = k + 1 => e = wanted
    BY <1>3
  <2>5. \A j \in 1 .. Len(s) : s[j] \in names
    BY <2>3
  <2>6. h <= k /\ wanted \in names => \E j \in 1 .. Len(s) : s[j] = wanted
    BY <2>3
  <2>7. h <= k + 1 => h <= k \/ h = k + 1
    BY <1>2
  <2> HIDE DEF e, s, Good
  <2>8. CASE e \in names
    <3> DEFINE t == Append(s, e)
    <3>1. /\ t \in Seq(R) /\ Len(t) = Len(s) + 1 /\ t[Len(s) + 1] = e /\ Len(s) \in Nat
          /\ \A j \in 1 .. Len(s) : t[j] = s[j]
      BY <2>3
    <3>2. p[k + 1] = t
      BY <2>2, <2>8
    <3> HIDE DEF t
    <3>3. \A j \in 1 .. Len(t) : t[j] \in names
      <4>1. \A j \in 1 .. Len(t) : j \in 1 .. Len(s) \/ j = Len(s) + 1
        BY <3>1
      <4> QED BY <4>1, <3>1, <2>5, <2>8
    <3>4. h <= k + 1 /\ wanted \in names => \E j \in 1 .. Len(t) : t[j] = wanted
      <4>1. Len(s) + 1 \in 1 .. Len(t) /\ \A j \in 1 .. Len(s) : j \in 1 .. Len(t)
        BY <3>1
      <4> QED BY <4>1, <3>1, <2>4, <2>6, <2>7
    <3>5. Good(k + 1)
      BY <3>1, <3>2, <3>3, <3>4 DEF Good
    <3> QED BY <3>5, <2>1
  <2>9. CASE e \notin names
    <3>1. p[k + 1] = s
      BY <2>2, <2>9
    <3>2. h <= k + 1 /\ wanted \in names => \E j \in 1 .. Len(s) : s[j] = wanted
      BY <2>4, <2>6, <2>7, <2>9
    <3>3. Good(k + 1)
      BY <2>3, <2>5, <3>1, <3>2 DEF Good
    <3> QED BY <3>3, <2>1
  <2> QED BY <2>8, <2>9
<1>14. \A k \in S : Good(k)
  OBVIOUS
<1> HIDE DEF S, Good
<1>15. 0 .. n \subseteq S /\ n \in 0 .. n
  BY <1>2, <1>12, <1>13, UpTo
<1>16. Good(n)
  BY <1>14, <1>15
<1>17. IsSequence(Sorted(names)) /\ DOMAIN Sorted(names) = 1 .. Len(Sorted(names))
  <2>1. p[n] \in Seq(R)
    BY <1>16 DEF Good
  <2>2. IsSequence(p[n])
    BY <2>1, InSeq
  <2> QED BY <2>2, <1>4, SequenceFacts
<1>18. h <= n
  BY <1>2
<1> QED BY <1>4, <1>16, <1>17, <1>18 DEF Good

\* None of the listed names is lost, and the entry is listed.
LEMMA SortedFacts ==
    ASSUME NEW names
    PROVE  /\ IsSequence(Sorted(names))
           /\ \A k \in DOMAIN Sorted(names) : Sorted(names)[k] \in names
           /\ \A name \in names :
                 Listed(name) => \E k \in DOMAIN Sorted(names) : Sorted(names)[k] = name
           /\ "_start" \in names => \E k \in DOMAIN Sorted(names) : Sorted(names)[k] = "_start"
<1>1. Listed("_start")
  BY NameOrderAssumption DEF Listed
<1> QED BY <1>1, SortedHas

\* memory_size is the sum of the sizes: base plus it is the end of the last section.
LEMMA MemorySizeFacts ==
    ASSUME NEW b \in Int, NEW sz, SectionChain(b, sz, sections, 5), \A n \in DOMAIN sz : sz[n] \in Nat,
           Len(sections) > 0
    PROVE  /\ MemorySize \in Int
           /\ sections[Len(sections)].address + sections[Len(sections)].size = b + MemorySize
<1> DEFINE n == Len(sections)
           w == [k \in 1 .. n |-> sections[k].size]
           Eq(f) == f = [k \in 0 .. n |-> IF k = 0 THEN 0 ELSE f[k - 1] + sections[k].size]
           p == CHOOSE f : Eq(f)
<1>1. /\ n \in Nat /\ n > 0 /\ DOMAIN sections = 1 .. n
      /\ \A k \in 1 .. n : sections[k].address \in Word /\ sections[k].size \in Nat
  BY ChainTyped
<1>2. sections[1].address = b /\ \A k \in 1 .. n - 1 : sections[k].address + sections[k].size = sections[k + 1].address
  BY DEF SectionChain
<1>3. MemorySize = p[n]
  BY DEF MemorySize
<1> HIDE DEF n
<1>4. \A k \in 1 .. n : w[k] = sections[k].size
  OBVIOUS
<1> HIDE DEF w
<1>5. PICK f : Running(f, n, 0, w)
  <2>1. \A k \in 1 .. n : w[k] \in Nat
    BY <1>1, <1>4
  <2>2. \E f : Running(f, n, 0, w)
    <3>1. n \in Nat /\ 0 \in Int
      BY <1>1
    <3> QED BY <2>1, <3>1, RunningSum
  <2> QED BY <2>2
<1>6. f \in [0 .. n -> Int] /\ f[0] = 0 /\ \A k \in 1 .. n : f[k] = f[k - 1] + sections[k].size
  BY <1>4, <1>5 DEF Running
<1>7. Eq(f)
  <2>1. \A k \in 0 .. n : k # 0 => k \in 1 .. n
    BY <1>1
  <2> QED BY <1>6, <2>1
<1>8. Eq(p)
  <2> HIDE DEF Eq
  <2> QED BY <1>7
<1>9. p \in [0 .. n -> Int] /\ p[0] = 0 /\ \A k \in 1 .. n : p[k] = p[k - 1] + sections[k].size
  <2> HIDE DEF p
  <2>1. 0 \in 0 .. n /\ \A k \in 1 .. n : k \in 0 .. n /\ k # 0
    BY <1>1
  <2>2. \A k \in 0 .. n : p[k] = IF k = 0 THEN 0 ELSE p[k - 1] + sections[k].size
    BY <1>8
  <2>3. p[0] = 0 /\ \A k \in 1 .. n : p[k] = p[k - 1] + sections[k].size
    BY <2>1, <2>2
  <2> DEFINE S == {k \in 0 .. n : p[k] \in Int}
  <2>4. 0 \in S
    BY <2>1, <2>3
  <2>5. ASSUME NEW k \in 0 .. n - 1, k \in S PROVE k + 1 \in S
    <3>1. k + 1 \in 1 .. n /\ k + 1 \in 0 .. n /\ (k + 1) - 1 = k
      BY <1>1
    <3>2. p[k + 1] = p[k] + sections[k + 1].size /\ p[k] \in Int
      BY <2>3, <2>5, <3>1
    <3> QED BY <3>1, <3>2, <1>1
  <2> HIDE DEF S
  <2>6. 0 .. n \subseteq S
    BY <1>1, <2>4, <2>5, UpTo
  <2>7. \A k \in 0 .. n : p[k] \in Int
    BY <2>6 DEF S
  <2>8. p = [k \in 0 .. n |-> p[k]]
    BY <1>8
  <2> QED BY <2>3, <2>7, <2>8
<1> HIDE DEF p
<1> DEFINE S == {k \in 0 .. n : k > 0 => sections[k].address + sections[k].size = b + p[k]}
<1>10. 0 \in S
  BY <1>1
<1>11. ASSUME NEW k \in 0 .. n - 1, k \in S PROVE k + 1 \in S
  <2>1. k + 1 \in 1 .. n /\ k + 1 \in 0 .. n /\ (k + 1) - 1 = k /\ k \in 0 .. n
    BY <1>1
  <2>2. p[k + 1] = p[k] + sections[k + 1].size /\ p[k] \in Int
    BY <1>9, <2>1
  <2>3. sections[k + 1].address = b + p[k]
    <3>1. CASE k = 0
      BY <3>1, <1>2, <1>9
    <3>2. CASE k > 0
      <4>1. k \in 1 .. n - 1
        BY <3>2, <1>1
      <4> QED BY <4>1, <3>2, <1>2, <1>11
    <3> QED BY <3>1, <3>2
  <2>4. sections[k + 1].size \in Nat
    BY <2>1, <1>1
  <2> QED BY <2>1, <2>2, <2>3, <2>4
<1>12. \A k \in S : k > 0 => sections[k].address + sections[k].size = b + p[k]
  OBVIOUS
<1> HIDE DEF S
<1>13. n \in S /\ n \in 0 .. n
  <2>1. 0 .. n \subseteq S
    BY <1>1, <1>10, <1>11, UpTo
  <2> QED BY <2>1, <1>1
<1> QED BY <1>1, <1>3, <1>9, <1>12, <1>13 DEF n

\* The file offsets: the first payload is behind the tables, each other one behind its
\* predecessor.
LEMMA FileCursorFacts ==
    ASSUME NEW x, NEW n \in Nat, DOMAIN x.sections = 1 .. n, PayloadAt(x) \in Int,
           NEW w, w = [k \in 1 .. n |-> Len(Payload(x, x.sections[k].type))],
           \A k \in 1 .. n : w[k] \in Nat
    PROVE  /\ \A k \in 1 .. n : FileCursor(x)[k] \in Int /\ FileCursor(x)[k] >= PayloadAt(x)
           /\ \A j, k \in 1 .. n : j < k => FileCursor(x)[j] + w[j] <= FileCursor(x)[k]
<1> DEFINE a == PayloadAt(x)
           Eq(f) == f = [k \in 1 .. n |-> IF k = 1 THEN a
                                          ELSE f[k - 1] + Len(Payload(x, x.sections[k - 1].type))]
           c == FileCursor(x)
<1>0. \A k \in 1 .. n : w[k] = Len(Payload(x, x.sections[k].type))
  OBVIOUS
<1>1. PICK g : Running(g, n, a, w)
  BY RunningSum
<1> DEFINE f == [k \in 1 .. n |-> g[k - 1]]
<1>2. Eq(f)
  <2>1. g[0] = a /\ \A k \in 1 .. n : g[k] = g[k - 1] + w[k]
    BY <1>1 DEF Running
  <2>2. ASSUME NEW k \in 1 .. n, k # 1
        PROVE  g[k - 1] = f[k - 1] + Len(Payload(x, x.sections[k - 1].type))
    <3>1. k - 1 \in 1 .. n
      BY <2>2
    <3>2. f[k - 1] = g[(k - 1) - 1]
      BY <3>1
    <3>3. g[k - 1] = g[(k - 1) - 1] + w[k - 1]
      BY <2>1, <3>1
    <3> QED BY <1>0, <3>1, <3>2, <3>3
  <2>3. \A k \in 1 .. n : f[k] = IF k = 1 THEN a
                                 ELSE f[k - 1] + Len(Payload(x, x.sections[k - 1].type))
    <3> TAKE k \in 1 .. n
    <3>1. f[k] = g[k - 1]
      OBVIOUS
    <3>2. k = 1 => k - 1 = 0
      OBVIOUS
    <3> HIDE DEF f
    <3> QED BY <3>1, <3>2, <2>1, <2>2
  <2>4. f = [k \in 1 .. n |-> f[k]]
    OBVIOUS
  <2> HIDE DEF f
  <2> QED BY <2>3, <2>4
<1>3. Eq(c)
  <2>1. Eq(CHOOSE h : Eq(h))
    <3> HIDE DEF Eq
    <3> QED BY <1>2
  <2>2. c = CHOOSE h : Eq(h)
    BY DEF FileCursor
  <2> HIDE DEF c, Eq
  <2> QED BY <2>1, <2>2
<1> HIDE DEF a, c
<1>4. \A k \in 1 .. n : c[k] = IF k = 1 THEN a ELSE c[k - 1] + Len(Payload(x, x.sections[k - 1].type))
  BY <1>3
<1>5. ASSUME NEW k \in 1 .. n, k # 1 PROVE c[k] = c[k - 1] + w[k - 1]
  <2>1. k - 1 \in 1 .. n
    BY <1>5
  <2> QED BY <2>1, <1>0, <1>4, <1>5
<1> HIDE DEF Eq
<1> DEFINE Good(k) == /\ c[k] \in Int /\ c[k] >= a
                      /\ \A j \in 1 .. n : j < k => c[j] \in Int /\ c[j] + w[j] <= c[k]
           S == {k \in 0 .. n : k > 0 => Good(k)}
<1>6. 0 \in S
  OBVIOUS
<1>7. ASSUME NEW k \in 0 .. n - 1, k \in S PROVE k + 1 \in S
  <2>1. k + 1 \in 1 .. n /\ k + 1 \in 0 .. n /\ (k + 1) - 1 = k
    OBVIOUS
  <2>2. CASE k = 0
    <3>1. c[1] = a /\ a \in Int
      <4>1. 1 \in 1 .. n
        BY <2>1, <2>2
      <4>2. c[1] = a
        BY <4>1, <1>4
      <4> QED BY <4>2 DEF a
    <3>2. \A j \in 1 .. n : ~(j < 1)
      OBVIOUS
    <3> QED BY <2>1, <2>2, <3>1, <3>2
  <2>3. CASE k > 0
    <3>1. k \in 1 .. n /\ Good(k)
      BY <2>3, <1>7
    <3>2. c[k + 1] = c[k] + w[k] /\ w[k] \in Nat /\ a \in Int
      <4>1. k + 1 # 1
        BY <2>3
      <4>2. c[k + 1] = c[(k + 1) - 1] + w[(k + 1) - 1]
        BY <4>1, <2>1, <1>5
      <4>3. w[k] \in Nat
        BY <3>1
      <4> QED BY <4>2, <4>3, <2>1 DEF a
    <3>3. ASSUME NEW j \in 1 .. n, j < k + 1 PROVE c[j] \in Int /\ c[j] + w[j] <= c[k + 1]
      <4>1. CASE j = k
        BY <4>1, <3>1, <3>2
      <4>2. CASE j # k
        <5>1. j < k
          BY <3>3, <4>2
        <5>2. c[j] + w[j] <= c[k] /\ w[j] \in Nat /\ c[j] \in Int
          BY <3>1, <5>1
        <5> QED BY <3>1, <3>2, <5>2
      <4> QED BY <4>1, <4>2
    <3>4. Good(k + 1)
      BY <3>1, <3>2, <3>3
    <3> HIDE DEF Good
    <3> QED BY <3>4, <2>1
  <2>4. k = 0 \/ k > 0
    OBVIOUS
  <2> HIDE DEF S
  <2> QED BY <2>2, <2>3, <2>4
<1>8. \A k \in S : k > 0 => Good(k)
  OBVIOUS
<1> HIDE DEF S, Good
<1>9. 0 .. n \subseteq S
  BY <1>6, <1>7, UpTo
<1>10. \A k \in 1 .. n : Good(k)
  <2>1. \A k \in 1 .. n : k \in 0 .. n /\ k > 0
    OBVIOUS
  <2> QED BY <2>1, <1>8, <1>9
<1>11. \A k \in 1 .. n : c[k] \in Int /\ c[k] >= a /\ \A j \in 1 .. n : j < k => c[j] \in Int /\ c[j] + w[j] <= c[k]
  BY <1>10 DEF Good
<1> QED BY <1>11 DEF a, c

ImageFields == {"header", "sections", "symbols", "text", "data", "rodata", "bss_size", "laid_out"}
HeaderKeys  == DOMAIN NewHeader

\* The fields of the header that are assigned.
LEMMA HeaderHas ==
    {"architecture_id", "isa_version", "format_version", "memory_base", "memory_size", "entry_point",
     "start_symbol", "symbol_table", "symbol_count", "section_table", "section_count", "text_address",
     "data_address", "rodata_address", "bss_address"} \subseteq HeaderKeys
  BY DEF HeaderKeys, NewHeader

\* The image before it is filled.
LEMMA EmptyImageFacts ==
    /\ DOMAIN EmptyImage = ImageFields /\ DOMAIN EmptyImage.header = HeaderKeys
    /\ EmptyImage.text = << >> /\ EmptyImage.data = << >> /\ EmptyImage.rodata = << >>
    /\ EmptyImage.bss_size = 0 /\ EmptyImage.laid_out = FALSE
    /\ EmptyImage.header = NewHeader
<1> DEFINE h == NewHeader
<1> HIDE DEF h
<1>1. EmptyImage = [header |-> h, sections |-> << >>, symbols |-> << >>, text |-> << >>,
                    data |-> << >>, rodata |-> << >>, bss_size |-> 0, laid_out |-> FALSE]
  BY DEF EmptyImage, h
<1>2. /\ DOMAIN EmptyImage = ImageFields /\ EmptyImage.header = h
      /\ EmptyImage.text = << >> /\ EmptyImage.data = << >> /\ EmptyImage.rodata = << >>
      /\ EmptyImage.bss_size = 0 /\ EmptyImage.laid_out = FALSE
  BY <1>1 DEF ImageFields
<1> QED BY <1>2 DEF h, HeaderKeys

\* The fields of a new header are numbers, its versions 1.
LEMMA NewHeaderFacts ==
    /\ NewHeader \in [HeaderKeys -> Int]
    /\ NewHeader.architecture_id = 1 /\ NewHeader.isa_version = 1 /\ NewHeader.format_version = 1
  BY DEF HeaderKeys, NewHeader, HeaderWords

\* What layout keeps of an image and what it fills in.
Arranged(x, z) ==
    /\ z.header.memory_base = x.header.memory_base
    /\ z.header.memory_size = x.header.memory_size
    /\ z.header.entry_point = x.header.entry_point
    /\ z.header.start_symbol = x.header.start_symbol
    /\ z.header.symbol_table = SymbolTableAt(x) /\ z.header.symbol_count = Len(x.symbols)
    /\ z.header.architecture_id = x.header.architecture_id
    /\ z.header.isa_version = x.header.isa_version
    /\ z.header.format_version = x.header.format_version
    /\ z.symbols = x.symbols /\ z.text = x.text
    /\ z.data = x.data /\ z.rodata = x.rodata /\ z.bss_size = x.bss_size
    /\ DOMAIN z.sections = DOMAIN x.sections
    /\ \A k \in DOMAIN x.sections :
          z.sections[k] = [x.sections[k] EXCEPT
                             !.file_offset = IF x.sections[k].type = "bss" THEN 0 ELSE FileCursor(x)[k],
                             !.size = SizeOf(x, x.sections[k].type)]

\* layout arranges.
LEMMA LayoutFacts ==
    ASSUME NEW x, DOMAIN x = ImageFields, DOMAIN x.header = HeaderKeys, NEW z, z = layout(x)
    PROVE  Arranged(x, z)
<1> DEFINE h == [x.header EXCEPT !.section_table = HeaderWords, !.section_count = Len(x.sections),
                                 !.symbol_table = SymbolTableAt(x), !.symbol_count = Len(x.symbols)]
           s == [k \in DOMAIN x.sections |->
                   [x.sections[k] EXCEPT
                      !.file_offset = IF x.sections[k].type = "bss" THEN 0 ELSE FileCursor(x)[k],
                      !.size = SizeOf(x, x.sections[k].type)]]
<1>1. z = [x EXCEPT !.header = h, !.sections = s, !.laid_out = TRUE]
  BY DEF layout
<1>2. /\ h.memory_base = x.header.memory_base /\ h.memory_size = x.header.memory_size
      /\ h.entry_point = x.header.entry_point /\ h.start_symbol = x.header.start_symbol
      /\ h.symbol_table = SymbolTableAt(x) /\ h.symbol_count = Len(x.symbols)
      /\ h.architecture_id = x.header.architecture_id
      /\ h.isa_version = x.header.isa_version /\ h.format_version = x.header.format_version
  <2> DEFINE y == x.header
             a == HeaderWords
             b == Len(x.sections)
             c == SymbolTableAt(x)
             d == Len(x.symbols)
  <2>1. DOMAIN y = HeaderKeys
    OBVIOUS
  <2>2. h = [y EXCEPT !.section_table = a, !.section_count = b, !.symbol_table = c, !.symbol_count = d]
    OBVIOUS
  <2> HIDE DEF h, y, a, b, c, d
  <2>3. /\ h.memory_base = y.memory_base /\ h.memory_size = y.memory_size
        /\ h.entry_point = y.entry_point /\ h.start_symbol = y.start_symbol
        /\ h.symbol_table = c /\ h.symbol_count = d
        /\ h.architecture_id = y.architecture_id /\ h.isa_version = y.isa_version
        /\ h.format_version = y.format_version
    BY <2>1, <2>2, HeaderHas
  <2> QED BY <2>3 DEF y, c, d
<1>3. /\ DOMAIN s = DOMAIN x.sections
      /\ \A k \in DOMAIN x.sections :
                 s[k] = [x.sections[k] EXCEPT
                           !.file_offset = IF x.sections[k].type = "bss" THEN 0 ELSE FileCursor(x)[k],
                           !.size = SizeOf(x, x.sections[k].type)]
  OBVIOUS
<1> HIDE DEF h, s
<1>4. /\ z.header = h /\ z.sections = s /\ z.symbols = x.symbols /\ z.text = x.text
      /\ z.data = x.data /\ z.rodata = x.rodata /\ z.bss_size = x.bss_size
  BY <1>1 DEF ImageFields
<1> QED BY <1>2, <1>3, <1>4 DEF Arranged

\* The words t of .text behind the statements of p in front of i, with these addresses and
\* this origin; a branch is right where .text is opened once.
TextOf(p, t, i, addr, origin, once) ==
    /\ IsSequence(t) /\ Len(t) = Counted(p, "text", i)
    /\ \A k \in 1 .. Len(t) : t[k] \in Word
    /\ \A j \in Before(p, "instruction", i) : SectionIn(p, j) = "text"
    /\ once => \A j \in Before(p, "instruction", i) :
                  p[j].mnemonic \in Branches =>
                      decode(t[Counted(p, "text", j) + 1]).immediate
                          = addr[p[j].operands[1].name] - (origin + Counted(p, "text", j))

TextUpTo(i) == TextOf(program, image.text, i, addresses, section("text").address, ~Reopened("text"))

FileEntry(s) ==
    [type |-> s.name, flags |-> format_section_flags[s.name], file_offset |-> 0, size |-> 0,
     alignment |-> 1, virtual_address |-> s.address]

\* What populate and the encode loop leave of a new image.
AsNew ==
    /\ image = [field \in ImageFields |-> image[field]] /\ image.header \in [HeaderKeys -> Int]
    /\ image.header.architecture_id = 1 /\ image.header.isa_version = 1
    /\ image.header.format_version = 1
    /\ image.bss_size = 0 /\ image.laid_out = FALSE

\* The tables populate fills.
Tables ==
    /\ DOMAIN image = ImageFields /\ DOMAIN image.header = HeaderKeys
    /\ "_start" \in DOMAIN symbols
    /\ image.header.memory_base = base /\ image.header.memory_size \in Int
    /\ sections[Len(sections)].address + sections[Len(sections)].size
           = base + image.header.memory_size
    /\ image.header.entry_point = addresses["_start"]
    /\ image.header.start_symbol = StartSymbol
    /\ image.sections = [k \in DOMAIN sections |-> FileEntry(sections[k])]
    /\ image.symbols = [k \in DOMAIN Ordered |-> SymbolEntry(k - 1)]
    /\ image.data = << >> /\ image.rodata = << >>
    /\ AsNew

ImageInv ==
    /\ pass \notin {"encode", "done"} => image = EmptyImage
    /\ pass = "encode" =>
          /\ Tables /\ TextUpTo(cursor.at)
          /\ ~Reopened("text") /\ cursor.section = "text" =>
                 cursor.offset = Counted(program, "text", cursor.at)
    /\ \A k \in DOMAIN image.text : image.text[k] \in Word

\* No word is there for no statement.
LEMMA TextFirst ==
    \A p, addr, origin, once : TextOf(p, << >>, 1, addr, origin, once)
<1>1. << >> \in Seq({0}) /\ Len(<< >>) = 0
  OBVIOUS
<1>2. IsSequence(<< >>)
  BY <1>1, InSeq
<1> QED BY <1>1, <1>2, BeforeFirst, CountFirst DEF TextOf

\* A statement that is no instruction adds no word.
LEMMA TextPass ==
    ASSUME NEW p, NEW t, NEW i \in Nat \ {0}, NEW addr, NEW origin, NEW once,
           TextOf(p, t, i, addr, origin, once), p[i].kind # "instruction"
    PROVE  TextOf(p, t, i + 1, addr, origin, once)
<1>1. Counted(p, "text", i + 1) = Counted(p, "text", i)
  BY CountNext
<1>2. Before(p, "instruction", i + 1) = Before(p, "instruction", i)
  BY BeforeNext
<1> QED BY <1>1, <1>2 DEF TextOf

\* An instruction of .text adds one.
LEMMA TextAppend ==
    ASSUME NEW p, NEW t, NEW i \in Nat \ {0}, NEW addr, NEW origin, NEW once,
           TextOf(p, t, i, addr, origin, once), p[i].kind = "instruction", SectionIn(p, i) = "text",
           NEW w \in Word,
           once /\ p[i].mnemonic \in Branches =>
               decode(w).immediate = addr[p[i].operands[1].name] - (origin + Counted(p, "text", i))
    PROVE  TextOf(p, Append(t, w), i + 1, addr, origin, once)
<1> DEFINE u == Append(t, w)
           n == Len(t)
           Right(q, j) == p[j].mnemonic \in Branches =>
                              decode(q[Counted(p, "text", j) + 1]).immediate
                                  = addr[p[j].operands[1].name] - (origin + Counted(p, "text", j))
<1>1. Counted(p, "text", i + 1) = Counted(p, "text", i) + 1
  BY CountNext
<1>2. Before(p, "instruction", i + 1) = Before(p, "instruction", i) \cup {i}
  BY BeforeNext
<1>3. IsSequence(t) /\ n = Counted(p, "text", i) /\ \A k \in 1 .. n : t[k] \in Word
  BY DEF TextOf
<1>4. /\ IsSequence(u) /\ Len(u) = n + 1 /\ n \in Nat /\ u[n + 1] = w
      /\ \A k \in 1 .. n : u[k] = t[k]
  <2>1. IsSequence(t)
    BY <1>3
  <2>2. Len(t) \in Nat /\ IsSequence(Append(t, w))
    BY <2>1, SequenceFacts
  <2>3. Len(Append(t, w)) = Len(t) + 1 /\ Append(t, w)[Len(t) + 1] = w
    BY <2>1, SequenceFacts
  <2>4. \A k \in 1 .. Len(t) : Append(t, w)[k] = t[k]
    BY <2>1, SequenceFacts
  <2> QED BY <2>2, <2>3, <2>4
<1> HIDE DEF u, n
<1>5. \A k \in 1 .. Len(u) : u[k] \in Word
  <2>1. \A k \in 1 .. Len(u) : k \in 1 .. n \/ k = n + 1
    BY <1>4
  <2> QED BY <2>1, <1>3, <1>4
<1>6. ASSUME once, NEW j \in Before(p, "instruction", i) \cup {i} PROVE Right(u, j)
  <2>1. CASE j = i
    <3>1. u[Counted(p, "text", j) + 1] = w
      BY <2>1, <1>3, <1>4
    <3> QED BY <3>1, <2>1, <1>6
  <2>2. CASE j # i
    <3>1. j \in Before(p, "instruction", i) /\ j \in Nat \ {0} /\ j + 1 <= i /\ p[j].kind = "instruction"
      BY <2>2 DEF Before
    <3>2. SectionIn(p, j) = "text" /\ Right(t, j)
      BY <3>1, <1>6 DEF TextOf
    <3>3. Counted(p, "text", j + 1) = Counted(p, "text", j) + 1 /\ Counted(p, "text", j) \in Nat
      BY <3>1, <3>2, CountNext, InstructionsFinite
    <3>4. Counted(p, "text", j + 1) <= Counted(p, "text", i)
      <4>1. j + 1 \in Nat
        BY <3>1
      <4> QED BY <4>1, <3>1, CountGrows
    <3>5. Counted(p, "text", j) + 1 \in 1 .. n
      BY <3>3, <3>4, <1>3, <1>4
    <3>6. u[Counted(p, "text", j) + 1] = t[Counted(p, "text", j) + 1]
      BY <3>5, <1>4
    <3> QED BY <3>2, <3>6
  <2> QED BY <2>1, <2>2
<1>7. \A j \in Before(p, "instruction", i) \cup {i} : SectionIn(p, j) = "text"
  BY DEF TextOf
<1>8. TextOf(p, u, i + 1, addr, origin, once)
  BY <1>1, <1>2, <1>3, <1>4, <1>5, <1>6, <1>7 DEF TextOf
<1> QED BY <1>8 DEF u

\* Where a statement is in .text, .text has an address.
LEMMA TextIsPlaced ==
    ASSUME ProgramInv, LayoutInv, LaidOut, NEW i \in 1 .. Len(program) + 1, SectionIn(program, i) = "text"
    PROVE  section("text").address \in Word
<1>1. AllSizes /\ SectionChain(base, sizes, sections, 5)
  BY DEF LayoutInv
<1>2. i \in Nat \ {0} /\ Len(program) + 1 \in Nat /\ i <= Len(program) + 1
  BY SequenceFacts DEF ProgramInv
<1>3. "text" \in NamesBefore(program, "section", i)
  <2>1. "text" # NoSection
    BY DEF NoSection
  <2> QED BY <1>2, <2>1, SectionIsNamed
<1>4. "text" \in DOMAIN sizes /\ DOMAIN sizes \subseteq SectionNames
  BY <1>1, <1>2, <1>3, NamesGrow DEF AllSizes, Sizes
<1> QED BY <1>1, <1>4, EverySectionIsPlaced DEF IsPlaced

\* The target of a branch has an address.
LEMMA TargetHasAddress ==
    ASSUME ProgramInv, TableInv, LayoutInv, LaidOut, NEW i \in 1 .. Len(program),
           program[i].kind = "instruction", program[i].mnemonic \in Branches
    PROVE  addresses[program[i].operands[1].name] \in Word
<1> DEFINE s == program[i]
           o == s.operands
<1>1. DOMAIN program = 1 .. Len(program)
  BY SequenceFacts DEF ProgramInv
<1>2. IsStatement(s) /\ analyze(s) /\ s.kind = "instruction" /\ s.mnemonic \in Branches
  BY <1>1 DEF ProgramInv, Analysed, LaidOut
<1>3. IsOperands(o) /\ Len(o) = 1 /\ o[1].kind = "symbol"
  BY <1>2, OperandKinds
<1>4. o[1] \in References(s)
  <2>1. DOMAIN o = 1 .. 1
    BY <1>3, SequenceFacts DEF IsOperands
  <2> QED BY <2>1, <1>2, <1>3 DEF References
<1>5. ~Unresolved
  BY DEF TableInv, Tabled, LaidOut
<1>6. o[1].name \in DOMAIN symbols
  BY <1>1, <1>4, <1>5 DEF Unresolved
<1>7. DOMAIN addresses = DOMAIN symbols /\ \A name \in DOMAIN addresses : addresses[name] \in Word
  BY DEF LayoutInv, LaidOut
<1> QED BY <1>6, <1>7

\* The word the encoder makes of the statement the loop is at.
LEMMA EncodedWord ==
    ASSUME ProgramInv, TableInv, LayoutInv, At("encode", "instruction"), cursor.section = "text",
           Encodable(Here.mnemonic, ResolvedOperands)
    PROVE  /\ encode_instruction(Here.mnemonic, ResolvedOperands) \in Word
           /\ Here.mnemonic \in Branches =>
                 decode(encode_instruction(Here.mnemonic, ResolvedOperands)).immediate
                     = Displacement(Here.operands[1].name)
<1> DEFINE m == Here.mnemonic
           o == ResolvedOperands
           f == FieldsOf(m, o)
           w == encode_instruction(m, o)
           target == Here.operands[1].name
           d == Displacement(target)
<1>1. /\ pass = "encode" /\ cursor.at \in 1 .. Len(program) /\ Here = program[cursor.at]
      /\ Here.kind = "instruction" /\ Len(program) \in Nat /\ DOMAIN program = 1 .. Len(program)
  <2>1. Len(program) \in Nat /\ DOMAIN program = 1 .. Len(program)
    BY SequenceFacts DEF ProgramInv
  <2> QED BY <2>1 DEF At, Here, ProgramInv
<1>2. IsStatement(Here) /\ analyze(Here)
  BY <1>1 DEF ProgramInv, Analysed
<1>3. m \in Mnemonic
  BY <1>1, <1>2, OperandKinds
<1>4. ASSUME m \in Branches PROVE d \in Int /\ o = << Imm(d) >>
  <2>1. LaidOut
    BY <1>1 DEF LaidOut
  <2>2. IsOperands(Here.operands) /\ Len(Here.operands) = 1
    BY <1>1, <1>2, <1>4, OperandKinds
  <2>3. addresses[target] \in Word
    BY <1>1, <1>4, <2>1, TargetHasAddress
  <2>4. section("text").address \in Word
    <3>1. SectionIn(program, cursor.at) = "text" /\ cursor.at \in 1 .. Len(program) + 1
      BY <1>1 DEF TableInv
    <3> QED BY <2>1, <3>1, TextIsPlaced
  <2>5. d = addresses[target] - (section("text").address + cursor.offset) /\ cursor.offset \in Nat
    BY DEF Displacement, ProgramInv
  <2>6. d \in Int
    <3> DEFINE a == addresses[target]
               b == section("text").address
               c == cursor.offset
    <3>1. a \in Int /\ b \in Int /\ c \in Nat /\ d = a - (b + c)
      BY <2>3, <2>4, <2>5, MaxValue DEF Word
    <3> HIDE DEF a, b, c, d
    <3> QED BY <3>1
  <2>7. o = << Imm(d) >>
    BY <1>4 DEF ResolvedOperands
  <2> QED BY <2>6, <2>7
<1>5. m \notin Branches => o = Here.operands
  BY DEF ResolvedOperands
<1> HIDE DEF d
<1>6. f.rd \in Register /\ f.rs1 \in Register /\ f.rs2 \in Register /\ f.cargo \in Int
  <2>1. m \in Branches => \E n \in Int : o = << Imm(n) >>
    BY <1>4
  <2> DEFINE h == Here
  <2>2. IsStatement(h) /\ h.kind = "instruction" /\ analyze(h) /\ m = h.mnemonic
        /\ (m \notin Branches => o = h.operands)
    BY <1>1, <1>2, <1>5
  <2> HIDE DEF h, m, o
  <2> QED BY <2>1, <2>2, FieldsTyped
<1>7. w = encode(m, f.rd, f.rs1, f.rs2, make_cargo(f.cargo)) /\ CargoFits(f.cargo)
  BY DEF encode_instruction, Encodable
<1>8. m \in Opcode
  BY <1>3, MnemonicsAreOpcodes
<1>9. m \in Branches => f.cargo = d
  <2> SUFFICES ASSUME m \in Branches PROVE f.cargo = d
    OBVIOUS
  <2>1. o[1].value = d
    BY <1>4 DEF Imm
  <2>2. FieldsOf(m, o) = Fields(0, 0, 0, d)
    <3> HIDE DEF o, m
    <3> QED BY <2>1 DEF FieldsOf, ZeroOperand, ThreeRegister, TwoRegister, InOut, Branches
  <2> QED BY <2>2 DEF Fields
<1> HIDE DEF m, o, f, w
<1>10. w \in Word /\ decode(w).immediate = f.cargo
  BY <1>6, <1>7, <1>8, EncodeRoundTrip
<1> QED BY <1>9, <1>10 DEF m, o, w, d

\* The image at the start.
LEMMA ImageInvInit == Init => ImageInv
<1> SUFFICES ASSUME Init PROVE ImageInv
  OBVIOUS
<1>1. image = EmptyImage /\ pass = "lex"
  BY DEF Init
<1>2. DOMAIN image.text = {}
  BY <1>1, EmptyImageFacts
<1> QED BY <1>1, <1>2 DEF ImageInv

\* The start symbol is the place of the entry in the table.
LEMMA StartIsEntry ==
    ASSUME "_start" \in DOMAIN symbols
    PROVE  /\ StartSymbol \in Int /\ StartSymbol + 1 \in DOMAIN Ordered
           /\ Ordered[StartSymbol + 1] = "_start" /\ DOMAIN Ordered = 1 .. Len(Ordered)
<1> DEFINE c == CHOOSE k \in DOMAIN Ordered : Ordered[k] = "_start"
<1>1. c \in DOMAIN Ordered /\ Ordered[c] = "_start"
  <2>1. \E k \in DOMAIN Ordered : Ordered[k] = "_start"
    BY SortedFacts DEF Ordered
  <2> QED BY <2>1
<1>2. StartSymbol = c - 1
  BY DEF StartSymbol
<1>3. DOMAIN Ordered = 1 .. Len(Ordered)
  BY SortedFacts, SequenceFacts DEF Ordered
<1> HIDE DEF c
<1>4. c \in Int /\ (c - 1) + 1 = c
  BY <1>1, <1>3
<1> QED BY <1>1, <1>2, <1>3, <1>4

\* The addresses populate puts into the header are numbers.
LEMMA AddressOfTyped ==
    ASSUME LayoutInv, LaidOut
    PROVE  \A name : AddressOf(name) \in Int
<1> SUFFICES ASSUME NEW name, Placed(name) PROVE AddressOf(name) \in Int
  BY DEF AddressOf
<1> DEFINE c == CHOOSE k \in DOMAIN sections : sections[k].name = name
<1>1. c \in DOMAIN sections
  BY DEF Placed
<1>2. section(name) = sections[(c - 1) + 1]
  BY DEF section, section_index
<1>3. DOMAIN sections = 1 .. Len(sections)
  BY SequenceFacts DEF LayoutInv, LaidOut, SectionChain
<1>4. \A k \in DOMAIN sections : sections[k].address \in Word
  BY DEF LayoutInv
<1> HIDE DEF c
<1>5. (c - 1) + 1 = c
  BY <1>1, <1>3
<1>6. section(name).address \in Int
  BY <1>1, <1>2, <1>4, <1>5, MaxValue DEF Word
<1> QED BY <1>6 DEF AddressOf

\* populate fills the tables.
LEMMA PopulateStep ==
    ASSUME ProgramInv, TableInv, LayoutInv, ImageInv, Populate, Begin("encode")
    PROVE  ImageInv'
<1>1. pass = "populate" /\ image = EmptyImage /\ "_start" \in DOMAIN addresses
  BY DEF Populate, ImageInv, Begin, Throw
<1>2. UNCHANGED << base, program, symbols, addresses, sections >> /\ pass' = "encode" /\ cursor' = Start
  BY DEF Populate, Begin, Throw, arguments, parsed, table, placement
<1>3. /\ AllSizes /\ SectionChain(base, sizes, sections, 5)
      /\ addresses = [name \in DOMAIN symbols |-> SymbolAddress(name)]
      /\ TableUpTo(Len(program) + 1)
  BY <1>1 DEF LayoutInv, LaidOut, TableInv, Tabled
<1>4. "_start" \in DOMAIN symbols
  BY <1>1, <1>3
<1>5. Len(program) + 1 \in Nat
  BY SequenceFacts DEF ProgramInv
<1>6. \A n \in DOMAIN sizes : sizes[n] \in Nat
  BY <1>3, <1>5, SizesAreCounts DEF AllSizes
<1>7. Len(sections) > 0 /\ DOMAIN sections = 1 .. Len(sections)
  <2>1. symbols["_start"].section \in DOMAIN sizes
    BY <1>3, <1>4, SymbolAddressTyped
  <2>2. DOMAIN sizes \subseteq SectionNames
    BY <1>3 DEF AllSizes, Sizes
  <2>3. section_index(symbols["_start"].section) + 1 \in DOMAIN sections
    BY <1>3, <2>1, <2>2, EverySectionIsPlaced
  <2>4. DOMAIN sections = 1 .. Len(sections) /\ Len(sections) \in Nat
    BY <1>3, <1>6, ChainTyped
  <2> QED BY <2>3, <2>4
<1> DEFINE m == MemorySize
           e == addresses["_start"]
           f == StartSymbol
           S == [k \in DOMAIN sections |-> FileEntry(sections[k])]
           Y == [k \in DOMAIN Ordered |-> SymbolEntry(k - 1)]
<1>8. m \in Int /\ sections[Len(sections)].address + sections[Len(sections)].size = base + m
  <2>1. base \in Int
    BY MaxValue DEF ProgramInv, Word
  <2> QED BY <2>1, <1>3, <1>6, <1>7, MemorySizeFacts
<1> DEFINE a1 == AddressOf("text")
           a2 == AddressOf("data")
           a3 == AddressOf("rodata")
           a4 == AddressOf("bss")
           x == image
           h == x.header
           H == [h EXCEPT !.memory_base = base, !.memory_size = m, !.entry_point = e,
                          !.start_symbol = f, !.text_address = a1, !.data_address = a2,
                          !.rodata_address = a3, !.bss_address = a4]
<1>9. image' = [x EXCEPT !.header = H, !.sections = S, !.symbols = Y]
  BY <1>1 DEF Populate, FileEntry, Throw, Begin
<1>10. /\ DOMAIN x = ImageFields /\ DOMAIN h = HeaderKeys
       /\ x.text = << >> /\ x.data = << >> /\ x.rodata = << >>
       /\ x.bss_size = 0 /\ x.laid_out = FALSE
  BY <1>1, EmptyImageFacts
<1>19. /\ h \in [HeaderKeys -> Int]
       /\ h.architecture_id = 1 /\ h.isa_version = 1 /\ h.format_version = 1
  BY <1>1, EmptyImageFacts, NewHeaderFacts
<1>20. base \in Int /\ e \in Int /\ f \in Int /\ a1 \in Int /\ a2 \in Int /\ a3 \in Int /\ a4 \in Int
  <2>1. e \in Word
    BY <1>1 DEF LayoutInv
  <2>2. LaidOut
    BY <1>1 DEF LaidOut
  <2> QED BY <1>4, <2>1, <2>2, AddressOfTyped, StartIsEntry, MaxValue DEF ProgramInv, Word
<1> HIDE DEF m, e, f, S, Y, a1, a2, a3, a4, x, h
<1>11. /\ DOMAIN H = HeaderKeys /\ H.memory_base = base /\ H.memory_size = m
       /\ H.entry_point = e /\ H.start_symbol = f
  BY <1>10, HeaderHas
<1>21. H \in [HeaderKeys -> Int]
  BY <1>8, <1>10, <1>19, <1>20
<1>22. H.architecture_id = 1 /\ H.isa_version = 1 /\ H.format_version = 1
  BY <1>10, <1>19, HeaderHas
<1> HIDE DEF H
<1>24. image' = [field \in ImageFields |-> image'[field]]
  BY <1>9, <1>10
<1>12. /\ DOMAIN image' = ImageFields /\ image'.header = H /\ image'.sections = S
       /\ image'.symbols = Y /\ image'.text = << >> /\ image'.data = << >> /\ image'.rodata = << >>
       /\ image'.bss_size = 0 /\ image'.laid_out = FALSE
  BY <1>9, <1>10 DEF ImageFields
<1>13. S = [k \in DOMAIN sections |-> FileEntry(sections[k])]' /\ e = addresses'["_start"]
  BY <1>2 DEF S, e, FileEntry
<1>14. Y = [k \in DOMAIN Ordered |-> SymbolEntry(k - 1)]' /\ f = StartSymbol'
  <2>1. Ordered' = Ordered
    BY <1>2 DEF Ordered
  <2> QED BY <1>2, <2>1 DEF Y, f, StartSymbol, SymbolEntry, section_index
<1>23. AsNew'
  BY <1>12, <1>21, <1>22, <1>24 DEF AsNew
<1>15. Tables'
  BY <1>2, <1>4, <1>8, <1>11, <1>12, <1>13, <1>14, <1>23 DEF Tables
<1>16. TextUpTo(cursor.at)'
  <2>1. TextOf(program', image'.text, 1, addresses', section("text").address', ~Reopened("text")')
    BY <1>12, TextFirst
  <2>2. cursor'.at = 1
    BY <1>2 DEF Start
  <2> QED BY <2>1, <2>2 DEF TextUpTo
<1>17. cursor'.section # "text"
  <2>1. "text" # ""
    OBVIOUS
  <2> QED BY <1>2, <2>1 DEF Start, NoSection
<1>18. DOMAIN image'.text = {}
  BY <1>12
<1> QED BY <1>2, <1>15, <1>16, <1>17, <1>18 DEF ImageInv

\* The tables stay while the words are encoded.
LEMMA TablesStay ==
    ASSUME Tables, UNCHANGED << base, program, symbols, addresses, sections >>,
           NEW t, image' = image \/ image' = [image EXCEPT !.text = t]
    PROVE  Tables'
<1>1. /\ DOMAIN image' = ImageFields /\ image'.header = image.header
      /\ image'.sections = image.sections /\ image'.symbols = image.symbols
      /\ image'.data = image.data /\ image'.rodata = image.rodata
      /\ image'.bss_size = image.bss_size /\ image'.laid_out = image.laid_out
  BY DEF Tables, ImageFields
<1>2. Ordered' = Ordered
  BY DEF Ordered
<1>3. StartSymbol' = StartSymbol
  BY <1>2 DEF StartSymbol
<1>4. [k \in DOMAIN Ordered |-> SymbolEntry(k - 1)]' = [k \in DOMAIN Ordered |-> SymbolEntry(k - 1)]
  BY <1>2 DEF SymbolEntry, section_index
<1>5. [k \in DOMAIN sections |-> FileEntry(sections[k])]' = [k \in DOMAIN sections |-> FileEntry(sections[k])]
  BY DEF FileEntry
<1>6. AsNew'
  <2>1. image' = [field \in ImageFields |-> image'[field]]
    BY DEF Tables, AsNew
  <2> QED BY <1>1, <2>1 DEF Tables, AsNew
<1> QED BY <1>1, <1>3, <1>4, <1>5, <1>6 DEF Tables

\* Nothing happens any more once a pass has thrown or the image is done.
LEMMA DoneStays ==
    ASSUME [Next]_vars, pass = "done"
    PROVE  UNCHANGED vars
  BY DEF Next, Tokenize, ParseStatement, ParseNewline, ParseEnd, Analyze, SymbolSection,
       SymbolGlobal, SymbolLabel, SymbolInstruction, Resolve, MeasureSection,
       MeasureInstruction, MeasureOther, Measured, PlaceSection, ResolveAddresses, Populate,
       EncodeSection, EncodeOther, EncodeInstruction, Finish, At, AtEnd

\* The image layout is applied to: only bss_size may differ.
LEMMA BssFacts ==
    ASSUME Tables, NEW x, x = IF Placed("bss") THEN set_bss_size(image, section("bss").size) ELSE image,
           Placed("bss") => section("bss").size \in Nat
    PROVE  /\ DOMAIN x = ImageFields /\ x.header = image.header /\ x.sections = image.sections
           /\ x.symbols = image.symbols /\ x.text = image.text
           /\ x.data = image.data /\ x.rodata = image.rodata
           /\ Placed("bss") => x.bss_size = section("bss").size
           /\ x.bss_size \in Nat /\ x.laid_out = FALSE
           /\ x = [field \in ImageFields |-> x[field]]
<1> DEFINE size == section("bss").size
<1>1. /\ DOMAIN image = ImageFields /\ image.bss_size = 0 /\ image.laid_out = FALSE
      /\ image = [field \in ImageFields |-> image[field]]
  BY DEF Tables, AsNew
<1>2. CASE Placed("bss")
  <2>1. ~(size < 0)
    BY <1>2
  <2>2. x = [image EXCEPT !.bss_size = size, !.laid_out = FALSE]
    BY <1>2, <2>1 DEF set_bss_size
  <2> HIDE DEF size
  <2>3. /\ DOMAIN x = ImageFields /\ x.header = image.header /\ x.sections = image.sections
        /\ x.symbols = image.symbols /\ x.text = image.text
        /\ x.data = image.data /\ x.rodata = image.rodata /\ x.bss_size = size
        /\ x.laid_out = FALSE /\ x = [field \in ImageFields |-> x[field]]
    BY <1>1, <2>2 DEF ImageFields
  <2> QED BY <1>2, <2>3 DEF size
<1>3. CASE ~Placed("bss")
  BY <1>1, <1>3
<1> QED BY <1>2, <1>3

\* The size set_bss_size gets is not negative.
LEMMA BssIsNat ==
    ASSUME LayoutInv, pass = "encode", Placed("bss")
    PROVE  section("bss").size \in Nat
<1> DEFINE c == CHOOSE k \in DOMAIN sections : sections[k].name = "bss"
<1>1. c \in DOMAIN sections
  BY DEF Placed
<1>2. section("bss") = sections[(c - 1) + 1]
  BY DEF section, section_index
<1>3. DOMAIN sections = 1 .. Len(sections)
  BY SequenceFacts DEF LayoutInv, LaidOut, SectionChain
<1>4. \A k \in DOMAIN sections : sections[k].size \in Nat
  BY DEF LayoutInv
<1> HIDE DEF c
<1>5. (c - 1) + 1 = c
  BY <1>1, <1>3
<1> QED BY <1>1, <1>2, <1>4, <1>5

\* Each step keeps the tables as populated and the text the words of the statements.
LEMMA ImageInvStep == ProgramInv /\ TableInv /\ LayoutInv /\ ImageInv /\ [Next]_vars => ImageInv'
<1> SUFFICES ASSUME ProgramInv, TableInv, LayoutInv, ImageInv, [Next]_vars PROVE ImageInv'
  OBVIOUS
<1> DEFINE Front == Passes \ {"encode", "done"}
           Words == \A k \in DOMAIN image.text : image.text[k] \in Word
           Right == ~Reopened("text") /\ cursor.section = "text" =>
                        cursor.offset = Counted(program, "text", cursor.at)
<1>w. Words
  BY DEF ImageInv
<1>f. ASSUME image' = image, pass \notin {"encode", "done"}, pass' # "encode" PROVE ImageInv'
  BY <1>f, <1>w DEF ImageInv
<1>t. ASSUME NEW error, Throw(error) PROVE ImageInv'
  BY <1>t, <1>w DEF Throw, ImageInv
<1>b. ASSUME NEW next, Begin(next), next # "encode", pass \notin {"encode", "done"}, image' = image
      PROVE  ImageInv'
  BY <1>b, <1>f DEF Begin
<1>p. cursor.at \in Nat \ {0} /\ DOMAIN cursor = {"at", "section", "offset"} /\ cursor.offset \in Nat
  BY DEF ProgramInv
<1>1. CASE Tokenize
  BY <1>1, <1>f, <1>t DEF Tokenize
<1>2. CASE ParseStatement
  BY <1>2, <1>f, <1>t DEF ParseStatement, ParsesOn
<1>3. CASE ParseNewline
  BY <1>3, <1>f DEF ParseNewline, ParsesOn
<1>4. CASE ParseEnd
  BY <1>4, <1>b DEF ParseEnd
<1>5. CASE Analyze
  BY <1>5, <1>b, <1>t DEF Analyze
<1>6. CASE SymbolSection
  BY <1>6, <1>f DEF SymbolSection, At, Enter
<1>7. CASE SymbolGlobal
  BY <1>7, <1>f DEF SymbolGlobal, At, Onward
<1>8. CASE SymbolLabel
  BY <1>8, <1>f, <1>t DEF SymbolLabel, At, Onward
<1>9. CASE SymbolInstruction
  BY <1>9, <1>f, <1>t DEF SymbolInstruction, At, Onward
<1>10. CASE Resolve
  BY <1>10, <1>b, <1>t DEF Resolve, AtEnd
<1>11. CASE MeasureSection
  BY <1>11, <1>f, <1>t DEF MeasureSection, At, Enter
<1>12. CASE MeasureInstruction
  BY <1>12, <1>f DEF MeasureInstruction, At, Onward
<1>13. CASE MeasureOther
  BY <1>13, <1>f DEF MeasureOther, At, Onward
<1>14. CASE Measured
  BY <1>14, <1>b DEF Measured, AtEnd
<1>15. CASE PlaceSection
  BY <1>15, <1>f, <1>t DEF PlaceSection, Onward
<1>16. CASE ResolveAddresses
  BY <1>16, <1>b, <1>t DEF ResolveAddresses
<1>17. CASE Populate
  BY <1>17, <1>t, PopulateStep DEF Populate
\* the tables, the placement and the program while the words are encoded
<1>k. ASSUME pass = "encode", UNCHANGED << arguments, parsed, table, placement >>,
             NEW t, image' = image \/ image' = [image EXCEPT !.text = t]
      PROVE  /\ Tables' /\ UNCHANGED << program, addresses >>
             /\ section("text").address' = section("text").address
             /\ Reopened("text")' = Reopened("text")
  <2>1. UNCHANGED << base, program, symbols, addresses, sections >>
    BY <1>k DEF arguments, parsed, table, placement
  <2>2. Tables
    BY <1>k DEF ImageInv
  <2>3. Tables'
    BY <1>k, <2>1, <2>2, TablesStay
  <2> QED BY <2>1, <2>3 DEF section, section_index, Reopened
<1> DEFINE i == cursor.at
           p == program
           O == section("text").address
           T(t, n) == TextOf(p, t, n, addresses, O, ~Reopened("text"))
<1>n. ASSUME pass = "encode", pass' = "encode", UNCHANGED << arguments, parsed, table, placement >>,
             NEW t, image' = image \/ image' = [image EXCEPT !.text = t],
             cursor'.at = i + 1, T(image'.text, i + 1), Right'
      PROVE  ImageInv'
  <2>1. TextUpTo(cursor.at)'
    BY <1>n, <1>k DEF TextUpTo
  <2>2. Words'
    <3>1. IsSequence(image'.text) /\ \A k \in 1 .. Len(image'.text) : image'.text[k] \in Word
      BY <1>n DEF TextOf
    <3> QED BY <3>1, SequenceFacts
  <2>3. Tables'
    BY <1>n, <1>k
  <2> QED BY <1>n, <2>1, <2>2, <2>3 DEF ImageInv
<1>e. ASSUME pass = "encode" PROVE T(image.text, i) /\ Right
  BY <1>e DEF ImageInv, TextUpTo
<1>18. CASE EncodeSection
  <2>1. /\ pass = "encode" /\ p[i].kind = "section" /\ Enter(p[i].name) /\ image' = image
        /\ UNCHANGED << table, placement >> /\ i <= Len(p)
    BY <1>18 DEF EncodeSection, At, Here
  <2>2. /\ UNCHANGED << arguments, parsed, program >> /\ pass' = pass /\ cursor'.at = i + 1
        /\ cursor'.section = p[i].name /\ cursor'.offset = 0
    BY <2>1 DEF Enter, parsed
  <2>3. T(image.text, i + 1)
    <3>1. p[i].kind # "instruction"
      BY <2>1
    <3> QED BY <3>1, <2>1, <1>e, <1>p, TextPass
  <2>4. Right'
    <3> SUFFICES ASSUME ~Reopened("text")', p[i].name = "text" PROVE 0 = Counted(p, "text", i + 1)
      BY <2>2
    <3>0. ~Reopened("text")
      BY <2>2 DEF Reopened
    <3>1. Counted(p, "text", i + 1) = Counted(p, "text", i)
      BY <2>1, <1>p, CountNext
    <3>2. ASSUME NEW j \in InstructionsIn(p, "text", i) PROVE FALSE
      <4>1. j \in Nat \ {0} /\ j < i /\ SectionIn(p, j) = "text"
        BY <1>p DEF InstructionsIn, Before
      <4>2. "text" \in NamesBefore(p, "section", j)
        <5>1. "text" # NoSection
          BY DEF NoSection
        <5> QED BY <5>1, <4>1, SectionIsNamed
      <4>3. PICK h \in 1 .. j - 1 : p[h].kind = "section" /\ p[h].name = "text"
        BY <4>2 DEF NamesBefore, Before
      <4>4. h \in DOMAIN p /\ i \in DOMAIN p /\ h < i /\ Len(p) \in Nat
        BY <4>1, <2>1, <1>p, SequenceFacts DEF ProgramInv
      <4>5. IsStatement(p[h]) /\ IsStatement(p[i])
        BY <4>4, SequenceFacts DEF ProgramInv
      <4>6. p[h] = Section("text") /\ p[i] = Section("text")
        BY <4>3, <4>5, <2>1, <3>2 DEF IsStatement
      <4> QED BY <3>0, <4>4, <4>6 DEF Reopened
    <3>3. Counted(p, "text", i) = 0
      <4>1. InstructionsIn(p, "text", i) = {}
        BY <3>2
      <4> QED BY <4>1, FS_EmptySet DEF Counted
    <3> QED BY <3>1, <3>3
  <2> HIDE DEF Right
  <2> QED BY <2>1, <2>2, <2>3, <2>4, <1>n
<1>19. CASE EncodeOther
  <2>1. /\ pass = "encode" /\ p[i].kind \in {"label", "global"} /\ Onward /\ image' = image
        /\ UNCHANGED << table, placement >>
    BY <1>19 DEF EncodeOther, At, Here
  <2>2. /\ UNCHANGED << arguments, parsed, program >> /\ pass' = pass /\ cursor'.at = i + 1
        /\ cursor'.section = cursor.section /\ cursor'.offset = cursor.offset
    BY <2>1, <1>p DEF Onward, parsed
  <2>3. T(image.text, i + 1)
    <3>1. p[i].kind # "instruction"
      BY <2>1
    <3> QED BY <3>1, <2>1, <1>e, <1>p, TextPass
  <2>4. Right'
    <3>1. Counted(p, "text", i + 1) = Counted(p, "text", i)
      BY <2>1, <1>p, CountNext
    <3>2. Reopened("text")' = Reopened("text")
      BY <2>2 DEF Reopened
    <3> QED BY <2>1, <2>2, <3>1, <3>2, <1>e
  <2> HIDE DEF Right
  <2> QED BY <2>1, <2>2, <2>3, <2>4, <1>n
<1>20. CASE EncodeInstruction
  <2> DEFINE w == encode_instruction(Here.mnemonic, ResolvedOperands)
             target == Here.operands[1].name
  <2>1. CASE /\ cursor.section = "text" /\ Encodable(Here.mnemonic, ResolvedOperands)
             /\ image' = [image EXCEPT !.text = Append(@, w)]
             /\ pass' = pass /\ cursor' = [cursor EXCEPT !.at = @ + 1, !.offset = @ + 1]
             /\ UNCHANGED << arguments, parsed, table, placement >>
    <3>1. pass = "encode" /\ p[i].kind = "instruction" /\ Here = p[i] /\ At("encode", "instruction")
      BY <1>20 DEF EncodeInstruction, At, Here
    <3>2. w \in Word /\ (p[i].mnemonic \in Branches => decode(w).immediate = Displacement(target))
      BY <2>1, <3>1, EncodedWord
    <3>3. SectionIn(p, i) = "text"
      BY <2>1, <3>1 DEF TableInv
    <3>4. ~Reopened("text") => cursor.offset = Counted(p, "text", i)
      BY <2>1, <3>1, <1>e
    <3>5. ~Reopened("text") /\ p[i].mnemonic \in Branches =>
              decode(w).immediate = addresses[p[i].operands[1].name] - (O + Counted(p, "text", i))
      BY <2>1, <3>1, <3>2, <3>4 DEF Displacement
    <3> HIDE DEF w
    <3>6. T(Append(image.text, w), i + 1)
      BY <3>1, <3>2, <3>3, <3>5, <1>e, <1>p, TextAppend
    <3>7. image'.text = Append(image.text, w)
      <4>1. DOMAIN image = ImageFields
        BY <3>1 DEF ImageInv, Tables
      <4> QED BY <4>1, <2>1 DEF ImageFields
    <3>8. /\ cursor'.at = i + 1 /\ cursor'.section = cursor.section
          /\ cursor'.offset = cursor.offset + 1 /\ program' = program
      BY <2>1, <1>p DEF parsed
    <3>9. Right'
      <4>1. Counted(p, "text", i + 1) = Counted(p, "text", i) + 1
        BY <3>1, <3>3, <1>p, CountNext
      <4>2. Reopened("text")' = Reopened("text")
        BY <3>8 DEF Reopened
      <4> QED BY <3>4, <3>8, <4>1, <4>2
    <3>10. image' = [image EXCEPT !.text = Append(image.text, w)]
      BY <2>1
    <3> HIDE DEF Right
    <3> QED BY <2>1, <3>1, <3>6, <3>7, <3>8, <3>9, <3>10, <1>n
  <2> QED BY <1>20, <2>1, <1>t DEF EncodeInstruction
<1>21. CASE Finish
  <2>1. pass = "encode" /\ pass' = "done"
    BY <1>21 DEF Finish, AtEnd
  <2> DEFINE x == IF Placed("bss") THEN set_bss_size(image, section("bss").size) ELSE image
  <2>2. image' = layout(x)
    BY <1>21 DEF Finish
  <2>3. Tables
    BY <2>1 DEF ImageInv
  <2>4. Placed("bss") => section("bss").size \in Nat
    BY <2>1, BssIsNat
  <2>5. DOMAIN x = ImageFields /\ x.header = image.header /\ x.text = image.text
    BY <2>3, <2>4, BssFacts
  <2> HIDE DEF x
  <2>6. image'.text = image.text
    <3>1. DOMAIN x.header = HeaderKeys
      BY <2>3, <2>5 DEF Tables
    <3> DEFINE z == image'
    <3>2. z = layout(x)
      BY <2>2
    <3> HIDE DEF z
    <3>3. Arranged(x, z)
      BY <3>2, <2>5, <3>1, LayoutFacts
    <3> QED BY <3>3, <2>5 DEF Arranged, z
  <2> QED BY <2>1, <2>6, <1>w DEF ImageInv
<1>22. CASE UNCHANGED vars
  <2>1. UNCHANGED << image, pass, cursor, program, outcome, arguments, parsed, table, placement >>
    BY <1>22 DEF vars, parsed
  <2>2. pass = "encode" => Tables' /\ TextUpTo(cursor.at)'
    <3> SUFFICES ASSUME pass = "encode" PROVE Tables' /\ TextUpTo(cursor.at)'
      OBVIOUS
    <3>1. T(image.text, i)
      BY <1>e
    <3>2. /\ Tables' /\ UNCHANGED << program, addresses >>
          /\ section("text").address' = section("text").address
          /\ Reopened("text")' = Reopened("text")
      BY <2>1, <1>k
    <3> QED BY <2>1, <3>1, <3>2 DEF TextUpTo
  <2>3. Right => Right'
    BY <2>1 DEF Reopened
  <2> QED BY <2>1, <2>2, <2>3, <1>w DEF ImageInv
<1> QED BY <1>1, <1>2, <1>3, <1>4, <1>5, <1>6, <1>7, <1>8, <1>9, <1>10, <1>11, <1>12, <1>13, <1>14,
           <1>15, <1>16, <1>17, <1>18, <1>19, <1>20, <1>21, <1>22 DEF Next

\* the image that is laid out
Encoded == IF Placed("bss") THEN set_bss_size(image, section("bss").size) ELSE image

\* What is known when the encode loop is done.
LEMMA AtFinish ==
    ASSUME ProgramInv, TableInv, LayoutInv, ImageInv, Finish
    PROVE  /\ UNCHANGED << base, program, offsets, symbols, globals, sizes, sections, addresses >>
           /\ TableUpTo(Len(program) + 1) /\ AllSizes /\ SectionChain(base, sizes, sections, 5)
           /\ addresses = [name \in DOMAIN symbols |-> SymbolAddress(name)]
           /\ Tables /\ TextUpTo(Len(program) + 1)
           /\ image' = layout(Encoded)
           /\ Len(program) \in Nat /\ DOMAIN program = 1 .. Len(program)
           /\ \A name \in DOMAIN sizes : sizes[name] \in Nat
           /\ DOMAIN sections = 1 .. Len(sections) /\ Len(sections) \in Nat /\ Len(sections) > 0
           /\ \A k \in DOMAIN sections : sections[k].address \in Word /\ sections[k].size \in Nat
<1>1. pass = "encode" /\ cursor.at > Len(program)
      /\ UNCHANGED << base, program, offsets, symbols, globals, sizes, sections, addresses >>
      /\ image' = layout(Encoded)
  BY DEF Finish, AtEnd, arguments, parsed, table, placement, Encoded
<1>2. Len(program) \in Nat /\ DOMAIN program = 1 .. Len(program)
  BY SequenceFacts DEF ProgramInv
<1>3. cursor.at = Len(program) + 1
  BY <1>1, <1>2 DEF ProgramInv
<1>4. /\ TableUpTo(Len(program) + 1) /\ AllSizes /\ SectionChain(base, sizes, sections, 5)
      /\ addresses = [name \in DOMAIN symbols |-> SymbolAddress(name)]
  BY <1>1 DEF TableInv, Tabled, LayoutInv, LaidOut
<1>5. Tables /\ TextUpTo(Len(program) + 1)
  BY <1>1, <1>3 DEF ImageInv
<1>6. \A name \in DOMAIN sizes : sizes[name] \in Nat
  <2>1. Len(program) + 1 \in Nat
    BY <1>2
  <2> QED BY <2>1, <1>4, SizesAreCounts DEF AllSizes
<1>7. /\ DOMAIN sections = 1 .. Len(sections) /\ Len(sections) \in Nat
      /\ \A k \in DOMAIN sections : sections[k].address \in Word /\ sections[k].size \in Nat
  BY <1>4, <1>6, ChainTyped
<1>8. Len(sections) > 0
  <2>1. "_start" \in DOMAIN symbols
    BY <1>5 DEF Tables
  <2>2. symbols["_start"].section \in DOMAIN sizes
    BY <1>4, <2>1, SymbolAddressTyped
  <2>3. DOMAIN sizes \subseteq SectionNames
    BY <1>4 DEF AllSizes, Sizes
  <2>4. section_index(symbols["_start"].section) + 1 \in DOMAIN sections
    BY <1>4, <2>2, <2>3, EverySectionIsPlaced
  <2> QED BY <2>4, <1>7
<1> QED BY <1>1, <1>2, <1>4, <1>5, <1>6, <1>7, <1>8

\* Behind the encode loop every instruction is in .text, and counting them up to
\* a statement is counting those of .text.
LEMMA AllCountsAgree ==
    ASSUME TextUpTo(Len(program) + 1), Len(program) \in Nat, NEW i \in 1 .. Len(program) + 1
    PROVE  /\ Cardinality(InstructionsBefore(i)) = Counted(program, "text", i)
           /\ \A name : name # "text" => Counted(program, name, i) = 0
<1>1. \A j \in Before(program, "instruction", i) : SectionIn(program, j) = "text"
  BY DEF TextUpTo, TextOf, Before
<1>2. InstructionsBefore(i) = InstructionsIn(program, "text", i)
  BY <1>1 DEF InstructionsBefore, InstructionsIn, Before
<1>3. ASSUME NEW name, name # "text" PROVE Counted(program, name, i) = 0
  <2>1. InstructionsIn(program, name, i) = {}
    BY <1>1, <1>3 DEF InstructionsIn
  <2> QED BY <2>1, FS_EmptySet DEF Counted
<1> QED BY <1>2, <1>3 DEF Counted

\* The words of a section in the image are as many as its place was made for.
LEMMA SizesMatch ==
    ASSUME ProgramInv, TableInv, LayoutInv, ImageInv, Finish, NEW k \in DOMAIN sections
    PROVE  /\ SizeOf(Encoded, sections[k].name) = sections[k].size
           /\ Len(Payload(Encoded, sections[k].name)) \in Nat
           /\ sections[k].name # "bss" =>
                 SizeOf(Encoded, sections[k].name) = Len(Payload(Encoded, sections[k].name))
<1> DEFINE s == sections[k]
           x == Encoded
           n == Len(program) + 1
<1>1. /\ TableUpTo(n) /\ AllSizes /\ SectionChain(base, sizes, sections, 5) /\ Tables /\ TextUpTo(n)
      /\ Len(program) \in Nat /\ k \in 1 .. Len(sections) /\ DOMAIN sections = 1 .. Len(sections)
  BY AtFinish
<1>2. IsPlaced(sizes, s)
  BY <1>1 DEF SectionChain
<1>3. s.name \in DOMAIN sizes /\ s.size = sizes[s.name]
  BY <1>2 DEF IsPlaced
<1>4. s.size = Counted(program, s.name, n) /\ s.name \in SectionNames
  BY <1>1, <1>3 DEF AllSizes, Sizes
<1>5. /\ x.text = image.text /\ x.data = << >> /\ x.rodata = << >>
      /\ Placed("bss") => x.bss_size = section("bss").size
  <2>1. pass = "encode"
    BY DEF Finish, AtEnd
  <2>2. Placed("bss") => section("bss").size \in Nat
    BY <2>1, BssIsNat
  <2>3. x = IF Placed("bss") THEN set_bss_size(image, section("bss").size) ELSE image
    BY DEF Encoded
  <2> HIDE DEF x
  <2>4. /\ x.text = image.text /\ x.data = image.data /\ x.rodata = image.rodata
        /\ Placed("bss") => x.bss_size = section("bss").size
    BY <1>1, <2>2, <2>3, BssFacts
  <2> QED BY <1>1, <2>4 DEF Tables
<1>6. IsSequence(image.text) /\ Len(image.text) = Counted(program, "text", n) /\ Len(image.text) \in Nat
  <2>1. IsSequence(image.text) /\ Len(image.text) = Counted(program, "text", n)
    BY <1>1 DEF TextUpTo, TextOf
  <2> QED BY <2>1, SequenceFacts
<1>7. \A name : name # "text" => Counted(program, name, n) = 0
  <2>1. n \in 1 .. Len(program) + 1
    BY <1>1
  <2> QED BY <1>1, <2>1, AllCountsAgree
<1> HIDE DEF x, n
<1>8. CASE s.name = "text"
  <2>1. Payload(x, "text") = image.text /\ SizeOf(x, "text") = Len(image.text)
    BY <1>5 DEF Payload, SizeOf
  <2> QED BY <2>1, <1>4, <1>6, <1>8 DEF x
<1>9. CASE s.name = "data"
  <2>1. Payload(x, "data") = << >> /\ SizeOf(x, "data") = 0 /\ Len(<< >>) = 0
    BY <1>5 DEF Payload, SizeOf
  <2> QED BY <2>1, <1>4, <1>7, <1>9 DEF x
<1>10. CASE s.name = "rodata"
  <2>1. Payload(x, "rodata") = << >> /\ SizeOf(x, "rodata") = 0 /\ Len(<< >>) = 0
    BY <1>5 DEF Payload, SizeOf
  <2> QED BY <2>1, <1>4, <1>7, <1>10 DEF x
<1>11. CASE s.name = "bss"
  <2>1. "bss" \in DOMAIN sizes /\ DOMAIN sizes \subseteq SectionNames
    BY <1>1, <1>3, <1>11 DEF AllSizes, Sizes
  <2>2. Placed("bss") /\ IsPlaced(sizes, section("bss")) /\ section("bss").name = "bss"
    BY <1>1, <2>1, EverySectionIsPlaced
  <2>3. section("bss").size = sizes["bss"]
    BY <2>2 DEF IsPlaced
  <2>4. Payload(x, "bss") = << >> /\ Len(<< >>) = 0 /\ SizeOf(x, "bss") = x.bss_size
    BY DEF Payload, SizeOf
  <2> QED BY <2>2, <2>3, <2>4, <1>3, <1>5, <1>11 DEF x
<1>12. SectionNames = {"text", "data", "rodata", "bss"}
  BY DEF SectionNames, SectionOrder
<1> QED BY <1>4, <1>8, <1>9, <1>10, <1>11, <1>12

\* What the last step makes of the tables.
LEMMA FinalImage ==
    ASSUME ProgramInv, TableInv, LayoutInv, ImageInv, Finish
    PROVE  /\ image'.header.memory_base = base
           /\ image'.header.memory_size = image.header.memory_size
           /\ image'.header.entry_point = addresses["_start"]
           /\ image'.header.start_symbol = StartSymbol
           /\ image'.header.symbol_table = SymbolTableAt(Encoded)
           /\ image'.header.symbol_count = Len(Encoded.symbols)
           /\ image'.header.architecture_id = 1 /\ image'.header.isa_version = 1
           /\ image'.header.format_version = 1
           /\ image'.symbols = [k \in DOMAIN Ordered |-> SymbolEntry(k - 1)]
           /\ Encoded.symbols = [k \in DOMAIN Ordered |-> SymbolEntry(k - 1)]
           /\ image'.text = image.text /\ image'.data = << >> /\ image'.rodata = << >>
           /\ DOMAIN image'.sections = DOMAIN sections
           /\ Encoded.sections = [k \in DOMAIN sections |-> FileEntry(sections[k])]
           /\ \A k \in DOMAIN sections :
                 /\ Encoded.sections[k].type = sections[k].name
                 /\ image'.sections[k].type = sections[k].name
                 /\ image'.sections[k].virtual_address = sections[k].address
                 /\ image'.sections[k].flags = format_section_flags[sections[k].name]
                 /\ image'.sections[k].alignment = 1
                 /\ image'.sections[k].size = SizeOf(Encoded, sections[k].name)
                 /\ sections[k].name # "bss" =>
                       image'.sections[k].file_offset = FileCursor(Encoded)[k]
<1> DEFINE x == Encoded
           S == [k \in DOMAIN sections |-> FileEntry(sections[k])]
           Y == [k \in DOMAIN Ordered |-> SymbolEntry(k - 1)]
<1>1. Tables /\ image' = layout(x)
  BY AtFinish
<1>2. /\ DOMAIN x = ImageFields /\ x.header = image.header /\ x.sections = image.sections
      /\ x.symbols = image.symbols /\ x.text = image.text
      /\ x.data = << >> /\ x.rodata = << >>
  <2>1. pass = "encode"
    BY DEF Finish, AtEnd
  <2>2. Placed("bss") => section("bss").size \in Nat
    BY <2>1, BssIsNat
  <2>3. x = IF Placed("bss") THEN set_bss_size(image, section("bss").size) ELSE image
    BY DEF Encoded
  <2> HIDE DEF x
  <2>4. image.data = << >> /\ image.rodata = << >>
    BY <1>1 DEF Tables
  <2> QED BY <1>1, <2>2, <2>3, <2>4, BssFacts
<1>3. /\ DOMAIN x.header = HeaderKeys /\ x.sections = S /\ x.symbols = Y
      /\ x.header.memory_base = base /\ x.header.memory_size = image.header.memory_size
      /\ x.header.entry_point = addresses["_start"] /\ x.header.start_symbol = StartSymbol
      /\ x.header.architecture_id = 1 /\ x.header.isa_version = 1 /\ x.header.format_version = 1
  BY <1>1, <1>2 DEF Tables, AsNew
<1> HIDE DEF x
<1>4. DOMAIN S = DOMAIN sections /\ \A k \in DOMAIN sections : S[k] = FileEntry(sections[k])
  OBVIOUS
<1> HIDE DEF S, Y
<1> DEFINE z == image'
<1>5. Arranged(x, z)
  <2>1. z = layout(x) /\ DOMAIN x = ImageFields /\ DOMAIN x.header = HeaderKeys
    BY <1>1, <1>2, <1>3
  <2> HIDE DEF z
  <2> QED BY ONLY <2>1, LayoutFacts
<1>6. ASSUME NEW k \in DOMAIN sections
      PROVE  /\ x.sections[k].type = sections[k].name
             /\ z.sections[k].type = sections[k].name
             /\ z.sections[k].virtual_address = sections[k].address
             /\ z.sections[k].flags = format_section_flags[sections[k].name]
             /\ z.sections[k].alignment = 1
             /\ z.sections[k].size = SizeOf(x, sections[k].name)
             /\ sections[k].name # "bss" => z.sections[k].file_offset = FileCursor(x)[k]
  <2> DEFINE s == sections[k]
             t == x.sections[k]
             c == IF x.sections[k].type = "bss" THEN 0 ELSE FileCursor(x)[k]
             d == SizeOf(x, x.sections[k].type)
             u == z.sections[k]
  <2>1. t = FileEntry(s)
    BY <1>3, <1>4
  <2>2. u = [t EXCEPT !.file_offset = c, !.size = d]
    BY <1>3, <1>4, <1>5 DEF Arranged
  <2>3. t.type = s.name
    BY <2>1 DEF FileEntry
  <2>4. c = IF t.type = "bss" THEN 0 ELSE FileCursor(x)[k]
    OBVIOUS
  <2>5. d = SizeOf(x, t.type)
    OBVIOUS
  <2> HIDE DEF s, t, c, d, u, z
  <2>6. /\ DOMAIN t = {"type", "flags", "file_offset", "size", "alignment", "virtual_address"}
        /\ t.virtual_address = s.address /\ t.alignment = 1
        /\ t.flags = format_section_flags[s.name]
    BY <2>1 DEF FileEntry
  <2>7. u.type = t.type /\ u.virtual_address = t.virtual_address /\ u.size = d /\ u.file_offset = c
        /\ u.flags = t.flags /\ u.alignment = t.alignment
    BY <2>2, <2>6
  <2> QED BY <2>3, <2>4, <2>5, <2>6, <2>7 DEF s, t, u
<1> HIDE DEF z
<1> QED BY <1>2, <1>3, <1>4, <1>5, <1>6 DEF Arranged, x, z, S, Y

IndInv == ProgramInv /\ TableInv /\ LayoutInv /\ ImageInv

\* The analysed program is still the one the tables were built from.
LEMMA SameProgram ==
    ASSUME Finish
    PROVE  /\ UNCHANGED << base, program, symbols, sections, addresses >>
           /\ \A i : SectionOf(i)' = SectionOf(i) /\ InstructionsBefore(i)' = InstructionsBefore(i)
           /\ section("text")' = section("text") /\ Reopened("text")' = Reopened("text")
           /\ Ordered' = Ordered
<1>1. UNCHANGED << base, program, symbols, sections, addresses >>
  BY DEF Finish, arguments, parsed, table, placement
<1> QED BY <1>1 DEF SectionOf, SectionsBefore, InstructionsBefore, section, section_index, Reopened, Ordered

\* A function on the numbers up to m is a sequence of that length.
LEMMA LenOf ==
    ASSUME NEW m \in Nat, NEW y, y = [k \in 1 .. m |-> y[k]]
    PROVE  Len(y) = m
<1> DEFINE S == {y[k] : k \in 1 .. m}
<1>1. \A k \in 1 .. m : y[k] \in S
  OBVIOUS
<1> HIDE DEF S
<1>2. y \in [1 .. m -> S]
  BY <1>1
<1>3. y \in Seq(S)
  BY <1>2, SeqDef
<1>4. Len(y) \in Nat /\ 1 .. Len(y) = 1 .. m
  BY <1>2, <1>3, LenProperties
<1> DEFINE l == Len(y)
<1> HIDE DEF l
<1>5. l \in Nat /\ 1 .. l = 1 .. m
  BY <1>4 DEF l
<1>6. l = m
  <2>1. \A h : h \in 1 .. l <=> h \in 1 .. m
    BY <1>5
  <2>2. l > 0 => l \in 1 .. m
    BY <2>1, <1>5
  <2>3. m > 0 => m \in 1 .. l
    BY <2>1
  <2> QED BY <2>2, <2>3, <1>5
<1> QED BY <1>6 DEF l

\* The last step leaves sections that partition the memory.
LEMMA FinishPartitions == IndInv /\ Finish => SectionsPartitionMemory'
<1> SUFFICES ASSUME ProgramInv, TableInv, LayoutInv, ImageInv, Finish PROVE SectionsPartitionMemory'
  BY DEF IndInv
<1> DEFINE n == Len(sections)
<1>1. /\ sections' = sections /\ DOMAIN sections = 1 .. n /\ n \in Nat /\ n > 0
      /\ SectionChain(base, sizes, sections, 5) /\ Tables
  BY AtFinish
<1>2. image'.header.memory_base = base /\ image'.header.memory_size = image.header.memory_size
  BY FinalImage
<1>3. \A k \in 1 .. n : image'.sections[k].size = sections[k].size
  BY <1>1, FinalImage, SizesMatch
<1>4. /\ sections[1].address = base
      /\ \A k \in 1 .. n - 1 : sections[k].address + sections[k].size = sections[k + 1].address
  BY <1>1 DEF SectionChain
<1>5. sections[n].address + sections[n].size = base + image.header.memory_size
  BY <1>1 DEF Tables
<1> QED BY <1>1, <1>2, <1>3, <1>4, <1>5 DEF SectionsPartitionMemory

\* It leaves labels at their instructions.
LEMMA FinishLabels == IndInv /\ Finish => LabelsPointAtInstructions'
<1> SUFFICES ASSUME ProgramInv, TableInv, LayoutInv, ImageInv, Finish,
                    NEW i \in DOMAIN program, program[i].kind = "label", SectionOf(i) = "text"
             PROVE  addresses[program[i].name] = section("text").address + Cardinality(InstructionsBefore(i))
  BY SameProgram DEF IndInv, LabelsPointAtInstructions
<1>1. /\ TableUpTo(Len(program) + 1) /\ TextUpTo(Len(program) + 1)
      /\ addresses = [name \in DOMAIN symbols |-> SymbolAddress(name)]
      /\ Len(program) \in Nat /\ DOMAIN program = 1 .. Len(program)
  BY AtFinish
<1>2. i \in Before(program, "label", Len(program) + 1) /\ i \in 1 .. Len(program) + 1
  BY <1>1 DEF Before
<1>3. SectionIn(program, i) = "text"
  BY SectionOfIsSectionIn
<1>4. program[i].name \in DOMAIN symbols
  BY <1>1, <1>2 DEF TableUpTo, TableOf, NamesBefore
<1>5. symbols[program[i].name].section = "text" /\ symbols[program[i].name].offset = Counted(program, "text", i)
  <2> DEFINE b == IF program[i].name \in globals THEN "Global" ELSE "Local"
             y == symbols[program[i].name]
  <2>1. y = [section |-> SectionIn(program, i), offset |-> Counted(program, SectionIn(program, i), i),
             binding |-> b]
    BY <1>1, <1>2 DEF TableUpTo, TableOf
  <2> HIDE DEF b, y
  <2>2. y.section = SectionIn(program, i) /\ y.offset = Counted(program, SectionIn(program, i), i)
    BY <2>1
  <2> QED BY <2>2, <1>3 DEF y
<1>6. addresses[program[i].name] = section("text").address + Counted(program, "text", i)
  BY <1>1, <1>4, <1>5 DEF SymbolAddress
<1> QED BY <1>1, <1>2, <1>6, AllCountsAgree

\* It leaves branches that reach their labels.
LEMMA FinishBranches == IndInv /\ Finish => BranchReachesLabel'
<1> SUFFICES ASSUME ProgramInv, TableInv, LayoutInv, ImageInv, Finish, ~Reopened("text"),
                    NEW i \in DOMAIN program, program[i].kind = "instruction",
                    program[i].mnemonic \in Branches, NEW k, k = Cardinality(InstructionsBefore(i))
             PROVE  section("text").address + k + decode(image'.text[k + 1]).immediate
                        = addresses[program[i].operands[1].name]
  BY SameProgram DEF IndInv, BranchReachesLabel, BranchesReachLabels
<1>1. /\ TextUpTo(Len(program) + 1) /\ Len(program) \in Nat /\ DOMAIN program = 1 .. Len(program)
  BY AtFinish
<1>2. i \in Before(program, "instruction", Len(program) + 1) /\ i \in 1 .. Len(program) + 1
      /\ i \in 1 .. Len(program) /\ i \in Nat
  BY <1>1 DEF Before
<1>3. k = Counted(program, "text", i) /\ k \in Nat
  BY <1>1, <1>2, AllCountsAgree, InstructionsFinite
<1> DEFINE a == addresses[program[i].operands[1].name]
           b == section("text").address
           w == decode(image.text[k + 1]).immediate
<1>4. w = a - (b + k)
  BY <1>1, <1>2, <1>3 DEF TextUpTo, TextOf
<1>5. LaidOut
  BY DEF LaidOut, Finish, AtEnd
<1>6. a \in Int
  BY <1>2, <1>5, TargetHasAddress, MaxValue DEF Word
<1>7. b \in Int
  <2>1. SectionIn(program, i) = "text"
    BY <1>1, <1>2 DEF TextUpTo, TextOf
  <2> QED BY <2>1, <1>2, <1>5, TextIsPlaced, MaxValue DEF Word
<1>8. image'.text = image.text
  BY FinalImage
<1> HIDE DEF a, b, w
<1>9. b + k + w = a
  BY <1>3, <1>4, <1>6, <1>7
<1> QED BY <1>8, <1>9 DEF a, b, w

\* It leaves payloads apart from each other.
LEMMA FinishFiles == IndInv /\ Finish => FileRangesDisjoint'
<1> SUFFICES ASSUME ProgramInv, TableInv, LayoutInv, ImageInv, Finish PROVE FileRangesDisjoint'
  BY DEF IndInv
<1> DEFINE x == Encoded
           n == Len(sections)
           w == [k \in 1 .. n |-> Len(Payload(x, x.sections[k].type))]
           c == FileCursor(x)
           z == image'
           filed == {k \in DOMAIN z.sections : z.sections[k].type # "bss"}
           start == z.header.symbol_table + SymbolEntryWords * z.header.symbol_count
<1>1. DOMAIN sections = 1 .. n /\ n \in Nat
  BY AtFinish
<1>2. DOMAIN x.sections = 1 .. n /\ DOMAIN z.sections = 1 .. n
  BY <1>1, FinalImage
<1>3. \A k \in 1 .. n : x.sections[k].type = sections[k].name /\ z.sections[k].type = sections[k].name
  BY <1>1, FinalImage
<1>4. \A k \in 1 .. n : w[k] \in Nat
  BY <1>1, <1>3, SizesMatch
<1>5. Len(x.symbols) \in Nat
  <2> DEFINE m == Len(Ordered)
             y == x.symbols
  <2>1. y = [k \in DOMAIN Ordered |-> SymbolEntry(k - 1)]
    BY FinalImage
  <2>2. DOMAIN Ordered = 1 .. m /\ m \in Nat
    BY SortedFacts, SequenceFacts DEF Ordered
  <2> HIDE DEF m, y
  <2>3. y = [k \in 1 .. m |-> y[k]]
    BY <2>1, <2>2
  <2> QED BY <2>2, <2>3, LenOf DEF y
<1>6. Len(x.sections) \in Nat
  <2> DEFINE y == x.sections
  <2>1. y = [k \in DOMAIN sections |-> FileEntry(sections[k])]
    BY FinalImage
  <2> HIDE DEF y
  <2>2. y = [k \in 1 .. n |-> y[k]]
    BY <2>1, <1>1
  <2> QED BY <2>2, <1>1, LenOf DEF y
<1>7. PayloadAt(x) = start /\ start \in Int
  <2>1. z.header.symbol_table = SymbolTableAt(x) /\ z.header.symbol_count = Len(x.symbols)
    BY FinalImage
  <2> DEFINE a == Len(x.symbols)
             b == Len(x.sections)
  <2>2. PayloadAt(x) = SymbolTableAt(x) + a * SymbolEntryWords
        /\ SymbolTableAt(x) = HeaderWords + b * SectionEntryWords
    BY DEF PayloadAt, SymbolTableAt
  <2>3. start = SymbolTableAt(x) + SymbolEntryWords * a
    BY <2>1
  <2>4. a \in Nat /\ b \in Nat
    BY <1>5, <1>6
  <2> HIDE DEF a, b, start
  <2> QED BY <2>2, <2>3, <2>4 DEF HeaderWords, SectionEntryWords, SymbolEntryWords
<1>8. ASSUME NEW k \in filed
      PROVE  k \in 1 .. n /\ z.sections[k].file_offset = c[k] /\ z.sections[k].size = w[k]
  <2>1. k \in 1 .. n /\ sections[k].name # "bss"
    BY <1>2, <1>3
  <2>2. z.sections[k].file_offset = c[k] /\ z.sections[k].size = SizeOf(x, sections[k].name)
    BY <1>1, <2>1, FinalImage
  <2>3. SizeOf(x, sections[k].name) = Len(Payload(x, sections[k].name))
    BY <1>1, <2>1, SizesMatch
  <2>4. w[k] = Len(Payload(x, sections[k].name))
    BY <1>3, <2>1
  <2> QED BY <2>1, <2>2, <2>3, <2>4
<1>9. /\ \A k \in 1 .. n : c[k] \in Int /\ c[k] >= PayloadAt(x)
      /\ \A j, k \in 1 .. n : j < k => c[j] + w[j] <= c[k]
  <2>1. PayloadAt(x) \in Int
    BY <1>7
  <2>2. w = [k \in 1 .. n |-> Len(Payload(x, x.sections[k].type))]
    OBVIOUS
  <2> HIDE DEF x, w
  <2> QED BY <1>1, <1>2, <1>4, <2>1, <2>2, FileCursorFacts
<1>10. /\ \A k \in filed : z.sections[k].file_offset >= start
       /\ \A j, k \in filed : j < k =>
             z.sections[j].file_offset + z.sections[j].size <= z.sections[k].file_offset
  <2> HIDE DEF x, w, c, z, filed, start
  <2> QED BY <1>7, <1>8, <1>9
<1> QED BY <1>10 DEF FileRangesDisjoint

\* A row of the table in the image: its section, its offset and who sees it.
LEMMA SymbolRow ==
    ASSUME ProgramInv, TableInv, LayoutInv, ImageInv, Finish, NEW k \in DOMAIN Ordered
    PROVE  LET entry == SymbolEntry(k - 1)
               name  == Ordered[k]
           IN  /\ entry.identifier = k - 1
               /\ image'.sections[entry.section + 1].virtual_address + entry.offset = addresses[name]
               /\ entry.visibility = "Global" <=> name = "_start" \/ symbols[name].binding = "Global"
               /\ name = "_start" => entry.type = "Entry"
<1> DEFINE name == Ordered[k]
           s == symbols[name].section
           entry == SymbolEntry(k - 1)
<1>1. k \in Int /\ name \in DOMAIN symbols /\ (k - 1) + 1 = k
  <2>1. DOMAIN Ordered = 1 .. Len(Ordered) /\ \A h \in DOMAIN Ordered : Ordered[h] \in DOMAIN symbols
    BY SortedFacts, SequenceFacts DEF Ordered
  <2> QED BY <2>1
<1> DEFINE type == IF name = "_start" THEN "Entry" ELSE symbols[name].binding
           sight == IF symbols[name].binding = "Global" \/ name = "_start" THEN "Global" ELSE "Local"
           o == symbols[name].offset
           h == section_index(s)
<1>2. entry = [identifier |-> k - 1, type |-> type, section |-> h, offset |-> o, visibility |-> sight]
  BY <1>1 DEF SymbolEntry
<1>3. /\ TableUpTo(Len(program) + 1) /\ AllSizes /\ SectionChain(base, sizes, sections, 5)
      /\ addresses = [n \in DOMAIN symbols |-> SymbolAddress(n)]
  BY AtFinish
<1>4. s \in DOMAIN sizes /\ DOMAIN sizes \subseteq SectionNames
  BY <1>1, <1>3, SymbolAddressTyped DEF AllSizes, Sizes
<1>5. h + 1 \in DOMAIN sections /\ section(s) = sections[h + 1]
  BY <1>3, <1>4, EverySectionIsPlaced
<1>6. image'.sections[h + 1].virtual_address = section(s).address
  BY <1>5, FinalImage
<1>7. addresses[name] = section(s).address + o
  BY <1>1, <1>3 DEF SymbolAddress
<1> HIDE DEF name, s, entry, type, sight, o, h
<1>8. /\ entry.identifier = k - 1 /\ entry.type = type /\ entry.section = h
      /\ entry.offset = o /\ entry.visibility = sight
  BY <1>2
<1>9. sight = "Global" <=> name = "_start" \/ symbols[name].binding = "Global"
  BY DEF sight
<1>10. name = "_start" => type = "Entry"
  BY DEF type
<1> QED BY <1>6, <1>7, <1>8, <1>9, <1>10 DEF entry, name

\* A label is global where some directive names it.
LEMMA GlobalBinding ==
    ASSUME ProgramInv, TableInv, LayoutInv, ImageInv, Finish, NEW name \in DOMAIN symbols
    PROVE  symbols[name].binding = "Global" <=> \E i \in DOMAIN program : program[i] = Global(name)
<1>1. /\ TableUpTo(Len(program) + 1) /\ Len(program) \in Nat /\ DOMAIN program = 1 .. Len(program)
  BY AtFinish
<1> DEFINE n == Len(program) + 1
<1>2. PICK j \in Before(program, "label", n) : program[j].name = name
  BY <1>1 DEF TableUpTo, TableOf, NamesBefore
<1> DEFINE b == IF name \in globals THEN "Global" ELSE "Local"
           y == symbols[name]
<1>3. y = [section |-> SectionIn(program, j), offset |-> Counted(program, SectionIn(program, j), j),
           binding |-> b]
  BY <1>1, <1>2 DEF TableUpTo, TableOf
<1>4. y.binding = b
  <2> HIDE DEF y, b
  <2> QED BY <1>3
<1>5. globals = NamesBefore(program, "global", n)
  BY <1>1 DEF TableUpTo, TableOf
<1>6. name \in globals <=> \E i \in DOMAIN program : program[i] = Global(name)
  <2>1. ASSUME NEW i \in DOMAIN program, program[i].kind = "global", program[i].name = name
        PROVE  program[i] = Global(name)
    <3>1. IsStatement(program[i])
      BY <1>1 DEF ProgramInv
    <3> QED BY <2>1, <3>1 DEF IsStatement, Global
  <2>2. ASSUME NEW i \in DOMAIN program, program[i] = Global(name)
        PROVE  program[i].kind = "global" /\ program[i].name = name
    BY <2>2 DEF Global
  <2>3. name \in globals <=> \E i \in Before(program, "global", n) : program[i].name = name
    BY <1>5 DEF NamesBefore
  <2>4. Before(program, "global", n) = {i \in DOMAIN program : program[i].kind = "global"}
    BY <1>1 DEF Before
  <2> QED BY <2>1, <2>2, <2>3, <2>4
<1> HIDE DEF y
<1> QED BY <1>4, <1>6 DEF y

\* It leaves symbols that resolve to the addresses used.
LEMMA FinishSymbols == IndInv /\ Finish => SymbolsMatchLayout'
<1> SUFFICES ASSUME ProgramInv, TableInv, LayoutInv, ImageInv, Finish PROVE SymbolsMatchLayout'
  BY DEF IndInv
<1> DEFINE z == image'
<1>1. /\ z.symbols = [k \in DOMAIN Ordered |-> SymbolEntry(k - 1)]
      /\ z.header.start_symbol = StartSymbol /\ z.header.entry_point = addresses["_start"]
  BY FinalImage
<1>2. Ordered' = Ordered /\ addresses' = addresses /\ program' = program
  BY SameProgram
<1>3. ASSUME NEW k \in DOMAIN Ordered
      PROVE  /\ z.symbols[k].identifier = k - 1
             /\ z.sections[z.symbols[k].section + 1].virtual_address + z.symbols[k].offset
                    = addresses[Ordered[k]]
             /\ z.symbols[k].visibility = "Global" <=>
                   \/ Ordered[k] = "_start"
                   \/ \E i \in DOMAIN program : program[i] = Global(Ordered[k])
             /\ Ordered[k] = "_start" => z.symbols[k].type = "Entry"
  <2>1. z.symbols[k] = SymbolEntry(k - 1)
    BY <1>1
  <2>2. Ordered[k] \in DOMAIN symbols
    BY SortedFacts DEF Ordered
  <2>3. symbols[Ordered[k]].binding = "Global" <=> \E i \in DOMAIN program : program[i] = Global(Ordered[k])
    BY <2>2, GlobalBinding
  <2> DEFINE entry == SymbolEntry(k - 1)
  <2>4. /\ entry.identifier = k - 1
        /\ z.sections[entry.section + 1].virtual_address + entry.offset = addresses[Ordered[k]]
        /\ entry.visibility = "Global" <=> Ordered[k] = "_start" \/ symbols[Ordered[k]].binding = "Global"
        /\ Ordered[k] = "_start" => entry.type = "Entry"
    BY SymbolRow
  <2> HIDE DEF entry, z
  <2> QED BY <2>1, <2>3, <2>4 DEF entry
<1> DEFINE c == StartSymbol + 1
<1>4. c \in DOMAIN Ordered /\ Ordered[c] = "_start"
  <2>1. "_start" \in DOMAIN symbols
    BY AtFinish DEF Tables
  <2> QED BY <2>1, StartIsEntry
<1>7. z.header.start_symbol + 1 = c
  BY <1>1
<1> HIDE DEF c, z
<1>8. /\ z.symbols[c].type = "Entry"
      /\ z.sections[z.symbols[c].section + 1].virtual_address + z.symbols[c].offset = z.header.entry_point
  BY <1>1, <1>3, <1>4
<1> QED BY <1>2, <1>3, <1>7, <1>8 DEF SymbolsMatchLayout, z

-----------------------------------------------------------------------------
(* The theorems *)

\* The four invariants hold at the start,
LEMMA InductiveInit == Init => IndInv
  BY ProgramInvInit, TableInvInit, LayoutInvInit, ImageInvInit DEF IndInv

\* are inductive together,
LEMMA InductiveStep == IndInv /\ [Next]_vars => IndInv'
  BY ProgramInvStep, TableInvStep, LayoutInvStep, ImageInvStep DEF IndInv

\* and so always hold.
LEMMA Inductive == Spec => []IndInv
  BY InductiveInit, InductiveStep, PTL DEF Spec

\* Only the last step assembles, and nothing follows it.
LEMMA AssembledLast ==
    ASSUME ProgramInv, [Next]_vars
    PROVE  \/ Finish
           \/ UNCHANGED vars
           \/ ~Assembled'
<1>1. CASE pass = "done"
  BY <1>1, DoneStays
<1>2. CASE pass # "done"
  <2>1. outcome = "running"
    BY <1>2 DEF ProgramInv
  <2>2. CASE UNCHANGED vars
    BY <2>2
  <2>3. CASE Next
    <3>1. Finish \/ outcome' \in {"running", "runtime_error", "LexError", "ParseError", "SemanticError",
             "SymbolTableError", "ResolutionError", "LayoutError", "out_of_range", "EncodingError"}
      BY <2>1, <2>3 DEF Next, Tokenize, ParseStatement, ParseNewline, ParseEnd, ParsesOn, Analyze, SymbolSection,
       SymbolGlobal, SymbolLabel, SymbolInstruction, Resolve, MeasureSection,
       MeasureInstruction, MeasureOther, Measured, PlaceSection, ResolveAddresses, Populate,
       EncodeSection, EncodeOther, EncodeInstruction, Throw, Begin, Onward, Enter
    <3> QED BY <3>1 DEF Assembled
  <2> QED BY <2>2, <2>3
<1> QED BY <1>1, <1>2

\* The state stays typed: offsets lie within what was counted for their section,
\* addresses are words, and so is what encode_instruction appends to .text.
THEOREM AssemblerTyped == Spec => []AssemblerTypeOK
<1>1. IndInv => AssemblerTypeOK
  BY DEF IndInv, ProgramInv, TableInv, LayoutInv, ImageInv, AssemblerTypeOK, Passes
<1> QED BY <1>1, Inductive, PTL

\* The parser accepts exactly the texts whose lines all have a shape of the
\* language, however many operands they list, and its statements are those
\* lines in their order.
THEOREM ParserCorrect == Spec => []ParserMatchesGrammar
<1> DEFINE I == ProgramInv /\ GrammarInv
<1>1. Init => I
  BY ProgramInvInit, GrammarInvInit
<1>2. I /\ [Next]_vars => I'
  BY ProgramInvStep, GrammarInvStep
<1>3. I => ParserMatchesGrammar
  BY DEF GrammarInv
<1> QED BY <1>1, <1>2, <1>3, PTL DEF Spec

\* The image the encode loop ends with announces exactly the memory its sections
\* fill: their addresses, counted by Layout::measure_sections, follow each other
\* with the sizes TrnImage::layout takes from the words that were emitted.
THEOREM SectionsPartition == Spec => []SectionsPartitionMemory
<1>1. Init => SectionsPartitionMemory
  BY DEF Init, SectionsPartitionMemory, Assembled
<1>2. IndInv /\ SectionsPartitionMemory /\ [Next]_vars => SectionsPartitionMemory'
  <2> SUFFICES ASSUME IndInv, SectionsPartitionMemory, [Next]_vars PROVE SectionsPartitionMemory'
    OBVIOUS
  <2>1. CASE Finish
    BY <2>1, FinishPartitions
  <2>2. CASE UNCHANGED vars
    BY <2>2 DEF vars, arguments, parsed, table, placement, SectionsPartitionMemory, Assembled
  <2>3. CASE ~Assembled'
    BY <2>3 DEF SectionsPartitionMemory
  <2> QED BY <2>1, <2>2, <2>3, AssembledLast DEF IndInv
<1> QED BY <1>1, <1>2, Inductive, PTL DEF Spec

\* A label of .text has the address its following instruction is loaded at: the
\* offset SymbolTable::build gave it counts the same instructions the encode loop
\* emits, however often .text is left and opened again.
THEOREM LabelsReachInstructions == Spec => []LabelsPointAtInstructions
<1>1. Init => LabelsPointAtInstructions
  BY DEF Init, LabelsPointAtInstructions, Assembled
<1>2. IndInv /\ LabelsPointAtInstructions /\ [Next]_vars => LabelsPointAtInstructions'
  <2> SUFFICES ASSUME IndInv, LabelsPointAtInstructions, [Next]_vars PROVE LabelsPointAtInstructions'
    OBVIOUS
  <2>1. CASE Finish
    BY <2>1, FinishLabels
  <2>2. CASE UNCHANGED vars
    <3>1. UNCHANGED << source, base, program, pass, symbols, sections, addresses, outcome >>
      BY <2>2 DEF vars, arguments, parsed, table, placement
    <3>2. /\ Assembled' = Assembled /\ \A i : SectionOf(i)' = SectionOf(i)
          /\ \A i : InstructionsBefore(i)' = InstructionsBefore(i) /\ section("text")' = section("text")
      BY <3>1 DEF Assembled, SectionOf, SectionsBefore, InstructionsBefore, section, section_index
    <3> QED BY <3>1, <3>2 DEF LabelsPointAtInstructions
  <2>3. CASE ~Assembled'
    BY <2>3 DEF LabelsPointAtInstructions
  <2> QED BY <2>1, <2>2, <2>3, AssembledLast DEF IndInv
<1> QED BY <1>1, <1>2, Inductive, PTL DEF Spec

\* In a program that opens .text once, the word emitted for a branch takes the
\* executor to the label the statement names: the displacement of resolve_branch
\* survives make_cargo, encode and decode.
THEOREM BranchesReach == Spec => []BranchReachesLabel
<1>1. Init => BranchReachesLabel
  BY DEF Init, BranchReachesLabel, BranchesReachLabels, Assembled
<1>2. IndInv /\ BranchReachesLabel /\ [Next]_vars => BranchReachesLabel'
  <2> SUFFICES ASSUME IndInv, BranchReachesLabel, [Next]_vars PROVE BranchReachesLabel'
    OBVIOUS
  <2>1. CASE Finish
    BY <2>1, FinishBranches
  <2>2. CASE UNCHANGED vars
    BY <2>2 DEF vars, arguments, parsed, table, placement, BranchReachesLabel, BranchesReachLabels, Assembled, Reopened, InstructionsBefore, section, section_index
  <2>3. CASE ~Assembled'
    BY <2>3 DEF BranchReachesLabel, BranchesReachLabels
  <2> QED BY <2>1, <2>2, <2>3, AssembledLast DEF IndInv
<1> QED BY <1>1, <1>2, Inductive, PTL DEF Spec

\* The payloads of the file lie behind its tables and apart from each other: the
\* offsets of TrnImage::layout leave room for the words of each section.
THEOREM FilesAreDisjoint == Spec => []FileRangesDisjoint
<1>1. Init => FileRangesDisjoint
  BY DEF Init, FileRangesDisjoint, Assembled
<1>2. IndInv /\ FileRangesDisjoint /\ [Next]_vars => FileRangesDisjoint'
  <2> SUFFICES ASSUME IndInv, FileRangesDisjoint, [Next]_vars PROVE FileRangesDisjoint'
    OBVIOUS
  <2>1. CASE Finish
    BY <2>1, FinishFiles
  <2>2. CASE UNCHANGED vars
    BY <2>2 DEF vars, arguments, parsed, table, placement, FileRangesDisjoint, Assembled
  <2>3. CASE ~Assembled'
    BY <2>3 DEF FileRangesDisjoint
  <2> QED BY <2>1, <2>2, <2>3, AssembledLast DEF IndInv
<1> QED BY <1>1, <1>2, Inductive, PTL DEF Spec

\* The symbols of the image resolve, from its own section table, to the addresses
\* the assembler used; each is visible exactly if a directive anywhere in the
\* program names it or it is the entry, and the start symbol is at the entry point.
THEOREM SymbolsMatch == Spec => []SymbolsMatchLayout
<1>1. Init => SymbolsMatchLayout
  BY DEF Init, SymbolsMatchLayout, Assembled
<1>2. IndInv /\ SymbolsMatchLayout /\ [Next]_vars => SymbolsMatchLayout'
  <2> SUFFICES ASSUME IndInv, SymbolsMatchLayout, [Next]_vars PROVE SymbolsMatchLayout'
    OBVIOUS
  <2>1. CASE Finish
    BY <2>1, FinishSymbols
  <2>2. CASE UNCHANGED vars
    BY <2>2 DEF vars, arguments, parsed, table, placement, SymbolsMatchLayout, Assembled, Ordered
  <2>3. CASE ~Assembled'
    BY <2>3 DEF SymbolsMatchLayout
  <2> QED BY <2>1, <2>2, <2>3, AssembledLast DEF IndInv
<1> QED BY <1>1, <1>2, Inductive, PTL DEF Spec

-----------------------------------------------------------------------------
(* Which programs assemble. *)

\* make_cargo takes exactly the numbers of so many trits.
LEMMA CargoFitsIff == \A v \in Int : CargoFits(v) <=> InCargo(v)
<1>1. CARGO_WIDTH \in 0 .. WIDTH
  BY FormatAssumption, WidthAssumption DEF CARGO_WIDTH, CARGO_OFFSET, RS2_OFFSET, RS1_OFFSET, RD_OFFSET
<1> QED BY <1>1, NothingRemains DEF CargoFits, InCargo, MaxCargo

\* Every instruction is in .text.
AllInText == \A j \in Before(program, "instruction", Len(program) + 1) : SectionIn(program, j) = "text"

\* Then the properties count what the passes count.
LEMMA TextCounts ==
    ASSUME ProgramInv, AllInText, NEW i \in 1 .. Len(program) + 1
    PROVE  /\ Cardinality(InstructionsBefore(i)) = Counted(program, "text", i)
           /\ Counted(program, "text", i) \in Nat
           /\ Cardinality(Instructions) = Counted(program, "text", Len(program) + 1)
           /\ \A name : name # "text" => Counted(program, name, i) = 0
<1>0. Len(program) \in Nat /\ DOMAIN program = 1 .. Len(program)
  BY SequenceFacts DEF ProgramInv
<1>1. \A j \in Before(program, "instruction", i) : SectionIn(program, j) = "text"
  BY <1>0 DEF AllInText, Before
<1>2. InstructionsBefore(i) = InstructionsIn(program, "text", i)
  BY <1>1 DEF InstructionsBefore, InstructionsIn, Before
<1>3. Instructions = InstructionsIn(program, "text", Len(program) + 1)
  <2>1. \A j : j \in DOMAIN program <=> j \in 1 .. (Len(program) + 1) - 1
    BY <1>0
  <2> QED BY <2>1 DEF AllInText, Instructions, InstructionsIn, Before
<1>4. ASSUME NEW name, name # "text" PROVE Counted(program, name, i) = 0
  <2>1. InstructionsIn(program, name, i) = {}
    BY <1>1, <1>4 DEF InstructionsIn
  <2> QED BY <2>1, FS_EmptySet DEF Counted
<1>5. Counted(program, "text", i) \in Nat
  BY <1>0, InstructionsFinite
<1> QED BY <1>2, <1>3, <1>4, <1>5 DEF Counted

\* Well-formed programs have their instructions in .text.
LEMMA WellFormedText ==
    ASSUME ProgramInv, \A i \in Instructions : SectionOf(i) = "text"
    PROVE  AllInText
<1>1. Len(program) \in Nat /\ DOMAIN program = 1 .. Len(program)
  BY SequenceFacts DEF ProgramInv
<1> QED BY <1>1, SectionOfIsSectionIn DEF AllInText, Before, Instructions

\* The first section placed is .text, if there is one.
TextLeads == "text" \in DOMAIN sizes /\ Len(sections) > 0 => sections[1].name = "text"

\* The words behind b: as many as .text has.
Above(b, sz) == b + (IF "text" \in DOMAIN sz THEN sz["text"] ELSE 0)

\* Where only .text has words, every section is at b or behind .text.
LEMMA OnlyTextHasWords ==
    ASSUME NEW b \in Int, NEW sz, NEW secs, NEW m, SectionChain(b, sz, secs, m),
           \A name \in DOMAIN sz : sz[name] \in Nat /\ (name # "text" => sz[name] = 0),
           "text" \in DOMAIN sz /\ Len(secs) > 0 => secs[1].name = "text"
    PROVE  /\ Above(b, sz) \in Int
           /\ \A k \in 1 .. Len(secs) :
                 /\ secs[k].address = IF secs[k].name = "text" THEN b ELSE Above(b, sz)
                 /\ secs[k].address + secs[k].size = Above(b, sz)
<1> DEFINE n == Len(secs)
           T == Above(b, sz)
           Right(k) == /\ secs[k].address = IF secs[k].name = "text" THEN b ELSE T
                       /\ secs[k].address + secs[k].size = T
           S == {k \in 0 .. n - 1 : Right(k + 1)}
<1>1. n \in Nat /\ DOMAIN secs = 1 .. n
  BY SequenceFacts DEF SectionChain
<1>2. T \in Int
  BY DEF Above
<1>3. ASSUME NEW k \in 1 .. n
      PROVE  /\ secs[k].name \in DOMAIN sz /\ secs[k].size = sz[secs[k].name]
             /\ secs[k].address \in Word
  <2> DEFINE s == secs[k]
  <2>1. IsPlaced(sz, s)
    BY DEF SectionChain
  <2> HIDE DEF s
  <2>2. s.name \in DOMAIN sz /\ s.size = sz[s.name] /\ s.address \in Word
    BY <2>1 DEF IsPlaced
  <2> QED BY <2>2 DEF s
<1>4. ASSUME NEW k \in 1 .. n, secs[k].name # "text", secs[k].address = T PROVE Right(k)
  <2>1. secs[k].size = 0
    BY <1>3, <1>4
  <2> QED BY <1>2, <1>4, <2>1
<1>5. ASSUME n > 0 PROVE Right(1)
  <2>0. 1 \in 1 .. n /\ secs[1].address = b
    BY <1>1, <1>5 DEF SectionChain
  <2>1. CASE secs[1].name = "text"
    <3>1. "text" \in DOMAIN sz /\ secs[1].size = sz["text"]
      BY <2>0, <2>1, <1>3
    <3> QED BY <2>0, <2>1, <3>1 DEF Above
  <2>2. CASE secs[1].name # "text"
    <3>1. T = b
      BY <2>2, <1>5 DEF Above
    <3> HIDE DEF Right
    <3> QED BY <2>0, <2>2, <3>1, <1>4
  <2> QED BY <2>1, <2>2
<1>6. ASSUME NEW k \in 0 .. (n - 1) - 1, k \in S PROVE k + 1 \in S
  <2> DEFINE j == k + 1
  <2>1. j \in 1 .. n - 1 /\ j + 1 \in 1 .. n /\ j + 1 # 1 /\ n > 0 /\ j \in 0 .. n - 1 /\ 1 \in 1 .. n
    BY <1>1
  <2>2. Right(j)
    BY <1>6
  <2> HIDE DEF j
  <2>3. secs[j + 1].address = T
    BY <2>1, <2>2 DEF SectionChain
  <2>4. secs[j + 1].name # "text"
    <3> SUFFICES ASSUME secs[j + 1].name = "text" PROVE FALSE
      OBVIOUS
    <3>1. "text" \in DOMAIN sz
      BY <2>1, <1>3
    <3>2. secs[1].name = secs[j + 1].name
      BY <2>1, <3>1
    <3> QED BY <2>1, <3>2 DEF SectionChain
  <2>5. Right(j + 1)
    <3> HIDE DEF Right
    <3> QED BY <2>1, <2>3, <2>4, <1>4
  <2> QED BY <2>1, <2>5 DEF j
<1> HIDE DEF Right
<1>7. \A k \in S : Right(k + 1)
  OBVIOUS
<1>8. ASSUME NEW k \in 1 .. n PROVE Right(k)
  <2>1. n - 1 \in Nat /\ k - 1 \in 0 .. n - 1 /\ (k - 1) + 1 = k /\ 0 \in 0 .. n - 1 /\ n > 0
    BY <1>1
  <2> DEFINE l == n - 1
  <2>2. 0 \in S
    BY <2>1, <1>5
  <2> HIDE DEF S
  <2>3. 0 .. n - 1 \subseteq S
    BY <2>1, <2>2, <1>6, UpTo
  <2>4. k - 1 \in S
    BY <2>1, <2>3
  <2>5. Right((k - 1) + 1)
    BY <2>4, <1>7
  <2> QED BY <2>1, <2>5
<1> QED BY <1>2, <1>8 DEF Right

\* The words the properties put behind .text are those of the layout.
LEMMA AboveIsMeant ==
    ASSUME ProgramInv, AllInText, AllSizes
    PROVE  /\ Above(base, sizes) = base + Cardinality(Instructions)
           /\ base \in Int
           /\ \A name \in DOMAIN sizes : sizes[name] \in Nat /\ (name # "text" => sizes[name] = 0)
<1>1. Len(program) \in Nat /\ DOMAIN program = 1 .. Len(program)
  BY SequenceFacts DEF ProgramInv
<1> DEFINE e == Len(program) + 1
<1>2. e \in Nat \ {0} /\ e \in 1 .. e
  BY <1>1
<1>3. /\ Cardinality(Instructions) = Counted(program, "text", e)
      /\ Counted(program, "text", e) \in Nat
      /\ \A name : name # "text" => Counted(program, name, e) = 0
  BY <1>2, TextCounts
<1>4. \A name \in DOMAIN sizes : sizes[name] = Counted(program, name, e)
  BY DEF AllSizes, Sizes
<1>5. \A name \in DOMAIN sizes : sizes[name] \in Nat
  BY <1>2, SizesAreCounts DEF AllSizes
<1>6. "text" \notin DOMAIN sizes => Counted(program, "text", e) = 0
  <2> SUFFICES ASSUME "text" \notin DOMAIN sizes PROVE Counted(program, "text", e) = 0
    OBVIOUS
  <2>1. InstructionsIn(program, "text", e) = {}
    <3> SUFFICES ASSUME NEW j \in InstructionsIn(program, "text", e) PROVE FALSE
      OBVIOUS
    <3>1. j \in Nat \ {0} /\ j <= e /\ SectionIn(program, j) = "text"
      BY <1>2 DEF InstructionsIn, Before
    <3>2. "text" # NoSection
      BY DEF NoSection
    <3>3. "text" \in NamesBefore(program, "section", j)
      BY <3>1, <3>2, SectionIsNamed
    <3>4. "text" \in NamesBefore(program, "section", e)
      BY <1>2, <3>1, <3>3, NamesGrow
    <3> QED BY <3>4 DEF AllSizes, Sizes
  <2> QED BY <2>1, FS_EmptySet DEF Counted
<1>7. base \in Int
  BY MaxValue DEF ProgramInv, Word
<1> HIDE DEF e
<1>8. Above(base, sizes) = base + Counted(program, "text", e)
  BY <1>3, <1>4, <1>6, <1>7 DEF Above
<1> QED BY <1>3, <1>4, <1>5, <1>7, <1>8

\* Every label has the address the program as a whole gives it.
LEMMA AddressIsMeant ==
    ASSUME ProgramInv, AllInText, TableUpTo(Len(program) + 1), AllSizes,
           SectionChain(base, sizes, sections, 5), TextLeads, NEW i \in Labels
    PROVE  /\ program[i].name \in DOMAIN symbols
           /\ SymbolAddress(program[i].name) = StatementAddress(i)
<1> DEFINE name == program[i].name
           s == SectionIn(program, i)
           e == Len(program) + 1
<1>1. Len(program) \in Nat /\ DOMAIN program = 1 .. Len(program)
  BY SequenceFacts DEF ProgramInv
<1>2. i \in Before(program, "label", e) /\ i \in 1 .. e
  BY <1>1 DEF Labels, Before
<1>3. name \in DOMAIN symbols /\ s \in DOMAIN offsets
  BY <1>2 DEF TableUpTo, TableOf, NamesBefore
<1>4. symbols[name].section = s /\ symbols[name].offset = Counted(program, s, i)
  <2> DEFINE b == IF name \in globals THEN "Global" ELSE "Local"
             y == symbols[name]
  <2>1. y = [section |-> s, offset |-> Counted(program, s, i), binding |-> b]
    BY <1>2 DEF TableUpTo, TableOf
  <2> HIDE DEF b, y, s
  <2> QED BY <2>1 DEF y
<1>5. s \in DOMAIN sizes /\ DOMAIN sizes \subseteq SectionNames
  BY <1>3 DEF TableUpTo, TableOf, AllSizes, Sizes
<1>6. /\ Above(base, sizes) = base + Cardinality(Instructions) /\ base \in Int
      /\ \A n \in DOMAIN sizes : sizes[n] \in Nat /\ (n # "text" => sizes[n] = 0)
  BY AboveIsMeant
<1>7. /\ section_index(s) + 1 \in DOMAIN sections /\ section(s) = sections[section_index(s) + 1]
      /\ section(s).name = s
  BY <1>5, EverySectionIsPlaced
<1>8. DOMAIN sections = 1 .. Len(sections) /\ Len(sections) \in Nat
  BY SequenceFacts DEF SectionChain
<1>9. section(s).address = IF s = "text" THEN base ELSE Above(base, sizes)
  <2> DEFINE k == section_index(s) + 1
  <2>1. k \in 1 .. Len(sections) /\ sections[k].name = s /\ section(s) = sections[k]
    BY <1>7, <1>8
  <2> HIDE DEF k, s
  <2>2. sections[k].address = IF sections[k].name = "text" THEN base ELSE Above(base, sizes)
    BY <1>6, <2>1, OnlyTextHasWords DEF TextLeads
  <2> QED BY <2>1, <2>2
<1>10. /\ Counted(program, "text", i) = Cardinality(InstructionsBefore(i))
       /\ Counted(program, "text", i) \in Nat
       /\ \A n : n # "text" => Counted(program, n, i) = 0
       /\ Cardinality(Instructions) \in Nat
  <2>1. e \in 1 .. e
    BY <1>1
  <2> QED BY <1>2, <2>1, TextCounts
<1>11. SymbolAddress(name) = section(s).address + Counted(program, s, i)
  BY <1>4 DEF SymbolAddress
<1>12. SectionOf(i) = s
  BY SectionOfIsSectionIn
<1>13. SymbolAddress(name) = StatementAddress(i)
  <2> DEFINE before == Cardinality(InstructionsBefore(i))
             all == Cardinality(Instructions)
             a == section(s).address
             c == Counted(program, s, i)
  <2>1. s = "text" => a = base /\ c = before
    BY <1>9, <1>10
  <2>2. s # "text" => a = base + all /\ c = 0
    BY <1>6, <1>9, <1>10
  <2>3. SymbolAddress(name) = a + c /\ all \in Nat /\ base \in Int /\ before \in Nat
    BY <1>6, <1>10, <1>11
  <2>4. StatementAddress(i) = base + (IF s = "text" THEN before ELSE all)
    BY <1>12 DEF StatementAddress
  <2> HIDE DEF before, all, a, c, s, name
  <2> QED BY <2>1, <2>2, <2>3, <2>4
<1> QED BY <1>3, <1>13

\* The next section of a well-formed program has an address.
LEMMA WellFormedIsPlaced ==
    ASSUME ProgramInv, AllInText, AllSizes, WellFormed, NEW m \in 1 .. 4,
           SectionChain(base, sizes, sections, m), TextLeads, SectionOrder[m] \in DOMAIN sizes
    PROVE  Fits(NextAddress)
<1> DEFINE n == Len(sections)
           name == SectionOrder[m]
           T == Above(base, sizes)
<1>1. DOMAIN sections = 1 .. n /\ n \in Nat
  BY SequenceFacts DEF SectionChain
<1>2. /\ T = base + Cardinality(Instructions) /\ base \in Int
      /\ \A s \in DOMAIN sizes : sizes[s] \in Nat /\ (s # "text" => sizes[s] = 0)
  BY AboveIsMeant
<1>3. Cardinality(Instructions) \in Nat
  <2>1. Len(program) + 1 \in 1 .. Len(program) + 1
    BY SequenceFacts DEF ProgramInv
  <2> QED BY <2>1, TextCounts
<1>4. base >= MIN_VALUE /\ base <= MAX_VALUE /\ MIN_VALUE \in Int /\ MAX_VALUE \in Int
  BY MaxValue DEF ProgramInv, Word
<1>5. CASE sections = << >>
  BY <1>4, <1>5 DEF NextAddress, Fits
<1>6. CASE sections # << >>
  <2>1. n > 0
    <3>1. n = 0 => sections = << >>
      BY EmptySeq DEF SectionChain, IsSequence
    <3> QED BY <1>1, <1>6, <3>1
  <2>2. n \in 1 .. n
    BY <1>1, <2>1
  <2>3. sections[n].address + sections[n].size = T
    <3> HIDE DEF n, T
    <3>1. sections[n].address + sections[n].size = Above(base, sizes)
      BY <1>2, <2>2, OnlyTextHasWords DEF TextLeads, n
    <3> QED BY <3>1 DEF T
  <2>4. NextAddress = T
    BY <1>6, <2>3 DEF NextAddress
  <2>5. name # "text"
    <3>1. m # 1
      <4> SUFFICES ASSUME m = 1 PROVE FALSE
        OBVIOUS
      <4>1. 1 \in 1 .. n
        BY <1>1, <2>1
      <4>2. IsPlaced(sizes, sections[1])
        BY <4>1 DEF SectionChain
      <4>3. sections[1].name \in SectionNames
        BY <4>2 DEF IsPlaced, AllSizes, Sizes
      <4>4. PICK h \in 1 .. 4 : sections[1].name = SectionOrder[h]
        BY <4>3 DEF SectionNames
      <4>5. h < 1
        BY <4>1, <4>4 DEF SectionChain
      <4> QED BY <4>5
    <3> QED BY <3>1 DEF SectionOrder
  <2>6. PICK i \in DOMAIN program : program[i].kind = "section" /\ program[i].name = name
    <3>1. name \in NamesBefore(program, "section", Len(program) + 1)
      BY DEF AllSizes, Sizes
    <3>2. Len(program) \in Nat /\ DOMAIN program = 1 .. Len(program)
      BY SequenceFacts DEF ProgramInv
    <3> QED BY <3>1, <3>2 DEF NamesBefore, Before
  <2>7. base + Cardinality(Instructions) <= MAX_VALUE
    BY <2>5, <2>6 DEF WellFormed
  <2> HIDE DEF T
  <2> QED BY <1>2, <1>3, <1>4, <2>4, <2>7 DEF Fits
<1> QED BY <1>5, <1>6

\* A number an operand asks the cargo to hold, with d for a label.
NumberOk(x, d) ==
    /\ x.kind = "immediate" => InCargo(x.value)
    /\ x.kind = "memory" => InCargo(x.offset)
    /\ x.kind = "symbol" => InCargo(d)

\* Nothing asks nothing.
LEMMA NothingInCargo == InCargo(0)
<1>1. CARGO_WIDTH \in Nat
  BY WidthAssumption, FormatAssumption DEF CARGO_WIDTH, CARGO_OFFSET
<1>2. MaxCargo \in Nat
  BY <1>1, HalfPower DEF MaxCargo
<1> QED BY <1>2 DEF InCargo

\* The encoder tests every number an instruction has, whatever its shape.
LEMMA EveryNumberIsTested ==
    ASSUME NEW p, IsStatement(p), p.kind = "instruction", analyze(p), NEW m, m = p.mnemonic,
           NEW q, q = p.operands, NEW d \in Int, NEW o, o = IF m \in Branches THEN << Imm(d) >> ELSE q
    PROVE  Encodable(m, o) <=> \A k \in DOMAIN q : NumberOk(q[k], d)
<1> DEFINE c == FieldsOf(m, o).cargo
           Ok == \A k \in DOMAIN q : NumberOk(q[k], d)
<1>1. m \in Mnemonic /\ IsOperands(q)
  BY OperandKinds
<1>2. DOMAIN q = 1 .. Len(q) /\ Len(q) \in Nat
  BY <1>1, SequenceFacts DEF IsOperands
<1>3. c \in Int
  <2>1. m \in Branches => \E n \in Int : o = << Imm(n) >>
    OBVIOUS
  <2>2. m \notin Branches => o = p.operands
    OBVIOUS
  <2> HIDE DEF c
  <2>3. FieldsOf(m, o).cargo \in Int
    BY <2>1, <2>2, FieldsTyped
  <2> QED BY <2>3 DEF c
<1>4. Encodable(m, o) <=> InCargo(c)
  BY <1>3, CargoFitsIff DEF Encodable
<1>5. InCargo(0)
  BY NothingInCargo
<1>c. m \in TwoRegister \cup {"CMP"} => Len(q) = 2 /\ q[1].kind = "register" /\ q[2].kind = "register"
  BY OperandKinds
<1>s. m = "ST" => Len(q) = 2 /\ q[1].kind = "memory" /\ q[2].kind = "register"
  BY OperandKinds
<1>r. \A x : x.kind = "register" => NumberOk(x, d)
  BY DEF NumberOk
<1>i. \A x : x.kind = "immediate" => (NumberOk(x, d) <=> InCargo(x.value))
  BY DEF NumberOk
<1>m. \A x : x.kind = "memory" => (NumberOk(x, d) <=> InCargo(x.offset))
  BY DEF NumberOk
<1>l. \A x : x.kind = "symbol" => (NumberOk(x, d) <=> InCargo(d))
  BY DEF NumberOk
<1>z. \A f1, f2, f3, n : Fields(f1, f2, f3, n).cargo = n
  BY DEF Fields
<1> USE DEF ZeroOperand, ThreeRegister, TwoRegister, InOut, Branches
<1>6. CASE m \in ThreeRegister
  <2>1. Len(q) = 3 /\ q[1].kind = "register" /\ q[2].kind = "register" /\ q[3].kind = "register"
    BY <1>6, OperandKinds
  <2>2. c = 0
    BY <1>6, <1>z DEF FieldsOf
  <2>3. Ok
    <3>1. DOMAIN q = 1 .. 3
      BY <1>2, <2>1
    <3> QED BY <2>1, <3>1, <1>r
  <2> QED BY <2>2, <2>3, <1>4, <1>5
<1>7. CASE m \in TwoRegister \cup {"CMP"}
  <2>1. c = 0
    BY <1>7, <1>z DEF FieldsOf
  <2>2. Ok
    <3>1. DOMAIN q = 1 .. 2
      BY <1>2, <1>c, <1>7
    <3> QED BY <1>c, <1>7, <3>1, <1>r
  <2> QED BY <2>1, <2>2, <1>4, <1>5
<1>8. CASE m \in InOut \cup {"LDI"}
  <2>1. Len(q) = 2 /\ q[1].kind = "register" /\ q[2].kind = "immediate"
    BY <1>8, OperandKinds
  <2>2. c = q[2].value
    BY <1>8, <1>z DEF FieldsOf
  <2>3. Ok <=> InCargo(c)
    <3>1. DOMAIN q = 1 .. 2
      BY <1>2, <2>1
    <3>2. NumberOk(q[1], d) /\ (NumberOk(q[2], d) <=> InCargo(c))
      BY <2>1, <2>2, <1>r, <1>i
    <3> QED BY <3>1, <3>2
  <2> QED BY <2>3, <1>4
<1>9. CASE m \in {"LD", "LEA"}
  <2>1. Len(q) = 2 /\ q[1].kind = "register" /\ q[2].kind = "memory"
    BY <1>9, OperandKinds
  <2>2. c = q[2].offset
    BY <1>9, <1>z DEF FieldsOf
  <2>3. Ok <=> InCargo(c)
    <3>1. DOMAIN q = 1 .. 2
      BY <1>2, <2>1
    <3>2. NumberOk(q[1], d) /\ (NumberOk(q[2], d) <=> InCargo(c))
      BY <2>1, <2>2, <1>r, <1>m
    <3> QED BY <3>1, <3>2
  <2> QED BY <2>3, <1>4
<1>10. CASE m = "ST"
  <2>2. c = q[1].offset
    BY <1>10, <1>z DEF FieldsOf
  <2>3. Ok <=> InCargo(c)
    <3>1. DOMAIN q = 1 .. 2
      BY <1>2, <1>s, <1>10
    <3>2. NumberOk(q[2], d) /\ (NumberOk(q[1], d) <=> InCargo(c))
      BY <1>s, <1>10, <2>2, <1>r, <1>m
    <3> QED BY <3>1, <3>2
  <2> QED BY <2>3, <1>4
<1>11. CASE m \in Branches
  <2>1. Len(q) = 1 /\ q[1].kind = "symbol"
    BY <1>11, OperandKinds
  <2>2. c = d
    <3>1. o = << Imm(d) >>
      BY <1>11
    <3>2. o[1].value = d
      BY <3>1 DEF Imm
    <3> HIDE DEF Branches
    <3> QED BY <1>11, <3>2, <1>z DEF FieldsOf, Branches
  <2>3. Ok <=> InCargo(c)
    <3>1. DOMAIN q = 1 .. 1
      BY <1>2, <2>1
    <3>2. NumberOk(q[1], d) <=> InCargo(c)
      BY <2>1, <2>2, <1>l
    <3> QED BY <3>1, <3>2
  <2> QED BY <2>3, <1>4
<1>12. CASE m \in ZeroOperand
  <2>1. [k \in DOMAIN q |-> q[k].kind] = << >>
    BY <1>1, <1>12 DEF analyze, INSTRUCTION_SIGNATURES
  <2>2. DOMAIN q = {}
    BY <2>1
  <2>3. c = 0
    BY <1>12, <1>z DEF FieldsOf
  <2> QED BY <2>2, <2>3, <1>4, <1>5
<1> QED BY <1>1, <1>6, <1>7, <1>8, <1>9, <1>10, <1>11, <1>12 DEF Mnemonic

\* What the encode loop has for the label of statement i.
Distance(i) == addresses[program[i].operands[1].name]
                   - (section("text").address + Counted(program, "text", i))

OperandsFit(i) == \A k \in DOMAIN program[i].operands : NumberOk(program[i].operands[k], Distance(i))

\* It is the distance between the statements.
LEMMA DistanceIsMeant ==
    ASSUME ProgramInv, TableInv, LayoutInv, LaidOut, AllInText, TextLeads, NEW i \in Instructions
    PROVE  NumberFits(i) <=> OperandsFit(i)
<1> DEFINE q == program[i].operands
           m == program[i].mnemonic
           e == Len(program) + 1
<1>1. Len(program) \in Nat /\ DOMAIN program = 1 .. Len(program)
  BY SequenceFacts DEF ProgramInv
<1>2. i \in 1 .. Len(program) /\ i \in 1 .. e /\ program[i].kind = "instruction" /\ i \in Nat \ {0}
  BY <1>1 DEF Instructions
<1>3. IsStatement(program[i]) /\ analyze(program[i])
  BY <1>1, <1>2 DEF ProgramInv, Analysed, LaidOut
<1>4. IsOperands(q) /\ m \in Mnemonic
  BY <1>2, <1>3, OperandKinds
<1>5. DOMAIN q = 1 .. Len(q) /\ \A k \in DOMAIN q : IsOperand(q[k])
  BY <1>4, SequenceFacts DEF IsOperands
<1>6. /\ TableUpTo(e) /\ AllSizes /\ SectionChain(base, sizes, sections, 5)
      /\ addresses = [name \in DOMAIN symbols |-> SymbolAddress(name)] /\ ~Unresolved
  BY DEF TableInv, Tabled, LayoutInv, LaidOut
<1>7. SectionIn(program, i) = "text"
  BY <1>1, <1>2 DEF AllInText, Before
<1>8. section("text").address = base /\ base \in Int
  <2>1. "text" \in DOMAIN sizes
    <3>1. "text" # NoSection
      BY DEF NoSection
    <3>2. "text" \in NamesBefore(program, "section", i)
      BY <1>2, <1>7, <3>1, SectionIsNamed
    <3>3. e \in Nat /\ i <= e
      BY <1>1, <1>2
    <3>4. "text" \in NamesBefore(program, "section", e)
      BY <1>2, <3>2, <3>3, NamesGrow
    <3> QED BY <1>6, <3>4 DEF AllSizes, Sizes
  <2> DEFINE k == section_index("text") + 1
  <2>2. k \in DOMAIN sections /\ section("text") = sections[k] /\ section("text").name = "text"
    BY <1>6, <2>1, EverySectionIsPlaced DEF AllSizes, Sizes
  <2>3. DOMAIN sections = 1 .. Len(sections)
    BY <1>6, SequenceFacts DEF SectionChain
  <2> HIDE DEF k
  <2>4. base \in Int /\ \A n \in DOMAIN sizes : sizes[n] \in Nat /\ (n # "text" => sizes[n] = 0)
    BY <1>6, AboveIsMeant
  <2>5. sections[k].address = IF sections[k].name = "text" THEN base ELSE Above(base, sizes)
    BY <1>6, <2>2, <2>3, <2>4, OnlyTextHasWords DEF TextLeads
  <2> QED BY <2>2, <2>4, <2>5
<1>9. StatementAddress(i) = base + Counted(program, "text", i)
  <2>1. Cardinality(InstructionsBefore(i)) = Counted(program, "text", i)
    BY <1>2, TextCounts
  <2>2. SectionOf(i) = "text"
    BY <1>7, SectionOfIsSectionIn
  <2> QED BY <2>1, <2>2 DEF StatementAddress
<1>10. \A j \in Labels : program[j].name \in DOMAIN symbols
                         /\ addresses[program[j].name] = StatementAddress(j)
  BY <1>6, AddressIsMeant
<1>11. \A name \in DOMAIN symbols : \E j \in Labels : program[j].name = name
  BY <1>1, <1>6 DEF TableUpTo, TableOf, NamesBefore, Before, Labels
<1>12. ASSUME NEW k \in DOMAIN q, q[k].kind = "symbol"
       PROVE  InCargo(Distance(i)) <=>
                \E j \in Labels : /\ program[j].name = q[k].name
                                  /\ InCargo(StatementAddress(j) - StatementAddress(i))
  <2>1. m \in Branches /\ k = 1
    <3>1. analyze(program[i]) /\ m \in Mnemonic /\ q[k].kind = INSTRUCTION_SIGNATURES[m][k]
          /\ DOMAIN q = DOMAIN INSTRUCTION_SIGNATURES[m]
      BY <1>2, <1>3, <1>4 DEF analyze
    <3>2. INSTRUCTION_SIGNATURES[m][k] = "symbol" /\ k \in DOMAIN INSTRUCTION_SIGNATURES[m]
      BY <1>12, <3>1
    <3> HIDE DEF m, q
    <3> QED BY <3>1, <3>2 DEF INSTRUCTION_SIGNATURES, Mnemonic, ZeroOperand, ThreeRegister, TwoRegister, InOut, Branches
  <2>2. q[k].name \in DOMAIN symbols
    <3>1. q[k] \in References(program[i])
      BY <1>2, <1>12 DEF References
    <3> QED BY <1>1, <1>2, <1>6, <3>1 DEF Unresolved
  <2>3. Distance(i) = addresses[q[k].name] - StatementAddress(i)
    BY <1>8, <1>9, <2>1 DEF Distance
  <2> QED BY <2>2, <2>3, <1>10, <1>11
<1>13. ASSUME NEW k \in DOMAIN q
       PROVE  NumberOk(q[k], Distance(i)) <=>
                 CASE q[k].kind = "register"  -> TRUE
                   [] q[k].kind = "immediate" -> InCargo(q[k].value)
                   [] q[k].kind = "memory"    -> InCargo(q[k].offset)
                   [] q[k].kind = "symbol"    ->
                         \E j \in Labels : /\ program[j].name = q[k].name
                                           /\ InCargo(StatementAddress(j) - StatementAddress(i))
  <2> DEFINE x == q[k]
             D == Distance(i)
             E == \E j \in Labels : /\ program[j].name = x.name
                                    /\ InCargo(StatementAddress(j) - StatementAddress(i))
  <2>1. IsOperand(x)
    BY <1>5
  <2>2. x.kind = "symbol" => (InCargo(D) <=> E)
    BY <1>12
  <2> HIDE DEF x, D, E
  <2>3. NumberOk(x, D) <=> CASE x.kind = "register"  -> TRUE
                   [] x.kind = "immediate" -> InCargo(x.value)
                   [] x.kind = "memory"    -> InCargo(x.offset)
                   [] x.kind = "symbol"    -> E
    BY <2>1, <2>2 DEF IsOperand, NumberOk
  <2> QED BY <2>3 DEF x, D, E
<1> QED BY <1>13 DEF NumberFits, OperandsFit

\* What the loops have found out about the statements in front of them.
FitInv ==
    /\ pass = "lex" => program = << >>
    /\ pass \in {"place", "populate", "encode"} => TextLeads
    /\ pass = "encode" /\ ~Reopened("text") =>
          \A j \in Before(program, "instruction", cursor.at) : OperandsFit(j)

\* Nothing at the start.
LEMMA FitInvInit == Init => FitInv
  BY DEF Init, FitInv

\* .text stays in front when the next section is placed.
LEMMA TextStaysInFront ==
    ASSUME NEW m \in 1 .. 4, SectionChain(base, sizes, sections, m), TextLeads,
           NEW s, s.name = SectionOrder[m]
    PROVE  "text" \in DOMAIN sizes => Append(sections, s)[1].name = "text"
<1>1. /\ Len(sections) \in Nat /\ IsSequence(sections)
      /\ \A k \in 1 .. Len(sections) : Append(sections, s)[k] = sections[k]
      /\ Append(sections, s)[Len(sections) + 1] = s
  BY SequenceFacts DEF SectionChain
<1> SUFFICES ASSUME "text" \in DOMAIN sizes PROVE Append(sections, s)[1].name = "text"
  OBVIOUS
<1>2. CASE Len(sections) > 0
  <2>1. 1 \in 1 .. Len(sections)
    BY <1>1, <1>2
  <2> QED BY <1>1, <1>2, <2>1 DEF TextLeads
<1>3. CASE Len(sections) = 0
  <2>1. m = 1
    <3> SUFFICES ASSUME m # 1 PROVE FALSE
      OBVIOUS
    <3>1. 1 < m /\ SectionOrder[1] = "text"
      BY DEF SectionOrder
    <3>2. \E k \in 1 .. Len(sections) : sections[k].name = SectionOrder[1]
      BY <3>1 DEF SectionChain
    <3> QED BY <1>3, <3>2
  <2>2. s.name = "text"
    BY <2>1 DEF SectionOrder
  <2> QED BY <1>1, <1>3, <2>2
<1> QED BY <1>1, <1>2, <1>3

\* The encoder tests exactly the operands of the statement.
LEMMA EncodableIffFits ==
    ASSUME ProgramInv, TableInv, LayoutInv, ImageInv, At("encode", "instruction"),
           cursor.section = "text", ~Reopened("text")
    PROVE  Encodable(Here.mnemonic, ResolvedOperands) <=> OperandsFit(cursor.at)
<1> DEFINE h == Here
           m == h.mnemonic
           q == h.operands
           i == cursor.at
           d == IF m \in Branches THEN Distance(i) ELSE 0
<1>1. /\ pass = "encode" /\ i \in 1 .. Len(program) /\ h = program[i] /\ h.kind = "instruction"
      /\ DOMAIN program = 1 .. Len(program) /\ Len(program) \in Nat
  <2>1. Len(program) \in Nat /\ DOMAIN program = 1 .. Len(program)
    BY SequenceFacts DEF ProgramInv
  <2> QED BY <2>1 DEF At, Here, ProgramInv
<1>2. IsStatement(h) /\ analyze(h)
  BY <1>1 DEF ProgramInv, Analysed
<1>3. cursor.offset = Counted(program, "text", i)
  BY <1>1 DEF ImageInv
<1>4. m \in Branches => Displacement(q[1].name) = Distance(i)
  BY <1>1, <1>3 DEF Displacement, Distance
<1>5. d \in Int
  <2>1. CASE m \in Branches
    <3>1. LaidOut
      BY <1>1 DEF LaidOut
    <3>2. addresses[q[1].name] \in Word
      BY <1>1, <2>1, <3>1, TargetHasAddress
    <3>3. SectionIn(program, i) = "text" /\ i \in 1 .. Len(program) + 1 /\ i \in Nat
      BY <1>1 DEF TableInv
    <3>4. section("text").address \in Word
      BY <3>1, <3>3, TextIsPlaced
    <3> DEFINE a == addresses[q[1].name]
               b == section("text").address
               c == Counted(program, "text", i)
    <3>5. a \in Int /\ b \in Int /\ c \in Nat /\ d = a - (b + c)
      BY <1>1, <2>1, <3>2, <3>3, <3>4, MaxValue, InstructionsFinite DEF Word, Distance
    <3> HIDE DEF a, b, c, d
    <3> QED BY <3>5
  <2> QED BY <2>1
<1>6. ResolvedOperands = IF m \in Branches THEN << Imm(d) >> ELSE q
  BY <1>4 DEF ResolvedOperands
<1>7. Encodable(m, ResolvedOperands) <=> \A k \in DOMAIN q : NumberOk(q[k], d)
  <2> DEFINE o == ResolvedOperands
  <2>1. /\ IsStatement(h) /\ h.kind = "instruction" /\ analyze(h) /\ m = h.mnemonic /\ q = h.operands
        /\ d \in Int /\ o = IF m \in Branches THEN << Imm(d) >> ELSE q
    BY <1>1, <1>2, <1>5, <1>6
  <2> HIDE DEF h, d, m, q, o
  <2>2. Encodable(m, o) <=> \A k \in DOMAIN q : NumberOk(q[k], d)
    BY <2>1, EveryNumberIsTested
  <2> QED BY <2>2 DEF o
<1>8. m \notin Branches => \A k \in DOMAIN q : q[k].kind # "symbol"
  <2> SUFFICES ASSUME m \notin Branches, NEW k \in DOMAIN q, q[k].kind = "symbol" PROVE FALSE
    OBVIOUS
  <2>1. m \in Mnemonic /\ q[k].kind = INSTRUCTION_SIGNATURES[m][k] /\ k \in DOMAIN INSTRUCTION_SIGNATURES[m]
    BY <1>1, <1>2 DEF analyze
  <2>2. INSTRUCTION_SIGNATURES[m][k] = "symbol"
    BY <2>1
  <2> HIDE DEF m, q
  <2> QED BY <2>1, <2>2 DEF INSTRUCTION_SIGNATURES, Mnemonic, ZeroOperand, ThreeRegister, TwoRegister, InOut, Branches
<1>9. (\A k \in DOMAIN q : NumberOk(q[k], d)) <=> OperandsFit(i)
  <2>1. CASE m \in Branches
    BY <1>1, <2>1 DEF OperandsFit
  <2>2. CASE m \notin Branches
    <3>1. \A k \in DOMAIN q : NumberOk(q[k], d) <=> NumberOk(q[k], Distance(i))
      BY <1>8, <2>2 DEF NumberOk
    <3> QED BY <1>1, <3>1 DEF OperandsFit
  <2> QED BY <2>1, <2>2
<1> QED BY <1>7, <1>9

\* Each loop goes on as it began.
LEMMA FitInvStep == ProgramInv /\ TableInv /\ LayoutInv /\ ImageInv /\ FitInv /\ [Next]_vars => FitInv'
<1> SUFFICES ASSUME ProgramInv, TableInv, LayoutInv, ImageInv, FitInv, [Next]_vars PROVE FitInv'
  OBVIOUS
<1>p. cursor.at \in Nat \ {0} /\ DOMAIN cursor = {"at", "section", "offset"} /\ pass \in Passes
  BY DEF ProgramInv
<1>f. ASSUME pass' \notin {"lex", "place", "populate", "encode"} PROVE FitInv'
  BY <1>f DEF FitInv
<1>t. ASSUME NEW error, Throw(error) PROVE FitInv'
  BY <1>t, <1>f DEF Throw
<1>b. ASSUME NEW next, Begin(next), next \notin {"lex", "place", "populate", "encode"} PROVE FitInv'
  BY <1>b, <1>f DEF Begin
<1>1. CASE Tokenize
  BY <1>1, <1>f, <1>t DEF Tokenize
<1>2. CASE ParseStatement
  BY <1>2, <1>f, <1>t DEF ParseStatement, ParsesOn
<1>3. CASE ParseNewline
  BY <1>3, <1>f DEF ParseNewline, ParsesOn
<1>4. CASE ParseEnd
  BY <1>4, <1>b DEF ParseEnd
<1>5. CASE Analyze
  BY <1>5, <1>b, <1>t DEF Analyze
<1>6. CASE SymbolSection
  BY <1>6, <1>f DEF SymbolSection, At, Enter
<1>7. CASE SymbolGlobal
  BY <1>7, <1>f DEF SymbolGlobal, At, Onward
<1>8. CASE SymbolLabel
  BY <1>8, <1>f, <1>t DEF SymbolLabel, At, Onward
<1>9. CASE SymbolInstruction
  BY <1>9, <1>f, <1>t DEF SymbolInstruction, At, Onward
<1>10. CASE Resolve
  BY <1>10, <1>b, <1>t DEF Resolve
<1>11. CASE MeasureSection
  BY <1>11, <1>f, <1>t DEF MeasureSection, At, Enter
<1>12. CASE MeasureInstruction
  BY <1>12, <1>f DEF MeasureInstruction, At, Onward
<1>13. CASE MeasureOther
  BY <1>13, <1>f DEF MeasureOther, At, Onward
<1>14. CASE Measured
  <2>1. pass' = "place" /\ sections' = sections /\ sections = << >>
    BY <1>14 DEF Measured, AtEnd, Begin, placement, LayoutInv
  <2>2. Len(sections') = 0
    BY <2>1
  <2> QED BY <2>1, <2>2 DEF FitInv, TextLeads
<1>15. CASE PlaceSection
  <2> DEFINE m == cursor.at
             s == [name |-> SectionOrder[m], address |-> NextAddress, size |-> sizes[SectionOrder[m]]]
  <2>1. pass = "place" /\ m \in 1 .. 4 /\ SectionChain(base, sizes, sections, m) /\ TextLeads
    <3>1. pass = "place" /\ m <= 4
      BY <1>15 DEF PlaceSection
    <3>2. SectionChain(base, sizes, sections, m) /\ m \in 1 .. 5
      BY <3>1 DEF LayoutInv
    <3> QED BY <3>1, <3>2 DEF FitInv
  <2>2. CASE Onward /\ UNCHANGED placement
    BY <2>1, <2>2 DEF FitInv, TextLeads, Onward, placement
  <2>3. CASE Throw("out_of_range")
    BY <2>3, <1>t
  <2>4. CASE Onward /\ UNCHANGED sizes /\ sections' = Append(sections, s)
    <3>1. s.name = SectionOrder[m]
      OBVIOUS
    <3> HIDE DEF s, m
    <3>2. "text" \in DOMAIN sizes => Append(sections, s)[1].name = "text"
      BY <2>1, <3>1, TextStaysInFront
    <3>3. pass' = "place"
      BY <2>1, <2>4 DEF Onward
    <3>4. TextLeads'
      BY <2>4, <3>2 DEF TextLeads
    <3> QED BY <3>3, <3>4 DEF FitInv
  <2> QED BY <1>15, <2>2, <2>3, <2>4 DEF PlaceSection
<1>16. CASE ResolveAddresses
  <2>1. CASE Begin("populate") /\ UNCHANGED << sizes, sections >>
    <3>1. TextLeads
      BY <1>16 DEF ResolveAddresses, FitInv
    <3> QED BY <2>1, <3>1 DEF FitInv, TextLeads, Begin
  <2> QED BY <1>16, <2>1, <1>t DEF ResolveAddresses
<1>17. CASE Populate
  <2>1. CASE Begin("encode") /\ UNCHANGED << table, placement >>
    <3>1. TextLeads
      BY <1>17 DEF Populate, FitInv
    <3>2. pass' = "encode" /\ cursor'.at = 1 /\ TextLeads'
      BY <2>1, <3>1 DEF TextLeads, Begin, placement, Start
    <3>3. Before(program', "instruction", 1) = {}
      BY BeforeFirst
    <3> QED BY <3>2, <3>3 DEF FitInv
  <2> QED BY <1>17, <2>1, <1>t DEF Populate
<1> DEFINE i == cursor.at
           Fine(k) == \A j \in Before(program, "instruction", k) : OperandsFit(j)
\* a turn of the encode loop
<1>k. ASSUME pass = "encode", pass' = "encode", UNCHANGED << program, sizes, sections, addresses >>,
             cursor'.at = i + 1, i <= Len(program),
             ~Reopened("text") /\ program[i].kind = "instruction" => OperandsFit(i)
      PROVE  FitInv'
  <2>1. TextLeads /\ (~Reopened("text") => Fine(i))
    BY <1>k DEF FitInv
  <2>2. TextLeads' /\ Reopened("text")' = Reopened("text")
    BY <1>k, <2>1 DEF TextLeads, Reopened
  <2>3. Before(program, "instruction", i + 1) =
            IF program[i].kind = "instruction" THEN Before(program, "instruction", i) \cup {i}
            ELSE Before(program, "instruction", i)
    BY <1>p, BeforeNext
  <2>4. ~Reopened("text") => Fine(i + 1)
    BY <1>k, <2>1, <2>3
  <2>5. \A j : OperandsFit(j)' = OperandsFit(j)
    BY <1>k DEF OperandsFit, Distance, section, section_index
  <2>6. ~Reopened("text")' => \A j \in Before(program', "instruction", cursor'.at) : OperandsFit(j)'
    BY <1>k, <2>2, <2>4, <2>5
  <2> QED BY <1>k, <2>2, <2>6 DEF FitInv
<1>18. CASE EncodeSection
  <2>1. /\ pass = "encode" /\ pass' = "encode" /\ UNCHANGED << program, sizes, sections, addresses >>
        /\ cursor'.at = i + 1 /\ i <= Len(program) /\ program[i].kind # "instruction"
    BY <1>18 DEF EncodeSection, At, Here, Enter, parsed, placement
  <2> QED BY <2>1, <1>k
<1>19. CASE EncodeOther
  <2>1. /\ pass = "encode" /\ pass' = "encode" /\ UNCHANGED << program, sizes, sections, addresses >>
        /\ cursor'.at = i + 1 /\ i <= Len(program) /\ program[i].kind # "instruction"
    BY <1>19, <1>p DEF EncodeOther, At, Here, Onward, parsed, placement
  <2> QED BY <2>1, <1>k
<1>20. CASE EncodeInstruction
  <2>1. CASE /\ cursor.section = "text" /\ Encodable(Here.mnemonic, ResolvedOperands)
             /\ pass' = pass /\ cursor' = [cursor EXCEPT !.at = @ + 1, !.offset = @ + 1]
             /\ UNCHANGED << arguments, parsed, table, placement >>
    <3>1. At("encode", "instruction")
      BY <1>20 DEF EncodeInstruction
    <3>2. /\ pass = "encode" /\ pass' = "encode" /\ UNCHANGED << program, sizes, sections, addresses >>
          /\ cursor'.at = i + 1 /\ i <= Len(program)
      BY <2>1, <3>1, <1>p DEF At, parsed, placement
    <3>3. ~Reopened("text") => OperandsFit(i)
      BY <2>1, <3>1, EncodableIffFits
    <3> QED BY <3>2, <3>3, <1>k
  <2> QED BY <1>20, <2>1, <1>t DEF EncodeInstruction
<1>21. CASE Finish
  BY <1>21, <1>f DEF Finish
<1>22. CASE UNCHANGED vars
  <2>1. UNCHANGED << pass, cursor, program, sizes, sections, addresses >>
    BY <1>22 DEF vars, parsed, placement
  <2>2. \A j : OperandsFit(j)' = OperandsFit(j)
    BY <2>1 DEF OperandsFit, Distance, section, section_index
  <2> QED BY <2>1, <2>2 DEF FitInv, TextLeads, Reopened
<1> QED BY <1>1, <1>2, <1>3, <1>4, <1>5, <1>6, <1>7, <1>8, <1>9, <1>10, <1>11, <1>12, <1>13, <1>14,
           <1>15, <1>16, <1>17, <1>18, <1>19, <1>20, <1>21, <1>22 DEF Next

\* A program that is assembled is well formed.
LEMMA FinishIsWellFormed ==
    ASSUME ProgramInv, TableInv, LayoutInv, ImageInv, FitInv, Finish, ~Reopened("text")
    PROVE  WellFormed
<1> DEFINE p == program
           e == Len(program) + 1
<1>1. /\ TableUpTo(e) /\ AllSizes /\ SectionChain(base, sizes, sections, 5)
      /\ addresses = [name \in DOMAIN symbols |-> SymbolAddress(name)] /\ Tables /\ TextUpTo(e)
      /\ Len(p) \in Nat /\ DOMAIN p = 1 .. Len(p)
      /\ \A k \in DOMAIN sections : sections[k].address \in Word
      /\ DOMAIN sections = 1 .. Len(sections)
  BY AtFinish
<1>2. pass = "encode" /\ LaidOut /\ TextLeads
  BY DEF Finish, AtEnd, LaidOut, FitInv
<1>3. cursor.at = e
  <2>1. cursor.at > Len(p) /\ cursor.at \in 1 .. e
    BY <1>2 DEF Finish, AtEnd, ProgramInv
  <2> QED BY <1>1, <2>1
<1>4. AllInText
  BY <1>1 DEF AllInText, TextUpTo, TextOf
<1>5. \A i \in DOMAIN p : analyze(p[i])
  BY <1>2 DEF ProgramInv, Analysed
<1>6. \A i \in Labels : i \in Before(p, "label", e)
  BY <1>1 DEF Labels, Before
<1>7. \A i \in Labels : SectionOf(i) # NoSection
  <2> SUFFICES ASSUME NEW i \in Labels PROVE SectionIn(p, i) # NoSection
    BY SectionOfIsSectionIn
  <2>1. SectionIn(p, i) \in DOMAIN offsets
    BY <1>1, <1>6 DEF TableUpTo, TableOf
  <2>2. SectionIn(p, i) \in SectionNames
    BY <1>1, <2>1 DEF TableUpTo, TableOf, AllSizes, Sizes
  <2> QED BY <2>2, SectionNamesNamed
<1>8. \A i, j \in Labels : p[i].name = p[j].name => i = j
  BY <1>1, <1>6 DEF TableUpTo, TableOf
<1>9. \E i \in Labels : p[i].name = "_start"
  <2>1. "_start" \in NamesBefore(p, "label", e)
    BY <1>1 DEF Tables, TableUpTo, TableOf
  <2> QED BY <1>1, <2>1 DEF NamesBefore, Before, Labels
<1>10. ASSUME NEW i \in DOMAIN p, p[i].kind = "section"
       PROVE  /\ p[i].name \in SectionNames
              /\ p[i].name # "text" => base + Cardinality(Instructions) <= MAX_VALUE
  <2> DEFINE s == p[i].name
             k == section_index(s) + 1
  <2>1. s \in DOMAIN sizes /\ DOMAIN sizes \subseteq SectionNames
    <3>1. i \in Before(p, "section", e)
      BY <1>1, <1>10 DEF Before
    <3> QED BY <1>1, <3>1 DEF AllSizes, Sizes, NamesBefore
  <2>2. k \in DOMAIN sections /\ section(s).name = s /\ section(s) = sections[k]
    BY <1>1, <2>1, EverySectionIsPlaced
  <2>3. /\ Above(base, sizes) = base + Cardinality(Instructions) /\ base \in Int
        /\ \A n \in DOMAIN sizes : sizes[n] \in Nat /\ (n # "text" => sizes[n] = 0)
    BY <1>1, <1>4, AboveIsMeant
  <2> HIDE DEF k, s
  <2>4. sections[k].address = IF sections[k].name = "text" THEN base ELSE Above(base, sizes)
    BY <1>1, <1>2, <2>2, <2>3, OnlyTextHasWords DEF TextLeads
  <2>5. sections[k].address \in Word
    BY <1>1, <2>2
  <2>6. s # "text" => Above(base, sizes) \in Word
    BY <2>2, <2>4, <2>5
  <2>7. s # "text" => base + Cardinality(Instructions) <= MAX_VALUE
    BY <2>3, <2>6 DEF Word
  <2> QED BY <2>1, <2>7 DEF s
<1>11. \A i \in Labels : StatementAddress(i) <= MAX_VALUE
  <2> SUFFICES ASSUME NEW i \in Labels PROVE StatementAddress(i) <= MAX_VALUE
    OBVIOUS
  <2>1. p[i].name \in DOMAIN symbols /\ SymbolAddress(p[i].name) = StatementAddress(i)
    BY <1>1, <1>2, <1>4, AddressIsMeant
  <2>2. DOMAIN addresses = DOMAIN symbols /\ addresses[p[i].name] = StatementAddress(i)
    BY <1>1, <2>1
  <2>3. StatementAddress(i) \in Word
    BY <2>1, <2>2 DEF LayoutInv
  <2> QED BY <2>3 DEF Word
<1>12. ASSUME NEW i \in Instructions PROVE SectionOf(i) = "text" /\ NumberFits(i)
  <2>1. i \in Before(p, "instruction", e)
    BY <1>1 DEF Instructions, Before
  <2>2. SectionOf(i) = "text"
    BY <1>4, <2>1, SectionOfIsSectionIn DEF AllInText
  <2>3. OperandsFit(i)
    BY <1>2, <1>3, <2>1 DEF FitInv
  <2> QED BY <1>2, <1>4, <2>2, <2>3, DistanceIsMeant
<1> QED BY <1>5, <1>7, <1>8, <1>9, <1>10, <1>11, <1>12 DEF WellFormed

\* No pass rejects a well-formed program.
LEMMA ThrowsAreRight ==
    ASSUME ProgramInv, TableInv, LayoutInv, ImageInv, FitInv, Next, pass' = "done",
           outcome' \notin {"ok", "ParseError"}, ~Reopened("text")
    PROVE  ~WellFormed
<1> SUFFICES ASSUME WellFormed PROVE FALSE
  OBVIOUS
<1> DEFINE p == program
           i == cursor.at
           e == Len(program) + 1
<1>1. Len(p) \in Nat /\ DOMAIN p = 1 .. Len(p) /\ i \in Nat \ {0}
  BY SequenceFacts DEF ProgramInv
<1>2. AllInText
  BY WellFormedText DEF WellFormed
<1>3. \A kind, k : At(k, kind) => i \in DOMAIN p /\ p[i].kind = kind /\ Here = p[i] /\ pass = k
  BY <1>1 DEF At, Here
<1>4. pass \notin {"lex"}
  <2> SUFFICES ASSUME pass = "lex" PROVE FALSE
    OBVIOUS
  <2>1. Labels = {}
    BY DEF FitInv, Labels
  <2> QED BY <2>1 DEF WellFormed
<1>5. CASE ParseStatement
  BY <1>5 DEF ParseStatement, ParsesOn, Throw
<1>6. CASE ParseNewline \/ ParseEnd
  BY <1>6 DEF ParseNewline, ParseEnd, ParsesOn, Begin
<1>7. CASE Analyze
  <2>1. \E k \in DOMAIN p : ~analyze(p[k])
    BY <1>7 DEF Analyze, Begin
  <2> QED BY <2>1 DEF WellFormed
<1>8. CASE SymbolSection \/ SymbolGlobal
  BY <1>8 DEF SymbolSection, SymbolGlobal, Enter, Onward, At
<1>9. CASE SymbolLabel
  <2>1. /\ i \in Labels /\ pass = "symbols" /\ cursor.section = SectionOf(i)
        /\ cursor.section = NoSection \/ p[i].name \in DOMAIN symbols
    <3>1. At("symbols", "label")
      BY <1>9 DEF SymbolLabel
    <3>2. cursor.section = SectionIn(p, i)
      BY <3>1, <1>3 DEF TableInv
    <3> QED BY <1>9, <3>1, <3>2, <1>3, SectionOfIsSectionIn DEF SymbolLabel, Onward, Labels
  <2>2. p[i].name \in NamesBefore(p, "label", i)
    BY <2>1 DEF WellFormed, TableInv, TableUpTo, TableOf
  <2>3. PICK j \in 1 .. i - 1 : p[j].kind = "label" /\ p[j].name = p[i].name
    BY <2>2 DEF NamesBefore, Before
  <2>4. j \in Labels /\ j # i
    BY <1>1, <2>1, <2>3 DEF Labels
  <2> QED BY <2>1, <2>3, <2>4 DEF WellFormed
<1>10. CASE SymbolInstruction
  <2>1. At("symbols", "instruction") /\ cursor.section = NoSection
    BY <1>10 DEF SymbolInstruction, Onward, At
  <2>2. i \in Instructions /\ SectionOf(i) = NoSection
    BY <2>1, <1>3, SectionOfIsSectionIn DEF Instructions, TableInv
  <2>3. "text" # NoSection
    BY DEF NoSection
  <2> QED BY <2>2, <2>3 DEF WellFormed
<1>11. CASE Resolve
  <2>1. Unresolved /\ pass = "symbols" /\ i > Len(p)
    BY <1>11 DEF Resolve, AtEnd, Begin
  <2>2. TableUpTo(e)
    <3>1. i = e
      BY <2>1, <1>1 DEF ProgramInv
    <3> QED BY <2>1, <3>1 DEF TableInv
  <2>3. PICK j \in DOMAIN p : \E r \in References(p[j]) : r.name \notin DOMAIN symbols
    BY <2>1 DEF Unresolved
  <2>4. PICK r \in References(p[j]) : r.name \notin DOMAIN symbols
    BY <2>3
  <2>5. /\ p[j].kind = "instruction"
        /\ r \in {x \in {p[j].operands[k] : k \in DOMAIN p[j].operands} : x.kind = "symbol"}
    BY <2>4 DEF References
  <2>6. PICK k \in DOMAIN p[j].operands : r = p[j].operands[k] /\ r.kind = "symbol"
    BY <2>5
  <2>7. NumberFits(j)
    BY <2>5 DEF WellFormed, Instructions
  <2>8. \E h \in Labels : p[h].name = r.name
    BY <2>6, <2>7 DEF NumberFits
  <2>9. r.name \in DOMAIN symbols
    BY <1>1, <2>2, <2>8 DEF Labels, TableUpTo, TableOf, NamesBefore, Before
  <2> QED BY <2>4, <2>9
<1>12. CASE MeasureSection
  <2>1. At("measure", "section") /\ Here.name \notin SectionNames
    BY <1>12 DEF MeasureSection, Enter, At
  <2> QED BY <2>1, <1>3 DEF WellFormed
<1>13. CASE MeasureInstruction \/ MeasureOther \/ Measured
  BY <1>13 DEF MeasureInstruction, MeasureOther, Measured, Onward, Begin, At
<1>14. CASE PlaceSection
  <2>1. /\ pass = "place" /\ i <= 4 /\ SectionOrder[i] \in DOMAIN sizes /\ ~Fits(NextAddress)
    BY <1>14 DEF PlaceSection, Onward
  <2>2. i \in 1 .. 4 /\ AllSizes /\ SectionChain(base, sizes, sections, i) /\ TextLeads
    BY <1>1, <2>1 DEF LayoutInv, FitInv
  <2> HIDE DEF i
  <2> QED BY <1>2, <2>1, <2>2, WellFormedIsPlaced
<1>15. CASE ResolveAddresses
  <2>1. pass = "place" /\ i > 4 /\ \E name \in DOMAIN symbols : ~Fits(SymbolAddress(name))
    BY <1>15 DEF ResolveAddresses, Begin
  <2>2. PICK name \in DOMAIN symbols : ~Fits(SymbolAddress(name))
    BY <2>1
  <2>3. AllSizes /\ SectionChain(base, sizes, sections, 5) /\ TextLeads /\ TableUpTo(e)
    <3>1. i \in 1 .. 5 /\ SectionChain(base, sizes, sections, i) /\ AllSizes
      BY <2>1 DEF LayoutInv
    <3>2. i = 5
      BY <2>1, <3>1
    <3> QED BY <2>1, <3>1, <3>2 DEF FitInv, TableInv, Tabled
  <2>4. PICK j \in Labels : p[j].name = name
    BY <1>1, <2>2, <2>3 DEF Labels, TableUpTo, TableOf, NamesBefore, Before
  <2>5. SymbolAddress(name) = StatementAddress(j) /\ StatementAddress(j) <= MAX_VALUE
    BY <1>2, <2>3, <2>4, AddressIsMeant DEF WellFormed
  <2>6. SymbolAddress(name) >= MIN_VALUE
    <3> DEFINE a == section(symbols[name].section).address
               o == symbols[name].offset
    <3>1. a \in Word /\ o \in Nat
      BY <2>2, <2>3, SymbolAddressTyped
    <3>2. SymbolAddress(name) = a + o
      BY DEF SymbolAddress
    <3> HIDE DEF a, o
    <3> QED BY <3>1, <3>2, MaxValue DEF Word
  <2> QED BY <2>2, <2>5, <2>6 DEF Fits
<1>16. CASE Populate
  <2>1. pass = "populate" /\ "_start" \notin DOMAIN addresses
    BY <1>16 DEF Populate, Begin
  <2>2. DOMAIN addresses = DOMAIN symbols /\ TableUpTo(e)
    BY <2>1 DEF LayoutInv, LaidOut, TableInv, Tabled
  <2>3. PICK j \in Labels : p[j].name = "_start"
    BY DEF WellFormed
  <2>4. "_start" \in DOMAIN symbols
    BY <1>1, <2>2, <2>3 DEF Labels, TableUpTo, TableOf, NamesBefore, Before
  <2> QED BY <2>1, <2>2, <2>4
<1>17. CASE EncodeSection \/ EncodeOther
  BY <1>17 DEF EncodeSection, EncodeOther, Onward, Enter, At
<1>18. CASE EncodeInstruction
  <2>1. /\ At("encode", "instruction")
        /\ cursor.section # "text" \/ ~Encodable(Here.mnemonic, ResolvedOperands)
    BY <1>18 DEF EncodeInstruction, At
  <2>2. i \in Instructions /\ SectionOf(i) = cursor.section /\ pass = "encode"
    BY <2>1, <1>3, SectionOfIsSectionIn DEF Instructions, TableInv
  <2>3. cursor.section = "text" /\ NumberFits(i)
    BY <2>2 DEF WellFormed
  <2>4. LaidOut /\ TextLeads
    BY <2>2 DEF LaidOut, FitInv
  <2>5. OperandsFit(i)
    BY <1>2, <2>2, <2>3, <2>4, DistanceIsMeant
  <2> QED BY <2>1, <2>3, <2>5, EncodableIffFits
<1>19. CASE Tokenize
  BY <1>4, <1>19 DEF Tokenize
<1>20. CASE Finish
  BY <1>20 DEF Finish
<1> QED BY <1>5, <1>6, <1>7, <1>8, <1>9, <1>10, <1>11, <1>12, <1>13, <1>14, <1>15, <1>16, <1>17,
           <1>18, <1>19, <1>20 DEF Next

\* What a program is does not depend on the pass.
LEMMA SameVerdict ==
    ASSUME UNCHANGED << base, program >>
    PROVE  WellFormed' = WellFormed /\ Reopened("text")' = Reopened("text")
<1>1. Labels' = Labels /\ Instructions' = Instructions
  BY DEF Labels, Instructions
<1>2. \A i : SectionOf(i)' = SectionOf(i) /\ Cardinality(InstructionsBefore(i))' = Cardinality(InstructionsBefore(i))
  BY DEF SectionOf, SectionsBefore, InstructionsBefore
<1>3. \A i : StatementAddress(i)' = StatementAddress(i)
  BY <1>1, <1>2 DEF StatementAddress
<1>4. \A i : NumberFits(i)' = NumberFits(i)
  BY <1>1, <1>3 DEF NumberFits
<1>5. Reopened("text")' = Reopened("text")
  BY DEF Reopened
<1> QED BY <1>1, <1>2, <1>3, <1>4, <1>5 DEF WellFormed

\* A program that parses and opens .text once is rejected by some pass exactly if
\* it is not well formed: what SymbolTable::build, SymbolResolver::resolve,
\* Layout::build, populate_header, the section check of the encode loop and
\* make_cargo test between them is that, and none of them tests more.
THEOREM Assembles == Spec => []AssemblesIffWellFormed
<1>1. Init => AssemblesIffWellFormed /\ FitInv
  BY FitInvInit DEF Init, AssemblesIffWellFormed
<1>2. IndInv /\ FitInv /\ [Next]_vars => FitInv'
  BY FitInvStep DEF IndInv
<1>3. IndInv /\ FitInv /\ AssemblesIffWellFormed /\ [Next]_vars => AssemblesIffWellFormed'
  <2> SUFFICES ASSUME IndInv, FitInv, AssemblesIffWellFormed, [Next]_vars,
                      pass' = "done", outcome' # "ParseError", ~Reopened("text")'
               PROVE  Assembled' <=> WellFormed'
    BY DEF AssemblesIffWellFormed
  <2>0. ProgramInv /\ TableInv /\ LayoutInv /\ ImageInv
    BY DEF IndInv
  <2>1. CASE pass = "done"
    <3>1. UNCHANGED vars
      BY <2>1, DoneStays
    <3>2. UNCHANGED << base, program, pass, outcome >>
      BY <3>1 DEF vars, arguments, parsed
    <3>3. WellFormed' = WellFormed /\ Reopened("text")' = Reopened("text")
      BY <3>2, SameVerdict
    <3> QED BY <3>2, <3>3 DEF AssemblesIffWellFormed, Assembled
  <2>2. CASE pass # "done"
    <3>1. Next
      BY <2>2 DEF vars
    <3>2. UNCHANGED << base, program >>
      BY <2>2, <3>1 DEF Next, Tokenize, ParseStatement, ParseNewline, ParseEnd, ParsesOn, Analyze, SymbolSection,
       SymbolGlobal, SymbolLabel, SymbolInstruction, Resolve, MeasureSection,
       MeasureInstruction, MeasureOther, Measured, PlaceSection, ResolveAddresses, Populate,
       EncodeSection, EncodeOther, EncodeInstruction, Finish, Throw, Begin, Onward, Enter,
       At, AtEnd, arguments, parsed
    <3>3. WellFormed' = WellFormed /\ Reopened("text")' = Reopened("text")
      BY <3>2, SameVerdict
    <3>4. CASE Finish
      BY <2>0, <3>3, <3>4, FinishIsWellFormed DEF Finish, Assembled
    <3>5. CASE ~Assembled'
      BY <2>0, <3>1, <3>3, <3>5, ThrowsAreRight DEF Assembled
    <3>6. CASE UNCHANGED vars
      BY <2>2, <3>6 DEF vars
    <3> QED BY <2>0, <3>4, <3>5, <3>6, AssembledLast
  <2> QED BY <2>1, <2>2
<1> QED BY <1>1, <1>2, <1>3, Inductive, PTL DEF Spec

\* A symbol is local or global.
LEMMA BindingTyped ==
    ASSUME TableUpTo(Len(program) + 1), NEW name \in DOMAIN symbols
    PROVE  symbols[name].binding \in {"Local", "Global"}
<1> DEFINE n == Len(program) + 1
<1>1. PICK j \in Before(program, "label", n) : program[j].name = name
  BY DEF TableUpTo, TableOf, NamesBefore
<1> DEFINE b == IF name \in globals THEN "Global" ELSE "Local"
           y == symbols[name]
<1>2. y = [section |-> SectionIn(program, j), offset |-> Counted(program, SectionIn(program, j), j),
           binding |-> b]
  BY <1>1 DEF TableUpTo, TableOf
<1>3. y.binding = b
  <2> HIDE DEF y, b
  <2> QED BY <1>2
<1> HIDE DEF y
<1> QED BY <1>3 DEF y

\* A sequence of numbers.
LEMMA IntSequence ==
    ASSUME NEW s, IsSequence(s), \A k \in 1 .. Len(s) : s[k] \in Int
    PROVE  s \in Seq(Int)
<1> DEFINE R == {s[i] : i \in DOMAIN s}
<1>1. s \in Seq(R)
  BY DEF IsSequence
<1> HIDE DEF R
<1>2. Len(s) \in Nat /\ s = [k \in 1 .. Len(s) |-> s[k]]
  BY <1>1
<1> QED BY <1>2, SeqDef

\* The image that is laid out is a TrnImage.
LEMMA EncodedTyped ==
    ASSUME ProgramInv, TableInv, LayoutInv, ImageInv, Finish
    PROVE  Encoded \in TypedImages
<1> DEFINE x == Encoded
           H == [DOMAIN NewHeader -> Int]
           E == [type : DOMAIN SectionType, flags : SUBSET DOMAIN SectionFlag,
                 file_offset : Int, size : Int, alignment : Int, virtual_address : Int]
           Y == [identifier : Int, type : DOMAIN SymbolType, section : Int, offset : Int,
                 visibility : DOMAIN SymbolVisibility]
<1>1. /\ TableUpTo(Len(program) + 1) /\ AllSizes /\ SectionChain(base, sizes, sections, 5)
      /\ Tables /\ TextUpTo(Len(program) + 1)
      /\ DOMAIN sections = 1 .. Len(sections) /\ Len(sections) \in Nat
      /\ \A k \in DOMAIN sections : sections[k].address \in Word /\ sections[k].size \in Nat
  BY AtFinish
<1>2. /\ x.header = image.header /\ x.text = image.text
      /\ x.data = << >> /\ x.rodata = << >>
      /\ x.bss_size \in Nat /\ x.laid_out = FALSE /\ x = [field \in ImageFields |-> x[field]]
  <2>1. Placed("bss") => section("bss").size \in Nat
    BY BssIsNat DEF Finish, AtEnd
  <2>2. x = IF Placed("bss") THEN set_bss_size(image, section("bss").size) ELSE image
    BY DEF Encoded
  <2>3. image.data = << >> /\ image.rodata = << >>
    BY <1>1 DEF Tables
  <2> HIDE DEF x
  <2> QED BY <1>1, <2>1, <2>2, <2>3, BssFacts
<1>3. /\ x.sections = [k \in DOMAIN sections |-> FileEntry(sections[k])]
      /\ x.symbols = [k \in DOMAIN Ordered |-> SymbolEntry(k - 1)]
  BY FinalImage
<1>4. x.header \in H
  BY <1>1, <1>2 DEF Tables, AsNew, HeaderKeys
<1>5. x.sections \in Seq(E)
  <2>1. ASSUME NEW k \in 1 .. Len(sections) PROVE FileEntry(sections[k]) \in E
    <3>1. IsPlaced(sizes, sections[k])
      BY <1>1 DEF SectionChain
    <3>2. sections[k].name \in {"text", "data", "rodata", "bss"}
      BY <1>1, <3>1 DEF IsPlaced, AllSizes, Sizes, SectionNames, SectionOrder
    <3>3. format_section_flags[sections[k].name] \subseteq {"Read", "Write", "Execute"}
      BY <3>2 DEF format_section_flags
    <3>4. sections[k].address \in Int
      BY <1>1, MaxValue DEF Word
    <3> QED BY <3>2, <3>3, <3>4, Codes DEF FileEntry
  <2> HIDE DEF E
  <2>2. x.sections \in [1 .. Len(sections) -> E]
    BY <1>1, <1>3, <2>1
  <2> QED BY <1>1, <2>2, SeqDef
<1>6. x.symbols \in Seq(Y)
  <2>0. /\ DOMAIN Ordered = 1 .. Len(Ordered) /\ Len(Ordered) \in Nat
        /\ \A k \in DOMAIN Ordered : Ordered[k] \in DOMAIN symbols
    BY SortedFacts, SequenceFacts DEF Ordered
  <2>1. ASSUME NEW k \in 1 .. Len(Ordered) PROVE SymbolEntry(k - 1) \in Y
    <3> DEFINE name == Ordered[k]
               y == symbols[name]
               type == IF name = "_start" THEN "Entry" ELSE y.binding
               sight == IF y.binding = "Global" \/ name = "_start" THEN "Global" ELSE "Local"
               h == section_index(y.section)
               o == y.offset
    <3>1. name \in DOMAIN symbols /\ (k - 1) + 1 = k
      BY <2>0
    <3>2. SymbolEntry(k - 1) = [identifier |-> k - 1, type |-> type, section |-> h,
                                offset |-> o, visibility |-> sight]
      BY <3>1 DEF SymbolEntry
    <3>3. o \in Nat /\ y.section \in DOMAIN sizes /\ DOMAIN sizes \subseteq SectionNames
      BY <1>1, <3>1, SymbolAddressTyped DEF AllSizes, Sizes
    <3>4. h \in Int
      BY <1>1, <3>3, EverySectionIsPlaced
    <3>5. y.binding \in {"Local", "Global"}
      BY <1>1, <3>1, BindingTyped
    <3>6. type \in {"Local", "Global", "Entry"} /\ sight \in {"Local", "Global"}
      BY <3>5
    <3> HIDE DEF type, sight, h, o, name, y
    <3> QED BY <3>2, <3>3, <3>4, <3>6, Codes
  <2> HIDE DEF Y
  <2>2. x.symbols \in [1 .. Len(Ordered) -> Y]
    BY <1>3, <2>0, <2>1
  <2> QED BY <2>0, <2>2, SeqDef
<1>7. x.text \in Seq(Int)
  <2>1. IsSequence(image.text) /\ \A k \in 1 .. Len(image.text) : image.text[k] \in Word
    BY <1>1 DEF TextUpTo, TextOf
  <2>2. \A k \in 1 .. Len(image.text) : image.text[k] \in Int
    BY <2>1, MaxValue DEF Word
  <2> QED BY <1>2, <2>1, <2>2, IntSequence
<1>8. x.data \in Seq(Int) /\ x.rodata \in Seq(Int)
  BY <1>2
<1> HIDE DEF x, H, E, Y
<1>9. x \in [header : H, sections : Seq(E), symbols : Seq(Y), text : Seq(Int), data : Seq(Int),
             rodata : Seq(Int), bss_size : Nat, laid_out : BOOLEAN]
  BY <1>2, <1>4, <1>5, <1>6, <1>7, <1>8 DEF ImageFields
<1> QED BY <1>9 DEF x, H, E, Y, TypedImages

-----------------------------------------------------------------------------
(* The names of the labels are listed. *)

\* The arguments stay, the tokens are those of the text, and no label has a name
\* std::sort has not seen.
NamesInv ==
    /\ \E input \in Inputs : source = input[1] /\ base = input[2]
    /\ pass = "parse" => tokens = tokenize(source)
    /\ \A i \in 1 .. Len(program) : program[i].kind = "label" => Listed(program[i].name)

\* A label is a name in front of a colon.
LEMMA LabelIsListed ==
    ASSUME NEW input \in Inputs, NEW t, t = tokenize(input[1]), IsTokens(t), NEW p \in 1 .. Len(t),
           NEW r, r = parse_statement(t, p), r.ok, r.value.kind = "label"
    PROVE  Listed(r.value.name)
<1>0. ~Failed.ok
  BY DEF Failed
<1>n. Len(t) \in Nat
  BY SequenceFacts DEF IsTokens
<1>u. r = Unended(t, p)
  BY <1>0, <1>n, EveryStatementEnds DEF Ended
<1> DEFINE list == IF EndsStatement(t, p + 1) THEN Returns(<< >>, p + 1) ELSE OperandList(t, p + 1)
<1>1. CASE Consumes(t, p, << "Identifier", ":" >>) /\ r = Returns(Label(t[p].text), p + 2)
  <2>1. p + 1 <= Len(t) /\ t[p].kind = "Identifier" /\ t[p + 1].kind = ":"
    BY <1>1, <1>n DEF Consumes
  <2>2. p \in 1 .. Len(t) - 1
    BY <2>1, <1>n
  <2>3. Listed(t[p].text)
    BY <2>1, <2>2, NameOrderAssumption DEF Listed
  <2> QED BY <1>1, <2>3 DEF Returns, Label
<1>2. ASSUME NEW name, NEW next, r = Returns(Section(name), next) PROVE FALSE
  BY <1>2 DEF Returns, Section
<1>3. ASSUME NEW name, NEW next, r = Returns(Global(name), next) PROVE FALSE
  BY <1>3 DEF Returns, Global
<1>4. CASE r = IF list.ok THEN Returns(Ins(t[p].text, list.value), list.next) ELSE Failed
  <2>1. r = Returns(Ins(t[p].text, list.value), list.next)
    BY <1>0, <1>4
  <2> HIDE DEF list
  <2> QED BY <2>1 DEF Returns, Ins
<1>5. r # Failed
  BY <1>0
<1> QED BY <1>u, <1>1, <1>2, <1>3, <1>4, <1>5 DEF Unended

\* No step takes a name that is not listed.
LEMMA NamesInvStep == ProgramInv /\ NamesInv /\ [Next]_vars => NamesInv'
<1> SUFFICES ASSUME ProgramInv, NamesInv, [Next]_vars PROVE NamesInv'
  OBVIOUS
<1>1. UNCHANGED << source, base >>
  <2>1. CASE pass \notin {"lex", "parse"}
    BY <2>1, ProgramStays
  <2>2. CASE pass \in {"lex", "parse"}
    <3>1. Tokenize \/ ParseStatement \/ ParseNewline \/ ParseEnd \/ UNCHANGED vars
      BY <2>2 DEF Next, Analyze, SymbolSection, SymbolGlobal, SymbolLabel, SymbolInstruction, Resolve,
           MeasureSection, MeasureInstruction, MeasureOther, Measured, PlaceSection, ResolveAddresses,
           Populate, EncodeSection, EncodeOther, EncodeInstruction, Finish, At, AtEnd
    <3> QED BY <3>1 DEF Tokenize, ParseStatement, ParseNewline, ParseEnd, ParsesOn, Throw, Begin,
             arguments, vars
  <2> QED BY <2>1, <2>2
<1>2. ASSUME UNCHANGED program, pass' # "parse" \/ UNCHANGED << pass, tokens >> PROVE NamesInv'
  BY <1>1, <1>2 DEF NamesInv
<1>3. CASE pass \notin {"lex", "parse"}
  <2>1. UNCHANGED program
    BY <1>3, ProgramStays
  <2>2. pass' # "parse"
    BY <1>3 DEF Next, Tokenize, ParseStatement, ParseNewline, ParseEnd, Analyze, SymbolSection,
       SymbolGlobal, SymbolLabel, SymbolInstruction, Resolve, MeasureSection,
       MeasureInstruction, MeasureOther, Measured, PlaceSection, ResolveAddresses, Populate,
       EncodeSection, EncodeOther, EncodeInstruction, Finish, Throw, Begin, Onward, Enter,
       At, AtEnd, vars
  <2> QED BY <2>1, <2>2, <1>2
<1>4. CASE pass \in {"lex", "parse"}
  <2>1. Tokenize \/ ParseStatement \/ ParseNewline \/ ParseEnd \/ UNCHANGED vars
    BY <1>4 DEF Next, Analyze, SymbolSection, SymbolGlobal, SymbolLabel, SymbolInstruction, Resolve,
           MeasureSection, MeasureInstruction, MeasureOther, Measured, PlaceSection, ResolveAddresses,
           Populate, EncodeSection, EncodeOther, EncodeInstruction, Finish, At, AtEnd
  <2>2. CASE Tokenize
    <3>1. CASE tokens' = tokenize(source) /\ UNCHANGED program
      BY <1>1, <3>1 DEF NamesInv
    <3>2. CASE pass' = "done" /\ UNCHANGED program
      BY <3>2, <1>2
    <3> QED BY <2>2, <3>1, <3>2 DEF Tokenize, Throw, parsed
  <2>3. CASE ParseStatement
    <3> DEFINE r == parse_statement(tokens, cursor.at)
    <3>1. /\ pass = "parse" /\ tokens = tokenize(source)
          /\ IsTokens(tokens) /\ cursor.at \in 1 .. Len(tokens)
      BY <2>3 DEF ParseStatement, ProgramInv, NamesInv
    <3>2. CASE r.ok /\ ParsesOn(<< r.value >>, r.next)
      <4> DEFINE e == r.value
      <4>1. e.kind = "label" => Listed(e.name)
        <5>1. PICK input \in Inputs : source = input[1]
          BY DEF NamesInv
        <5> QED BY <3>1, <3>2, <5>1, LabelIsListed
      <4>2. program' = program \o << e >> /\ UNCHANGED << tokens, pass >>
        BY <3>2 DEF ParsesOn
      <4> HIDE DEF e, r
      <4> DEFINE longer == Append(program, e)
      <4>3. /\ Len(longer) = Len(program) + 1 /\ Len(program) \in Nat
            /\ longer[Len(program) + 1] = e /\ \A i \in 1 .. Len(program) : longer[i] = program[i]
            /\ longer = program \o << e >>
        BY SequenceFacts DEF ProgramInv
      <4> HIDE DEF longer
      <4>4. ASSUME NEW i \in 1 .. Len(program'), program'[i].kind = "label"
            PROVE  Listed(program'[i].name)
        <5>1. i \in 1 .. Len(program) \/ i = Len(program) + 1
          BY <4>2, <4>3
        <5> QED BY <5>1, <4>1, <4>2, <4>3, <4>4 DEF NamesInv
      <4> QED BY <1>1, <3>1, <4>2, <4>4 DEF NamesInv
    <3>3. CASE Throw("ParseError")
      BY <3>3, <1>2 DEF Throw, parsed
    <3> QED BY <2>3, <3>2, <3>3 DEF ParseStatement
  <2>4. CASE ParseNewline
    <3>1. program' = program
      BY <2>4, SequenceFacts DEF ParseNewline, ParsesOn, ProgramInv
    <3> QED BY <2>4, <3>1, <1>2 DEF ParseNewline, ParsesOn
  <2>5. CASE ParseEnd
    BY <2>5, <1>2 DEF ParseEnd, Begin, parsed
  <2>6. CASE UNCHANGED vars
    BY <2>6, <1>2 DEF vars, parsed
  <2> QED BY <2>1, <2>2, <2>3, <2>4, <2>5, <2>6
<1> QED BY <1>3, <1>4

-----------------------------------------------------------------------------
(* The image that is laid out at the end. *)

\* Sections of the image and of the layout, behind the last step.
LEMMA FinalSizes ==
    ASSUME ProgramInv, TableInv, LayoutInv, ImageInv, Finish
    PROVE  /\ image' \in TypedImages /\ HasLayout(image')
           /\ DOMAIN image'.sections = DOMAIN sections
           /\ \A k \in DOMAIN sections :
                 /\ image'.sections[k].size = sections[k].size
                 /\ SizeOf(image', image'.sections[k].type) = sections[k].size
<1> DEFINE x == Encoded
           z == image'
<1>1. x \in TypedImages
  BY EncodedTyped
<1>2. z = layout(x)
  BY AtFinish
<1>3. z \in TypedImages /\ HasLayout(z)
  BY <1>1, <1>2, LayoutLays
<1>4. DOMAIN x = ImageFields /\ DOMAIN x.header = HeaderKeys
  <2> HIDE DEF x
  <2> QED BY <1>1 DEF TypedImages, ImageFields, HeaderKeys
<1>5. Arranged(x, z)
  <2> HIDE DEF z, x
  <2> QED BY <1>2, <1>4, LayoutFacts
<1>6. ASSUME NEW type \in SectionNames PROVE SizeOf(z, type) = SizeOf(x, type)
  <2> HIDE DEF z, x
  <2>1. z.text = x.text /\ z.data = x.data /\ z.rodata = x.rodata /\ z.bss_size = x.bss_size
    BY <1>5 DEF Arranged
  <2>2. type \in {"text", "data", "rodata", "bss"}
    BY DEF SectionNames, SectionOrder
  <2> QED BY <2>1, <2>2 DEF SizeOf, Payload
<1>7. DOMAIN z.sections = DOMAIN sections
  BY FinalImage
<1>8. ASSUME NEW k \in DOMAIN sections
      PROVE  /\ z.sections[k].size = sections[k].size
             /\ SizeOf(z, z.sections[k].type) = sections[k].size
  <2>1. /\ z.sections[k].type = sections[k].name
        /\ z.sections[k].size = SizeOf(x, sections[k].name)
        /\ SizeOf(x, sections[k].name) = sections[k].size
    BY FinalImage, SizesMatch
  <2>2. sections[k].name \in SectionNames
    <3>1. AllSizes /\ SectionChain(base, sizes, sections, 5) /\ DOMAIN sections = 1 .. Len(sections)
      BY AtFinish
    <3>2. IsPlaced(sizes, sections[k])
      BY <3>1 DEF SectionChain
    <3> QED BY <3>1, <3>2 DEF IsPlaced, AllSizes, Sizes
  <2> HIDE DEF z, x
  <2> QED BY <1>6, <2>1, <2>2
<1> QED BY <1>3, <1>7, <1>8

\* What is known of numbers behind the last step: all words are in .text, which is at the
\* base, and everything else is behind it.
LEMMA FinalNumbers ==
    ASSUME ProgramInv, TableInv, LayoutInv, ImageInv, FitInv, Finish,
           NEW N, N = Cardinality(Instructions)
    PROVE  /\ AllInText /\ N \in Nat /\ base \in Int
           /\ N = Counted(program, "text", Len(program) + 1) /\ Len(image.text) = N
           /\ image.header.memory_size = N
           /\ N # 0 => "text" \in DOMAIN sizes
           /\ \A k \in DOMAIN sections :
                 /\ sections[k].address = IF sections[k].name = "text" THEN base ELSE base + N
                 /\ sections[k].size = IF sections[k].name = "text" THEN N ELSE 0
<1> DEFINE e == Len(program) + 1
<1>1. /\ TableUpTo(e) /\ AllSizes /\ SectionChain(base, sizes, sections, 5) /\ Tables /\ TextUpTo(e)
      /\ Len(program) \in Nat /\ DOMAIN program = 1 .. Len(program)
      /\ DOMAIN sections = 1 .. Len(sections) /\ Len(sections) \in Nat /\ Len(sections) > 0
      /\ \A k \in DOMAIN sections : sections[k].address \in Word /\ sections[k].size \in Nat
  BY AtFinish
<1>2. TextLeads
  BY DEF Finish, AtEnd, FitInv
<1>3. AllInText
  BY <1>1 DEF AllInText, TextUpTo, TextOf
<1>4. /\ Above(base, sizes) = base + N /\ base \in Int
      /\ \A name \in DOMAIN sizes : sizes[name] \in Nat /\ (name # "text" => sizes[name] = 0)
  BY <1>1, <1>3, AboveIsMeant
<1>5. N \in Nat /\ N = Counted(program, "text", e)
  <2>1. e \in 1 .. e
    BY <1>1
  <2> QED BY <1>3, <2>1, TextCounts
<1>6. Len(image.text) = N
  BY <1>1, <1>5 DEF TextUpTo, TextOf
<1>7. /\ N # 0 => "text" \in DOMAIN sizes
      /\ "text" \in DOMAIN sizes => sizes["text"] = N
  BY <1>4, <1>5 DEF Above
<1>8. \A k \in 1 .. Len(sections) :
         /\ sections[k].address = IF sections[k].name = "text" THEN base ELSE base + N
         /\ sections[k].address + sections[k].size = base + N
  BY <1>1, <1>2, <1>4, OnlyTextHasWords DEF TextLeads
<1> HIDE DEF e
<1>9. ASSUME NEW k \in DOMAIN sections
      PROVE  /\ sections[k].address = IF sections[k].name = "text" THEN base ELSE base + N
             /\ sections[k].size = IF sections[k].name = "text" THEN N ELSE 0
  BY <1>1, <1>4, <1>5, <1>8
<1>10. image.header.memory_size = N
  <2>1. /\ image.header.memory_size \in Int
        /\ sections[Len(sections)].address + sections[Len(sections)].size
                = base + image.header.memory_size
    BY <1>1 DEF Tables
  <2>2. sections[Len(sections)].address + sections[Len(sections)].size = base + N
    BY <1>1, <1>8
  <2> QED BY <1>4, <1>5, <2>1, <2>2
<1> QED BY <1>3, <1>4, <1>5, <1>6, <1>7, <1>9, <1>10 DEF e

\* The image is faithful: what serialize appends, layout has laid out.
LEMMA FinalFaithful ==
    ASSUME ProgramInv, TableInv, LayoutInv, ImageInv, FitInv, Finish
    PROVE  Faithful(image')
<1> DEFINE z == image'
           filed == {k \in DOMAIN z.sections :
                        z.sections[k].type # "bss" /\ Payload(z, z.sections[k].type) # << >>}
<1>1. /\ DOMAIN z.sections = DOMAIN sections
      /\ \A k \in DOMAIN sections : z.sections[k].size = SizeOf(z, z.sections[k].type)
      /\ z \in TypedImages /\ HasLayout(z)
  BY FinalSizes
<1>l. z.laid_out = TRUE
  <2> DEFINE x == Encoded
  <2>1. x \in TypedImages /\ z = layout(x)
    BY EncodedTyped, AtFinish
  <2> HIDE DEF x, z
  <2> QED BY <2>1, LayoutMarks
<1>2. /\ z.text = image.text /\ z.data = << >> /\ z.rodata = << >>
      /\ \A k \in DOMAIN sections : z.sections[k].type = sections[k].name
  BY FinalImage
<1>3. /\ AllSizes /\ SectionChain(base, sizes, sections, 5) /\ DOMAIN sections = 1 .. Len(sections)
      /\ TextUpTo(Len(program) + 1)
  BY AtFinish
<1> HIDE DEF z
<1>4. Payload(z, "data") = << >> /\ Payload(z, "rodata") = << >> /\ Payload(z, "text") = image.text
  BY <1>2 DEF Payload
<1>5. \A k \in filed : sections[k].name = "text" /\ k \in 1 .. Len(sections)
  <2> SUFFICES ASSUME NEW k \in filed PROVE sections[k].name = "text" /\ k \in 1 .. Len(sections)
    OBVIOUS
  <2>1. k \in 1 .. Len(sections) /\ sections[k].name # "bss" /\ Payload(z, sections[k].name) # << >>
    BY <1>1, <1>2, <1>3
  <2>2. sections[k].name \in {"text", "data", "rodata", "bss"}
    <3>1. IsPlaced(sizes, sections[k])
      BY <1>3, <2>1 DEF SectionChain
    <3> QED BY <1>3, <3>1 DEF IsPlaced, AllSizes, Sizes, SectionNames, SectionOrder
  <2> QED BY <1>4, <2>1, <2>2
<1>6. \A j, k \in filed : ~(j < k)
  <2> SUFFICES ASSUME NEW j \in filed, NEW k \in filed, j < k PROVE FALSE
    OBVIOUS
  <2>1. j \in 1 .. Len(sections) /\ k \in 1 .. Len(sections) /\ sections[j].name = sections[k].name
    BY <1>5
  <2>2. j = k
    BY <1>3, <2>1 DEF SectionChain
  <2> QED BY <2>1, <2>2
<1>7. ASSUME image.text # << >>
      PROVE  \E k \in filed : z.sections[k].type = "text"
  <2>1. "text" \in DOMAIN sizes
    <3> DEFINE N == Cardinality(Instructions)
    <3>1. Len(image.text) = N /\ (N # 0 => "text" \in DOMAIN sizes)
      BY FinalNumbers
    <3>2. Len(image.text) # 0
      <4> DEFINE t == image.text
                 R == {t[i] : i \in DOMAIN t}
      <4>1. t \in Seq(R) /\ t # << >>
        BY <1>3, <1>7 DEF TextUpTo, TextOf, IsSequence
      <4> HIDE DEF t, R
      <4>2. Len(t) # 0
        BY <4>1, EmptySeq
      <4> QED BY <4>2 DEF t
    <3> HIDE DEF N
    <3> QED BY <3>1, <3>2
  <2>2. Placed("text")
    <3>1. DOMAIN sizes \subseteq SectionNames
      BY <1>3 DEF AllSizes, Sizes
    <3> QED BY <1>3, <2>1, <3>1, EverySectionIsPlaced
  <2>3. PICK k \in DOMAIN sections : sections[k].name = "text"
    BY <2>2 DEF Placed
  <2>4. z.sections[k].type = "text"
    BY <1>2, <2>3
  <2> QED BY <1>1, <1>4, <1>7, <2>4
<1>8. \A type \in {"text", "data", "rodata"} :
        Payload(z, type) # << >> => \E k \in filed : z.sections[k].type = type
  <2> HIDE DEF filed
  <2> QED BY <1>4, <1>7
<1>9. layout(z) = z
  BY <1>1, <1>l, LayoutStays
<1> QED BY <1>6, <1>8, <1>9 DEF Faithful, z

-----------------------------------------------------------------------------
(* What the image means. *)

\* The row of a label in the symbol table.
LEMMA LabelRow ==
    ASSUME ProgramInv, TableUpTo(Len(program) + 1), NEW i \in Labels
    PROVE  /\ program[i].name \in DOMAIN symbols
           /\ symbols[program[i].name].section = SectionOf(i)
           /\ symbols[program[i].name].offset = Counted(program, SectionOf(i), i)
<1>1. Len(program) \in Nat /\ DOMAIN program = 1 .. Len(program)
  BY SequenceFacts DEF ProgramInv
<1> DEFINE e == Len(program) + 1
           name == program[i].name
           s == SectionIn(program, i)
           b == IF name \in globals THEN "Global" ELSE "Local"
           y == symbols[name]
<1>2. i \in Before(program, "label", e)
  BY <1>1 DEF Labels, Before
<1>3. name \in DOMAIN symbols
  BY <1>2 DEF TableUpTo, TableOf, NamesBefore
<1>4. y = [section |-> s, offset |-> Counted(program, s, i), binding |-> b]
  BY <1>2 DEF TableUpTo, TableOf
<1>5. y.section = s /\ y.offset = Counted(program, s, i)
  <2> HIDE DEF b, y, s
  <2> QED BY <1>4
<1>6. SectionOf(i) = s
  BY SectionOfIsSectionIn
<1> QED BY <1>3, <1>5, <1>6

\* Fewer instructions stand in front of a label than in the program exactly if one stands behind.
LEMMA WordBehind ==
    ASSUME ProgramInv, AllInText, NEW i \in Labels
    PROVE  Counted(program, "text", i) < Cardinality(Instructions) <=> \E j \in Instructions : j > i
<1>1. Len(program) \in Nat /\ DOMAIN program = 1 .. Len(program)
  BY SequenceFacts DEF ProgramInv
<1> DEFINE e == Len(program) + 1
           a == InstructionsBefore(i)
           A == Instructions
<1>2. i \in 1 .. e /\ e \in Nat /\ i \in Nat /\ program[i].kind = "label"
  BY <1>1 DEF Labels
<1>3. Counted(program, "text", i) = Cardinality(a) /\ Cardinality(a) \in Nat
  BY <1>2, TextCounts
<1>4. /\ a \subseteq A
      /\ \A j \in A : j \in 1 .. Len(program) /\ (j > i <=> j \notin a)
  <2>1. \A j \in a : j \in A
    BY <1>1, <1>2 DEF InstructionsBefore, Instructions
  <2>2. \A j \in A : j \in 1 .. Len(program) /\ program[j].kind = "instruction"
    BY <1>1 DEF Instructions
  <2>3. ASSUME NEW j \in A PROVE j > i <=> j \notin a
    <3>1. j \in 1 .. Len(program) /\ j # i
      BY <1>2, <2>2
    <3>2. j \in a <=> j \in 1 .. i - 1
      BY <2>2 DEF InstructionsBefore
    <3> HIDE DEF a, A
    <3> QED BY <1>1, <1>2, <3>1, <3>2
  <2> HIDE DEF a, A
  <2> QED BY <2>1, <2>2, <2>3
<1>5. IsFiniteSet(A) /\ Cardinality(A) \in Nat
  <2>1. IsFiniteSet(1 .. Len(program))
    BY <1>1, FS_Interval
  <2>2. A \subseteq 1 .. Len(program)
    BY <1>4
  <2> QED BY <2>1, <2>2, FS_Subset, FS_CardinalityType
<1> HIDE DEF a, A
<1>6. /\ IsFiniteSet(a) /\ Cardinality(a) <= Cardinality(A)
      /\ Cardinality(a) = Cardinality(A) => a = A
  BY <1>4, <1>5, FS_Subset
<1>7. Cardinality(a) < Cardinality(A) <=> a # A
  BY <1>3, <1>5, <1>6
<1>8. a # A <=> \E j \in A : j > i
  BY <1>4
<1> QED BY <1>3, <1>7, <1>8 DEF a, A

\* The sections of what the final image means.
LEMMA FinalSections ==
    ASSUME ProgramInv, TableInv, LayoutInv, ImageInv, FitInv, Finish,
           NEW N, N = Cardinality(Instructions), NEW k \in DOMAIN sections
    PROVE  LET m == Meaning(image')
               s == m.sections[k]
               name == sections[k].name
           IN  /\ k \in DOMAIN m.sections
               /\ name \in {"text", "data", "rodata", "bss"}
               /\ s.type = LoadedType[SectionType[name] + 1]
               /\ s.flags = format_section_flags[name] /\ s.alignment = 1
               /\ s.virtual_address = IF name = "text" THEN base ELSE base + N
               /\ s.memory_size = IF name = "text" THEN N ELSE 0
<1> DEFINE z == image'
           m == Meaning(z)
           name == sections[k].name
<1>1. /\ z \in TypedImages /\ DOMAIN z.sections = DOMAIN sections
      /\ SizeOf(z, z.sections[k].type) = sections[k].size
  BY FinalSizes
<1>2. /\ z.sections[k].type = name /\ z.sections[k].virtual_address = sections[k].address
      /\ z.sections[k].flags = format_section_flags[name] /\ z.sections[k].alignment = 1
  BY FinalImage
<1>3. /\ sections[k].address = IF name = "text" THEN base ELSE base + N
      /\ sections[k].size = IF name = "text" THEN N ELSE 0
  BY FinalNumbers
<1>4. name \in {"text", "data", "rodata", "bss"}
  <2>1. AllSizes /\ SectionChain(base, sizes, sections, 5) /\ DOMAIN sections = 1 .. Len(sections)
    BY AtFinish
  <2>2. IsPlaced(sizes, sections[k])
    BY <2>1 DEF SectionChain
  <2> QED BY <2>1, <2>2 DEF IsPlaced, AllSizes, Sizes, SectionNames, SectionOrder
<1> HIDE DEF z, m
<1>5. k \in 1 .. Len(z.sections) /\ m.sections = [h \in 1 .. Len(z.sections) |-> SectionMeant(z, h)]
  <2>1. DOMAIN z.sections = 1 .. Len(z.sections)
    BY <1>1, ImageTypes
  <2> QED BY <1>1, <2>1, MeaningParts DEF m
<1>6. m.sections[k] = SectionMeant(z, k) /\ k \in DOMAIN m.sections
  BY <1>5
<1>7. /\ SectionMeant(z, k).type = LoadedType[SectionType[z.sections[k].type] + 1]
      /\ SectionMeant(z, k).flags = z.sections[k].flags
      /\ SectionMeant(z, k).virtual_address = z.sections[k].virtual_address
      /\ SectionMeant(z, k).alignment = z.sections[k].alignment
      /\ SectionMeant(z, k).memory_size = SizeOf(z, z.sections[k].type)
  BY DEF SectionMeant
<1> QED BY <1>1, <1>2, <1>3, <1>4, <1>6, <1>7 DEF m, z

\* Its symbols.
LEMMA FinalSymbols ==
    ASSUME ProgramInv, TableInv, LayoutInv, ImageInv, FitInv, Finish, NEW k \in DOMAIN Ordered
    PROVE  LET m == Meaning(image')
               y == m.symbols[k]
               name == Ordered[k]
           IN  /\ k \in DOMAIN m.symbols
               /\ name \in DOMAIN symbols
               /\ y.identifier = k - 1
               /\ y.section + 1 \in DOMAIN sections
               /\ sections[y.section + 1].name = symbols[name].section
               /\ y.address = addresses[name]
               /\ y.address = sections[y.section + 1].address + symbols[name].offset
               /\ name = "_start" => y.type = SymbolType.Entry
<1> DEFINE z == image'
           m == Meaning(z)
           name == Ordered[k]
           entry == SymbolEntry(k - 1)
           s == symbols[name].section
           h == section_index(s)
<1>1. z \in TypedImages /\ DOMAIN z.sections = DOMAIN sections
  BY FinalSizes
<1>2. z.symbols = [j \in DOMAIN Ordered |-> SymbolEntry(j - 1)]
  BY FinalImage
<1>3. z.symbols[k] = entry /\ k \in DOMAIN z.symbols
  <2> HIDE DEF z
  <2> QED BY <1>2
<1>4. name \in DOMAIN symbols /\ (k - 1) + 1 = k
  <2>1. DOMAIN Ordered = 1 .. Len(Ordered) /\ \A j \in DOMAIN Ordered : Ordered[j] \in DOMAIN symbols
    BY SortedFacts, SequenceFacts DEF Ordered
  <2> QED BY <2>1
<1>5. /\ entry.identifier = k - 1
      /\ z.sections[entry.section + 1].virtual_address + entry.offset = addresses[name]
      /\ name = "_start" => entry.type = "Entry"
  BY SymbolRow
<1>6. entry.section = h
  <2> DEFINE type == IF name = "_start" THEN "Entry" ELSE symbols[name].binding
             sight == IF symbols[name].binding = "Global" \/ name = "_start" THEN "Global" ELSE "Local"
             o == symbols[name].offset
  <2>1. entry = [identifier |-> k - 1, type |-> type, section |-> h, offset |-> o, visibility |-> sight]
    BY <1>4 DEF SymbolEntry
  <2> HIDE DEF type, sight, o, entry, h
  <2> QED BY <2>1
<1>7. /\ TableUpTo(Len(program) + 1) /\ AllSizes /\ SectionChain(base, sizes, sections, 5)
      /\ addresses = [n \in DOMAIN symbols |-> SymbolAddress(n)]
  BY AtFinish
<1>8. h + 1 \in DOMAIN sections /\ section(s) = sections[h + 1] /\ section(s).name = s
  <2>1. s \in DOMAIN sizes /\ DOMAIN sizes \subseteq SectionNames
    BY <1>4, <1>7, SymbolAddressTyped DEF AllSizes, Sizes
  <2> QED BY <1>7, <2>1, EverySectionIsPlaced
<1>9. addresses[name] = section(s).address + symbols[name].offset
  BY <1>4, <1>7 DEF SymbolAddress
<1> HIDE DEF z, m, entry, h
<1>10. k \in 1 .. Len(z.symbols) /\ m.symbols = [j \in 1 .. Len(z.symbols) |-> SymbolMeant(z, j)]
  <2>1. DOMAIN z.symbols = 1 .. Len(z.symbols)
    BY <1>1, ImageTypes
  <2> QED BY <1>1, <1>3, <2>1, MeaningParts DEF m
<1>11. m.symbols[k] = SymbolMeant(z, k) /\ k \in DOMAIN m.symbols
  BY <1>10
<1>12. /\ SymbolMeant(z, k).identifier = entry.identifier
       /\ SymbolMeant(z, k).type = SymbolType[entry.type]
       /\ SymbolMeant(z, k).section = entry.section
       /\ entry.section + 1 \in DOMAIN z.sections =>
             SymbolMeant(z, k).address = z.sections[entry.section + 1].virtual_address + entry.offset
  BY <1>3, MeantFields
<1>13. entry.section + 1 \in DOMAIN z.sections
  BY <1>1, <1>6, <1>8
<1>14. SymbolType["Entry"] = SymbolType.Entry
  OBVIOUS
<1> HIDE DEF name, s
<1>15. /\ m.symbols[k].identifier = k - 1 /\ m.symbols[k].section = h
       /\ m.symbols[k].address = addresses[name]
       /\ name = "_start" => m.symbols[k].type = SymbolType.Entry
  BY <1>5, <1>6, <1>11, <1>12, <1>13, <1>14
<1>16. /\ m.symbols[k].section + 1 \in DOMAIN sections
       /\ sections[m.symbols[k].section + 1].name = s
       /\ m.symbols[k].address = sections[m.symbols[k].section + 1].address + symbols[name].offset
  BY <1>8, <1>9, <1>15
<1> QED BY <1>4, <1>11, <1>15, <1>16 DEF m, z, name, s

\* Its header, and how long its tables are.
LEMMA FinalHeader ==
    ASSUME ProgramInv, TableInv, LayoutInv, ImageInv, FitInv, Finish
    PROVE  LET m == Meaning(image')
           IN  /\ m.architecture_id = 1 /\ m.isa_version = 1 /\ m.format_version = 1
               /\ m.memory_base = base /\ m.memory_size = Cardinality(Instructions)
               /\ m.entry_point = addresses["_start"] /\ m.start_symbol = StartSymbol
               /\ DOMAIN m.sections = DOMAIN sections /\ DOMAIN m.symbols = DOMAIN Ordered
<1> DEFINE z == image'
           m == Meaning(z)
<1>1. z \in TypedImages /\ DOMAIN z.sections = DOMAIN sections
  BY FinalSizes
<1>2. /\ z.header.memory_base = base /\ z.header.memory_size = image.header.memory_size
      /\ z.header.entry_point = addresses["_start"] /\ z.header.start_symbol = StartSymbol
      /\ z.header.architecture_id = 1 /\ z.header.isa_version = 1 /\ z.header.format_version = 1
      /\ z.symbols = [k \in DOMAIN Ordered |-> SymbolEntry(k - 1)]
  BY FinalImage
<1>3. image.header.memory_size = Cardinality(Instructions)
  BY FinalNumbers
<1> HIDE DEF z, m
<1>4. /\ \A field \in LoadedHeader : m[field] = z.header[field]
      /\ m.sections = [k \in 1 .. Len(z.sections) |-> SectionMeant(z, k)]
      /\ m.symbols = [k \in 1 .. Len(z.symbols) |-> SymbolMeant(z, k)]
  BY <1>1, MeaningParts DEF m
<1>5. DOMAIN z.sections = 1 .. Len(z.sections) /\ DOMAIN z.symbols = 1 .. Len(z.symbols)
  BY <1>1, ImageTypes
<1>6. DOMAIN m.sections = DOMAIN sections /\ DOMAIN m.symbols = DOMAIN Ordered
  BY <1>1, <1>2, <1>4, <1>5
<1>7. /\ m.architecture_id = 1 /\ m.isa_version = 1 /\ m.format_version = 1
      /\ m.memory_base = base /\ m.memory_size = Cardinality(Instructions)
      /\ m.entry_point = addresses["_start"] /\ m.start_symbol = StartSymbol
  BY <1>2, <1>3, <1>4 DEF LoadedHeader
<1> QED BY <1>6, <1>7 DEF m, z

\* A symbol with a word: it is in .text, and in front of its end.
HasWord(name) == symbols[name].section = "text" /\ symbols[name].offset < Cardinality(Instructions)

\* All symbols of the table have words exactly if all labels have.
LEMMA WordsOfSymbols ==
    ASSUME ProgramInv, TableInv, LayoutInv, ImageInv, FitInv, NamesInv, Finish
    PROVE  (\A k \in DOMAIN Ordered : HasWord(Ordered[k])) <=> LabelsHaveWords
<1> DEFINE e == Len(program) + 1
<1>1. TableUpTo(e) /\ Len(program) \in Nat /\ DOMAIN program = 1 .. Len(program)
  BY AtFinish
<1>2. AllInText
  BY FinalNumbers
<1>3. ASSUME NEW i \in Labels
      PROVE  /\ program[i].name \in DOMAIN symbols
             /\ HasWord(program[i].name) <=>
                   SectionOf(i) = "text" /\ \E j \in Instructions : j > i
  <2>1. /\ program[i].name \in DOMAIN symbols
        /\ symbols[program[i].name].section = SectionOf(i)
        /\ symbols[program[i].name].offset = Counted(program, SectionOf(i), i)
    BY <1>1, LabelRow
  <2>2. Counted(program, "text", i) < Cardinality(Instructions) <=> \E j \in Instructions : j > i
    BY <1>2, WordBehind
  <2> QED BY <2>1, <2>2 DEF HasWord
<1>4. \A name \in DOMAIN symbols : \E i \in Labels : program[i].name = name
  <2>1. DOMAIN symbols = NamesBefore(program, "label", e)
    BY <1>1 DEF TableUpTo, TableOf
  <2>2. Before(program, "label", e) = Labels
    BY <1>1 DEF Before, Labels
  <2> QED BY <2>1, <2>2 DEF NamesBefore
<1>5. \A name \in DOMAIN symbols : Listed(name)
  BY <1>1, <1>4 DEF NamesInv, Labels
<1>6. /\ \A k \in DOMAIN Ordered : Ordered[k] \in DOMAIN symbols
      /\ \A name \in DOMAIN symbols : \E k \in DOMAIN Ordered : Ordered[k] = name
  BY <1>5, SortedFacts DEF Ordered
<1> QED BY <1>3, <1>4, <1>6 DEF LabelsHaveWords

\* A loader may pass on the final image exactly if every label has a word, and the
\* flags of its sections are as ImageLoader wants them.
LEMMA FinalMeaning ==
    ASSUME ProgramInv, TableInv, LayoutInv, ImageInv, FitInv, NamesInv, Finish
    PROVE  /\ Acceptable(Meaning(image')) <=> LabelsHaveWords
           /\ has_section(Meaning(image'), "Text") => ProperFlags(Meaning(image'))
<1> DEFINE m == Meaning(image')
           N == Cardinality(Instructions)
           S == m.sections
           Y == m.symbols
<1>1. /\ m.architecture_id = 1 /\ m.isa_version = 1 /\ m.format_version = 1
      /\ m.memory_base = base /\ m.memory_size = N
      /\ m.entry_point = addresses["_start"] /\ m.start_symbol = StartSymbol
      /\ DOMAIN S = DOMAIN sections /\ DOMAIN Y = DOMAIN Ordered
  BY FinalHeader
<1>2. N \in Nat /\ base \in Int
  BY FinalNumbers
<1>3. /\ TableUpTo(Len(program) + 1) /\ AllSizes /\ SectionChain(base, sizes, sections, 5) /\ Tables
      /\ DOMAIN sections = 1 .. Len(sections) /\ Len(sections) \in Nat
  BY AtFinish
<1>4. ASSUME NEW k \in DOMAIN sections
      PROVE  LET name == sections[k].name
             IN  /\ name \in {"text", "data", "rodata", "bss"}
                 /\ S[k].type = LoadedType[SectionType[name] + 1]
                 /\ S[k].flags = format_section_flags[name] /\ S[k].alignment = 1
                 /\ S[k].virtual_address = IF name = "text" THEN base ELSE base + N
                 /\ S[k].memory_size = IF name = "text" THEN N ELSE 0
  BY FinalSections
<1>5. ASSUME NEW k \in DOMAIN Ordered
      PROVE  /\ Ordered[k] \in DOMAIN symbols
             /\ Y[k].identifier = k - 1
             /\ Y[k].section + 1 \in DOMAIN sections
             /\ sections[Y[k].section + 1].name = symbols[Ordered[k]].section
             /\ Y[k].address = addresses[Ordered[k]]
             /\ Y[k].address = sections[Y[k].section + 1].address + symbols[Ordered[k]].offset
             /\ Ordered[k] = "_start" => Y[k].type = SymbolType.Entry
  BY FinalSymbols
<1>6. \A name \in DOMAIN symbols : symbols[name].offset \in Nat
  BY <1>3, SymbolAddressTyped
<1>7. StartSymbol + 1 \in DOMAIN Ordered /\ Ordered[StartSymbol + 1] = "_start"
  BY <1>3, StartIsEntry DEF Tables
<1>8. (\A k \in DOMAIN Ordered : HasWord(Ordered[k])) <=> LabelsHaveWords
  BY WordsOfSymbols
<1> HIDE DEF m, N
<1>9. ASSUME NEW k \in DOMAIN sections
      PROVE  /\ S[k].type = "Text" <=> sections[k].name = "text"
             /\ "Execute" \in S[k].flags <=> sections[k].name = "text"
             /\ S[k].type = "Data" => "Write" \in S[k].flags
  <2> DEFINE name == sections[k].name
  <2>1. name \in {"text", "data", "rodata", "bss"}
    BY <1>4
  <2>2. S[k].type = LoadedType[SectionType[name] + 1] /\ S[k].flags = format_section_flags[name]
    BY <1>4
  <2> HIDE DEF name, S
  <2> QED BY <2>1, <2>2 DEF LoadedType, SectionType, format_section_flags, name
<1> HIDE DEF S, Y
<1>10. ASSUME NEW k \in DOMAIN sections, NEW a \in Int
       PROVE  a \in Extent(S[k]) <=> sections[k].name = "text" /\ base <= a /\ a < base + N
  <2>1. CASE sections[k].name = "text"
    <3>1. S[k].virtual_address = base /\ S[k].memory_size = N
      BY <1>4, <2>1
    <3> QED BY <1>2, <2>1, <3>1 DEF Extent
  <2>2. CASE sections[k].name # "text"
    <3>1. S[k].virtual_address = base + N /\ S[k].memory_size = 0
      BY <1>4, <2>2
    <3> QED BY <1>2, <2>2, <3>1 DEF Extent
  <2> QED BY <2>1, <2>2
<1>11. ASSUME has_section(m, "Text")
       PROVE  \E k \in DOMAIN sections : text(m) = S[k] /\ sections[k].name = "text"
  <2>1. PICK k \in DOMAIN sections : S[k].type = "Text"
    BY <1>1, <1>11 DEF has_section, S
  <2>2. \A q \in 1 .. k - 1 : S[q].type # "Text"
    <3> SUFFICES ASSUME NEW q \in 1 .. k - 1, S[q].type = "Text" PROVE FALSE
      OBVIOUS
    <3>1. q \in 1 .. Len(sections) /\ k \in 1 .. Len(sections) /\ q # k
      BY <1>3
    <3>2. sections[q].name = sections[k].name
      BY <1>3, <1>9, <2>1, <3>1
    <3> QED BY <1>3, <3>1, <3>2 DEF SectionChain
  <2> DEFINE c == CHOOSE s \in DOMAIN S : /\ S[s].type = "Text"
                                          /\ \A q \in 1 .. s - 1 : S[q].type # "Text"
  <2>3. c \in DOMAIN S /\ S[c].type = "Text"
    BY <1>1, <2>1, <2>2
  <2>4. text(m) = S[c]
    BY DEF text, S
  <2> HIDE DEF c
  <2> QED BY <1>1, <1>9, <2>3, <2>4
<1>12. ASSUME NEW k \in DOMAIN Ordered
       PROVE  /\ Y[k].address \in Int
              /\ Y[k].address \in Extent(S[Y[k].section + 1]) <=> HasWord(Ordered[k])
  <2> DEFINE h == Y[k].section + 1
             o == symbols[Ordered[k]].offset
             a == Y[k].address
  <2>1. /\ h \in DOMAIN sections /\ a = sections[h].address + o /\ o \in Nat
        /\ sections[h].name = symbols[Ordered[k]].section
    BY <1>5, <1>6
  <2>2. sections[h].address = IF sections[h].name = "text" THEN base ELSE base + N
    BY <2>1, FinalNumbers DEF N
  <2> HIDE DEF h, o, a
  <2>3. a \in Int
    BY <1>2, <2>1, <2>2
  <2>4. a \in Extent(S[h]) <=> sections[h].name = "text" /\ base <= a /\ a < base + N
    BY <1>10, <2>1, <2>3
  <2>5. a \in Extent(S[h]) <=> sections[h].name = "text" /\ o < N
    BY <1>2, <2>1, <2>2, <2>4
  <2> QED BY <2>1, <2>3, <2>5 DEF HasWord, h, o, a, N
<1>13. ASSUME \A k \in DOMAIN Ordered : HasWord(Ordered[k])
       PROVE  has_section(m, "Text") /\ m.entry_point \in Extent(text(m))
  <2> DEFINE k == StartSymbol + 1
             h == Y[k].section + 1
  <2>1. /\ k \in DOMAIN Ordered /\ Y[k].address \in Int /\ Y[k].address \in Extent(S[h])
        /\ m.entry_point = Y[k].address /\ h \in DOMAIN sections
    BY <1>1, <1>5, <1>7, <1>12, <1>13
  <2> HIDE DEF k, h
  <2>2. sections[h].name = "text" /\ base <= m.entry_point /\ m.entry_point < base + N
    BY <1>10, <2>1
  <2>3. has_section(m, "Text")
    BY <1>1, <1>9, <2>1, <2>2 DEF has_section, S
  <2>4. PICK j \in DOMAIN sections : text(m) = S[j] /\ sections[j].name = "text"
    BY <1>11, <2>3
  <2> QED BY <1>10, <2>1, <2>2, <2>3, <2>4
<1>14. ASSUME NEW k \in DOMAIN S
       PROVE  /\ S[k].alignment > 0 /\ S[k].virtual_address >= m.memory_base
              /\ S[k].virtual_address + S[k].memory_size <= m.memory_base + m.memory_size
  <2>1. k \in DOMAIN sections
    BY <1>1
  <2>2. /\ S[k].alignment = 1
        /\ S[k].virtual_address = IF sections[k].name = "text" THEN base ELSE base + N
        /\ S[k].memory_size = IF sections[k].name = "text" THEN N ELSE 0
    BY <1>4, <2>1
  <2> QED BY <1>1, <1>2, <2>2
<1>15. m.start_symbol + 1 \in DOMAIN Y /\ Y[m.start_symbol + 1].type = SymbolType.Entry
  BY <1>1, <1>5, <1>7
<1>16. ASSUME NEW k \in DOMAIN Y
       PROVE  Y[k].identifier = k - 1 /\ Y[k].section + 1 \in DOMAIN S
  BY <1>1, <1>5
<1>17. Acceptable(m) <=> \A k \in DOMAIN Ordered : HasWord(Ordered[k])
  <2>1. ASSUME Acceptable(m), NEW k \in DOMAIN Ordered PROVE HasWord(Ordered[k])
    <3>1. Y[k].address \in Extent(S[Y[k].section + 1])
      BY <1>1, <2>1 DEF Acceptable, S, Y
    <3> QED BY <1>12, <3>1
  <2>2. ASSUME \A k \in DOMAIN Ordered : HasWord(Ordered[k]) PROVE Acceptable(m)
    <3>1. \A k \in DOMAIN Y : Y[k].address \in Extent(S[Y[k].section + 1])
      BY <1>1, <1>12, <2>2
    <3>2. has_section(m, "Text") /\ m.entry_point \in Extent(text(m))
      BY <1>13, <2>2
    <3>3. m.memory_size >= 0
      BY <1>1, <1>2
    <3> QED BY <1>1, <1>14, <1>15, <1>16, <3>1, <3>2, <3>3 DEF Acceptable, S, Y
  <2> QED BY <2>1, <2>2
<1>18. ASSUME has_section(m, "Text") PROVE ProperFlags(m)
  <2>1. PICK j \in DOMAIN sections : text(m) = S[j] /\ sections[j].name = "text"
    BY <1>11, <1>18
  <2>2. executable(text(m))
    BY <1>9, <2>1 DEF executable
  <2>3. ASSUME NEW k \in DOMAIN S
        PROVE  /\ S[k].type = "Data" => writable(S[k])
               /\ executable(S[k]) => S[k].type \in {"Text", "Bss"}
    BY <1>1, <1>9 DEF executable, writable
  <2> QED BY <2>2, <2>3 DEF ProperFlags, S
<1> QED BY <1>8, <1>17, <1>18 DEF m

-----------------------------------------------------------------------------
(* What assemble_to_file passes to the writer. *)

\* An image that can be stored, that loaders may pass on exactly if all labels have words.
Ready(z) ==
    /\ z \in TypedImages /\ HasLayout(z) /\ Faithful(z)
    /\ Acceptable(Meaning(z)) <=> LabelsHaveWords
    /\ has_section(Meaning(z), "Text") => ProperFlags(Meaning(z))
    /\ Meaning(z).memory_base = base

ReadyInv == Assembled => Ready(image)

AsmInv == ProgramInv /\ TableInv /\ LayoutInv /\ ImageInv /\ FitInv /\ NamesInv /\ ReadyInv

\* Whether all labels have words does not depend on the pass.
LEMMA SameLabels ==
    ASSUME UNCHANGED program
    PROVE  LabelsHaveWords' = LabelsHaveWords
<1>1. Labels' = Labels /\ Instructions' = Instructions
  BY DEF Labels, Instructions
<1>2. \A i : SectionOf(i)' = SectionOf(i)
  BY DEF SectionOf, SectionsBefore
<1> QED BY <1>1, <1>2 DEF LabelsHaveWords

\* The last step makes an image that is ready.
LEMMA FinishIsReady ==
    ASSUME ProgramInv, TableInv, LayoutInv, ImageInv, FitInv, NamesInv, Finish
    PROVE  Ready(image)'
<1>1. image' \in TypedImages /\ HasLayout(image')
  BY FinalSizes
<1>2. Faithful(image')
  BY FinalFaithful
<1>3. /\ Acceptable(Meaning(image')) <=> LabelsHaveWords
      /\ has_section(Meaning(image'), "Text") => ProperFlags(Meaning(image'))
  BY FinalMeaning
<1>4. Meaning(image').memory_base = base
  BY FinalHeader
<1>5. UNCHANGED << base, program >>
  BY SameProgram
<1>6. LabelsHaveWords' = LabelsHaveWords
  BY <1>5, SameLabels
<1> QED BY <1>1, <1>2, <1>3, <1>4, <1>5, <1>6 DEF Ready

\* All of it holds at the start,
LEMMA AsmInvInit == Init => AsmInv
<1> SUFFICES ASSUME Init PROVE AsmInv
  OBVIOUS
<1>1. ProgramInv /\ TableInv /\ LayoutInv /\ ImageInv /\ FitInv
  BY ProgramInvInit, TableInvInit, LayoutInvInit, ImageInvInit, FitInvInit
<1>2. NamesInv
  <2>1. program = << >> /\ Len(<< >>) = 0
    BY DEF Init
  <2> QED BY <2>1 DEF Init, NamesInv
<1>3. ReadyInv
  BY DEF Init, ReadyInv, Assembled
<1> QED BY <1>1, <1>2, <1>3 DEF AsmInv

\* and behind every step.
LEMMA AsmInvStep == AsmInv /\ [Next]_vars => AsmInv'
<1> SUFFICES ASSUME AsmInv, [Next]_vars PROVE AsmInv'
  OBVIOUS
<1>1. ProgramInv /\ TableInv /\ LayoutInv /\ ImageInv /\ FitInv /\ NamesInv /\ ReadyInv
  BY DEF AsmInv
<1>2. (ProgramInv /\ TableInv /\ LayoutInv /\ ImageInv /\ FitInv)'
  BY <1>1, ProgramInvStep, TableInvStep, LayoutInvStep, ImageInvStep, FitInvStep
<1>3. NamesInv'
  BY <1>1, NamesInvStep
<1>4. ReadyInv'
  <2>1. CASE Finish
    BY <1>1, <2>1, FinishIsReady DEF ReadyInv
  <2>2. CASE UNCHANGED vars
    <3>1. UNCHANGED << base, program, image, outcome >>
      BY <2>2 DEF vars, arguments, parsed
    <3>2. LabelsHaveWords' = LabelsHaveWords
      BY <3>1, SameLabels
    <3>3. Ready(image)' <=> Ready(image)
      BY <3>1, <3>2 DEF Ready
    <3>4. Assembled' <=> Assembled
      BY <3>1 DEF Assembled
    <3> QED BY <1>1, <3>3, <3>4 DEF ReadyInv
  <2>3. CASE ~Assembled'
    BY <2>3 DEF ReadyInv
  <2> QED BY <1>1, <2>1, <2>2, <2>3, AssembledLast
<1> QED BY <1>2, <1>3, <1>4 DEF AsmInv

-----------------------------------------------------------------------------
(* tasm and tvm. *)

\* What the two programs and the file between them have come to.
ToolInv ==
    /\ phase \in {"tasm", "open", "load", "run", "done"}
    /\ phase = "tasm" => file = EmptyFile /\ loaded.sections = << >>
    /\ phase = "open" =>
          /\ Assembled /\ Serializable(image) /\ file = Whole(serialize(image))
          /\ loaded.sections = << >>
    /\ phase \in {"load", "run"} =>
          LabelsHaveWords /\ answer # "ImageLoadError" /\ loaded.sections # << >>
    /\ phase = "done" /\ file # EmptyFile /\ loaded.sections = << >> => ~LabelsHaveWords

\* The validation of the machine's loader is that of LoadedImage.
LEMMA SameValidation == \A m : VM!validate(m) <=> validate(m)
  BY DEF validate, VM!validate, has_section, VM!has_section, executable, VM!executable,
         text, VM!text, is_valid_entry_point, VM!is_valid_entry_point, ValidSection, VM!ValidSection,
         writable, VM!writable

\* TrnLoader opens the file of an image that is ready exactly if all labels have words,
\* and ImageLoader accepts what it returns.
LEMMA ReadyLoads ==
    ASSUME NEW z, Ready(z), Serializable(z), NEW f, f = Whole(serialize(z)), base = 0
    PROVE  /\ Loads(f) <=> LabelsHaveWords
           /\ Loads(f) => VM!validate(Loaded(f)) /\ Loaded(f).sections # << >>
<1>1. StoredAs(z, f)
  BY DEF Ready, StoredAs, Storable
<1>2. /\ Loads(f) <=> Acceptable(Meaning(z))
      /\ Loads(f) => Loaded(f) = Meaning(z)
  BY <1>1, LoadsIffAcceptable
<1>3. Loads(f) <=> LabelsHaveWords
  BY <1>2 DEF Ready
<1>4. ASSUME Loads(f) PROVE VM!validate(Loaded(f)) /\ Loaded(f).sections # << >>
  <2> DEFINE m == Meaning(z)
  <2>1. Loaded(f) = m /\ has_section(m, "Text")
    BY <1>2, <1>4 DEF Acceptable
  <2>2. ProperFlags(m) /\ m.memory_base = 0
    BY <2>1 DEF Ready
  <2>3. f \in File
    BY <1>1, StoredFacts
  <2> HIDE DEF m
  <2>4. validate(m)
    BY <1>4, <2>1, <2>2, <2>3, SecondLoaderTests
  <2>5. m.sections # << >>
    BY <2>1 DEF has_section
  <2> QED BY <2>1, <2>4, <2>5, SameValidation
<1> QED BY <1>3, <1>4

\* A step of the machine ends with one of these.
LEMMA StepAnswers == VM!step => answer' \in {"ok", "out_of_range", "ExecutionError"}
<1> SUFFICES ASSUME VM!step PROVE answer' \in {"ok", "out_of_range", "ExecutionError"}
  OBVIOUS
<1>1. ASSUME NEW c, VM!Advance(c) PROVE answer' \in {"ok", "out_of_range"}
  BY <1>1 DEF VM!Advance
<1>2. ASSUME NEW i, VM!Jump(i) PROVE answer' = "ok"
  BY <1>2 DEF VM!Jump
<1>3. ASSUME NEW i, VM!Execute(i) PROVE answer' \in {"ok", "out_of_range", "ExecutionError"}
  <2>1. ASSUME NEW v, VM!WriteBack(i, v) PROVE answer' \in {"ok", "out_of_range"}
    BY <1>1, <2>1 DEF VM!WriteBack
  <2>2. VM!Ldi(i) \/ VM!Mov(i) \/ VM!Add(i) \/ VM!Sub(i) \/ VM!Mul(i) \/ VM!Tand(i) \/ VM!Tor(i)
           \/ VM!Txor(i) \/ VM!Tnot(i) \/ VM!Shf(i) \/ VM!Ld(i) \/ VM!Lea(i)
        => answer' \in {"ok", "out_of_range"}
    BY <2>1 DEF VM!Ldi, VM!Mov, VM!Add, VM!Sub, VM!Mul, VM!Tand, VM!Tor, VM!Txor, VM!Tnot, VM!Shf,
         VM!Ld, VM!Lea
  <2>3. VM!Nop(i) \/ VM!St(i) \/ VM!Cmp(i) => answer' \in {"ok", "out_of_range"}
    BY <1>1 DEF VM!Nop, VM!St, VM!Cmp
  <2>4. ASSUME NEW op, NEW taken, VM!Branch(i, op, taken) PROVE answer' \in {"ok", "out_of_range"}
    BY <1>1, <1>2, <2>4 DEF VM!Branch
  <2>5. VM!Jmp(i) \/ VM!Beq(i) \/ VM!Bgt(i) \/ VM!Blt(i) => answer' \in {"ok", "out_of_range"}
    BY <1>2, <2>4 DEF VM!Jmp, VM!Beq, VM!Bgt, VM!Blt
  <2>6. VM!Hlt(i) \/ VM!Unsupported(i) => answer' \in {"ok", "ExecutionError"}
    BY DEF VM!Hlt, VM!Unsupported
  <2>7. VM!Call(i) \/ VM!Ret(i) => answer' \in {"ok", "out_of_range"}
    BY DEF VM!Call, VM!Ret, VM!Pushed, VM!Pushing
  <2> QED BY <1>3, <2>2, <2>3, <2>5, <2>6, <2>7 DEF VM!Execute
<1> QED BY <1>3 DEF VM!step

\* At the start nothing is loaded and nothing is on the disk.
LEMMA ToolInvInit == StartTools => ToolInv /\ AsmInv
<1> SUFFICES ASSUME StartTools PROVE ToolInv /\ AsmInv
  OBVIOUS
<1>1. AsmInv
  BY AsmInvInit DEF StartTools
<1>2. loaded = [sections |-> << >>]
  BY DEF StartTools, VM!Init
<1>3. loaded.sections = << >>
  BY <1>2
<1> QED BY <1>1, <1>3 DEF StartTools, ToolInv

\* No step of tasm or tvm breaks what is known.
LEMMA ToolInvStep == AsmInv /\ ToolInv /\ [ToolStep]_allvars => AsmInv' /\ ToolInv'
<1> SUFFICES ASSUME AsmInv, ToolInv, [ToolStep]_allvars PROVE AsmInv' /\ ToolInv'
  OBVIOUS
<1>1. [Next]_vars
  BY DEF ToolStep, Assemble, TasmExit, Open, LoadTurn, Run, RunTurn, TvmExit, allvars, tasm
<1>2. AsmInv'
  BY <1>1, AsmInvStep
<1>3. ASSUME UNCHANGED vars
      PROVE  /\ LabelsHaveWords' = LabelsHaveWords
             /\ UNCHANGED << image, outcome >>
  <2>1. UNCHANGED << program, image, outcome >>
    BY <1>3 DEF vars, parsed
  <2> QED BY <2>1, SameLabels
<1>4. ToolInv'
  <2>1. CASE Assemble
    <3>1. phase = "tasm" /\ UNCHANGED << phase, file, loaded >>
      BY <2>1 DEF Assemble, tvm
    <3> QED BY <3>1 DEF ToolInv
  <2>2. CASE TasmExit
    <3>1. phase = "tasm" /\ UNCHANGED << vars, loaded >>
      BY <2>2 DEF TasmExit, tvm, tasm
    <3>2. file = EmptyFile /\ loaded.sections = << >>
      BY <3>1 DEF ToolInv
    <3>3. CASE outcome = "ok" /\ Serializable(image)
      <4>1. file' = Whole(serialize(image)) /\ phase' = "open"
        BY <2>2, <3>3 DEF TasmExit
      <4> QED BY <1>3, <3>1, <3>2, <3>3, <4>1 DEF ToolInv, Assembled
    <3>4. CASE ~(outcome = "ok" /\ Serializable(image))
      <4>1. file' = EmptyFile /\ phase' = "done"
        BY <2>2, <3>2, <3>4 DEF TasmExit
      <4> QED BY <3>1, <3>2, <4>1 DEF ToolInv
    <3> QED BY <3>3, <3>4
  <2>3. CASE Open
    <3>1. /\ phase = "open" /\ UNCHANGED << vars, file >>
      BY <2>3 DEF Open, tasm
    <3>2. /\ Assembled /\ Serializable(image) /\ file = Whole(serialize(image))
          /\ loaded.sections = << >>
      BY <3>1 DEF ToolInv
    <3>3. Ready(image) /\ base = 0
      BY <3>2, ToolAssumption DEF AsmInv, ReadyInv, NamesInv
    <3>4. /\ Loads(file) <=> LabelsHaveWords
          /\ Loads(file) => VM!validate(Loaded(file)) /\ Loaded(file).sections # << >>
      BY <3>2, <3>3, ReadyLoads
    <3>5. CASE Loads(file)
      <4>1. VM!load(Loaded(file)) /\ phase' = "load"
        BY <2>3, <3>5 DEF Open
      <4>2. loaded' = Loaded(file) /\ answer' = "ok"
        BY <3>4, <3>5, <4>1 DEF VM!load, VM!Accept, VM!Reject
      <4> QED BY <1>3, <3>1, <3>4, <3>5, <4>1, <4>2 DEF ToolInv
    <3>6. CASE ~Loads(file)
      <4>1. phase' = "done" /\ UNCHANGED loaded
        BY <2>3, <3>6 DEF Open, tvm
      <4> QED BY <1>3, <3>1, <3>4, <3>6, <4>1 DEF ToolInv
    <3> QED BY <3>5, <3>6
  <2>4. CASE LoadTurn
    <3>1. phase = "load" /\ UNCHANGED << vars, phase, file, loaded >>
      BY <2>4 DEF LoadTurn, tasm, VM!LoadTurn, VM!LoadWord, VM!NextSection, VM!SetEntry
    <3>2. answer' \in {answer, "ok", "out_of_range"}
      BY <2>4 DEF LoadTurn, VM!LoadTurn, VM!LoadWord, VM!NextSection, VM!SetEntry
    <3> QED BY <1>3, <3>1, <3>2 DEF ToolInv
  <2>5. CASE Run
    <3>1. phase = "load" /\ phase' = "run" /\ UNCHANGED << vars, file, loaded, answer >>
      BY <2>5 DEF Run, tasm, VM!Run, VM!vars
    <3> QED BY <1>3, <3>1 DEF ToolInv
  <2>6. CASE RunTurn
    <3>1. phase = "run" /\ UNCHANGED << vars, phase, file, loaded >>
      BY <2>6 DEF RunTurn, tasm, VM!RunTurn
    <3>2. answer' \in {"ok", "out_of_range", "ExecutionError"}
      BY <2>6, StepAnswers DEF RunTurn, VM!RunTurn
    <3> QED BY <1>3, <3>1, <3>2 DEF ToolInv
  <2>7. CASE TvmExit
    <3>1. phase \in {"load", "run"} /\ phase' = "done" /\ UNCHANGED loaded
      BY <2>7 DEF TvmExit, tvm
    <3> QED BY <3>1 DEF ToolInv
  <2>8. CASE UNCHANGED allvars
    <3>1. UNCHANGED << vars, phase, file, loaded, answer >>
      BY <2>8 DEF allvars, tasm, tvm
    <3> QED BY <1>3, <3>1 DEF ToolInv, Assembled
  <2> QED BY <2>1, <2>2, <2>3, <2>4, <2>5, <2>6, <2>7, <2>8 DEF ToolStep
<1> QED BY <1>2, <1>4

\* tvm accepts what tasm writes exactly if every label has a word behind it in .text: what
\* the assembler makes of a program is, through the file, what both loaders test.
THEOREM ToolsAgree == ToolSpec => []OpensIffLabelsHaveWords
<1>1. ToolInv => OpensIffLabelsHaveWords
  BY DEF ToolInv, OpensIffLabelsHaveWords
<1> QED BY <1>1, ToolInvInit, ToolInvStep, PTL DEF ToolSpec

-----------------------------------------------------------------------------
(* What a word that the encoder made says, when the machine decodes it.       *)

\* The fields of a word, for the lemmas.
HasFields(i, m, rd, rs1, rs2) == i.opcode = m /\ i.rd = rd /\ i.rs1 = rs1 /\ i.rs2 = rs2

\* The two trits of a register stand for no other.
LEMMA RegisterIsOnly ==
    ASSUME NEW r \in Register, NEW t, NEW k, REGISTER_ENCODING[r] = << t[k], t[k + 1] >>
    PROVE  decode_register(t, k) = r
<1>1. \A q \in Register : REGISTER_ENCODING[q] = << (q \div 3) - 1, (q % 3) - 1 >>
  BY DEF REGISTER_ENCODING
<1>2. ASSUME NEW q \in Register, REGISTER_ENCODING[q] = << t[k], t[k + 1] >> PROVE q = r
  <2> DEFINE a == (q \div 3) - 1
             b == (q % 3) - 1
             c == (r \div 3) - 1
             d == (r % 3) - 1
  <2>1. REGISTER_ENCODING[q] = << a, b >> /\ REGISTER_ENCODING[r] = << c, d >>
    BY <1>1
  <2>2. q = 3 * (a + 1) + (b + 1) /\ r = 3 * (c + 1) + (d + 1)
    BY DEF Register
  <2> HIDE DEF a, b, c, d
  <2>3. << a, b >> = << c, d >>
    BY <1>2, <2>1
  <2>4. a = c /\ b = d
    BY <2>3
  <2> QED BY <2>2, <2>4
<1> QED BY <1>2 DEF decode_register

\* The three trits of an opcode, read back.
LEMMA OpcodeIsOnly ==
    ASSUME NEW m \in Opcode
    PROVE  /\ OpcodeTrits(m) = << OpcodeTrits(m)[1], OpcodeTrits(m)[2], OpcodeTrits(m)[3] >>
           /\ Mnemonics[9 * OpcodeTrits(m)[1] + 3 * OpcodeTrits(m)[2] + OpcodeTrits(m)[3] + 14] = m
<1> DEFINE code == CHOOSE k \in 1 .. 27 : Mnemonics[k] = m
           n == code - 14
           s == Shifted(n)
           a == LowTrit(Shifted(Shifted(n)))
           b == LowTrit(Shifted(n))
           c == LowTrit(n)
<1>1. code \in 1 .. 27 /\ Mnemonics[code] = m
  <2>1. \E k \in 1 .. 27 : Mnemonics[k] = m
    BY DEF Opcode
  <2> QED BY <2>1
<1>2. OpcodeTrits(m) = << a, b, c >>
  BY DEF OpcodeTrits
<1> HIDE DEF code
<1>3. n \in -13 .. 13 /\ n + 14 = code
  BY <1>1
<1> HIDE DEF n
<1>4. c \in Int /\ s \in -4 .. 4 /\ n = s * 3 + c
  BY <1>3 DEF LowTrit, Shifted
<1>5. b \in Int /\ Shifted(s) \in -1 .. 1 /\ s = Shifted(s) * 3 + b
  BY <1>4 DEF LowTrit, Shifted
<1>6. a = Shifted(s)
  BY <1>5 DEF LowTrit
<1> HIDE DEF a, b, c, s
<1>7. 9 * a + 3 * b + c + 14 = code
  BY <1>3, <1>4, <1>5, <1>6
<1> DEFINE o == OpcodeTrits(m)
<1>8. o[1] = a /\ o[2] = b /\ o[3] = c
  BY <1>2
<1> QED BY <1>1, <1>2, <1>7, <1>8
\* Two trits more behind a sequence of trits.
LEMMA TwoMore ==
    ASSUME NEW s \in Seq(Trit), NEW t \in Seq(Trit), Len(t) = 2
    PROVE  /\ s \o t \in Seq(Trit) /\ Len(s \o t) = Len(s) + 2
           /\ \A i \in 1 .. Len(s) : (s \o t)[i] = s[i]
           /\ (s \o t)[Len(s) + 1] = t[1] /\ (s \o t)[Len(s) + 2] = t[2]
<1> DEFINE u == s \o t
           n == Len(s)
<1>n. n \in Nat
  OBVIOUS
<1>0. /\ u \in Seq(Trit) /\ Len(u) = Len(s) + Len(t)
      /\ \A i \in 1 .. Len(s) + Len(t) : u[i] = IF i <= Len(s) THEN s[i] ELSE t[i - Len(s)]
  BY ConcatProperties
<1> HIDE DEF u
<1>1. u \in Seq(Trit) /\ Len(u) = n + 2
  BY <1>0
<1>2. \A i \in 1 .. n + 2 : u[i] = IF i <= n THEN s[i] ELSE t[i - n]
  BY <1>0
<1> HIDE DEF n
<1>3. n + 1 \in 1 .. n + 2 /\ ~(n + 1 <= n) /\ (n + 1) - n = 1
      /\ n + 2 \in 1 .. n + 2 /\ ~(n + 2 <= n) /\ (n + 2) - n = 2
  BY <1>n
<1>4. u[n + 1] = t[(n + 1) - n] /\ u[n + 2] = t[(n + 2) - n]
  BY <1>2, <1>3
<1>5. \A i \in 1 .. n : i \in 1 .. n + 2 /\ i <= n
  BY <1>n
<1> QED BY <1>1, <1>2, <1>3, <1>4, <1>5 DEF u, n

\* encode puts them where decode looks for them.
LEMMA EncodeFields ==
    ASSUME NEW m \in Opcode, NEW rd \in Register, NEW rs1 \in Register, NEW rs2 \in Register,
           NEW v \in Int
    PROVE  HasFields(decode(encode(m, rd, rs1, rs2, make_cargo(v))), m, rd, rs1, rs2)
<1> DEFINE c == make_cargo(v)
           o == OpcodeTrits(m)
           x == REGISTER_ENCODING[rd]
           y == REGISTER_ENCODING[rs1]
           z == REGISTER_ENCODING[rs2]
           head == ((o \o x) \o y) \o z
           T == [i \in TritIndex |-> IF i < CARGO_OFFSET THEN head[i + 1] ELSE c[i - CARGO_OFFSET]]
           e == encode(m, rd, rs1, rs2, c)
<1>1. e = to_integer(T)
  BY DEF encode
<1>2. \A r \in Register : /\ REGISTER_ENCODING[r] \in Seq(Trit) /\ Len(REGISTER_ENCODING[r]) = 2
                          /\ REGISTER_ENCODING[r] = << REGISTER_ENCODING[r][1], REGISTER_ENCODING[r][2] >>
  <2> TAKE r \in Register
  <2> DEFINE a == (r \div 3) - 1
             b == (r % 3) - 1
             w == REGISTER_ENCODING[r]
  <2>1. a \in Trit /\ b \in Trit
    BY DEF Register, Trit
  <2>2. w = << a, b >>
    BY DEF REGISTER_ENCODING
  <2> HIDE DEF a, b, w
  <2>3. w \in Seq(Trit) /\ Len(w) = 2 /\ w[1] = a /\ w[2] = b
    BY <2>1, <2>2
  <2>4. w = << w[1], w[2] >>
    BY <2>2, <2>3
  <2> QED BY <2>3, <2>4 DEF w
<1>3. o \in Seq(Trit) /\ Len(o) = 3
  <2> DEFINE code == CHOOSE k \in 1 .. 27 : Mnemonics[k] = m
             n == code - 14
             a == LowTrit(Shifted(Shifted(n)))
             b == LowTrit(Shifted(n))
             d == LowTrit(n)
  <2>1. n \in Int
    <3>1. \E k \in 1 .. 27 : Mnemonics[k] = m
      BY DEF Opcode
    <3>2. code \in 1 .. 27
      BY <3>1
    <3> HIDE DEF code
    <3> QED BY <3>2
  <2>2. o = << a, b, d >>
    BY DEF OpcodeTrits
  <2> HIDE DEF n
  <2>3. d \in Trit /\ Shifted(n) \in Int
    BY <2>1, LowTritSplits
  <2>4. b \in Trit /\ Shifted(Shifted(n)) \in Int
    BY <2>3, LowTritSplits
  <2>5. a \in Trit
    BY <2>4, LowTritSplits
  <2> HIDE DEF a, b, d, o
  <2> QED BY <2>2, <2>3, <2>4, <2>5
<1>4. /\ x \in Seq(Trit) /\ Len(x) = 2 /\ y \in Seq(Trit) /\ Len(y) = 2 /\ z \in Seq(Trit) /\ Len(z) = 2
  BY <1>2
<1>5. /\ CARGO_OFFSET = 9 /\ CARGO_WIDTH \in Nat /\ WIDTH = 9 + CARGO_WIDTH
      /\ TritIndex = 0 .. WIDTH - 1 /\ CargoIndex = 0 .. CARGO_WIDTH - 1
  BY CargoTrits DEF CARGO_OFFSET, TritIndex, CargoIndex
<1>6. \A i \in CargoIndex : c[i] \in Trit
  BY CargoTrits
<1>7. /\ head \in Seq(Trit) /\ Len(head) = 9
      /\ head[1] = o[1] /\ head[2] = o[2] /\ head[3] = o[3] /\ head[4] = x[1] /\ head[5] = x[2]
      /\ head[6] = y[1] /\ head[7] = y[2] /\ head[8] = z[1] /\ head[9] = z[2]
  <2> HIDE DEF o, x, y, z
  <2> DEFINE p == o \o x
             q == p \o y
  <2>1. /\ p \in Seq(Trit) /\ Len(p) = 5 /\ \A i \in 1 .. 3 : p[i] = o[i]
        /\ p[4] = x[1] /\ p[5] = x[2]
    <3>1. /\ o \o x \in Seq(Trit) /\ Len(o \o x) = Len(o) + 2
          /\ \A i \in 1 .. Len(o) : (o \o x)[i] = o[i]
          /\ (o \o x)[Len(o) + 1] = x[1] /\ (o \o x)[Len(o) + 2] = x[2]
      BY <1>3, <1>4, TwoMore
    <3>2. Len(o) = 3 /\ 3 + 1 = 4 /\ 3 + 2 = 5
      BY <1>3, <1>4
    <3> QED BY <3>1, <3>2, Zenon
  <2> HIDE DEF p
  <2>2. /\ q \in Seq(Trit) /\ Len(q) = 7 /\ \A i \in 1 .. 5 : q[i] = p[i]
        /\ q[6] = y[1] /\ q[7] = y[2]
    <3>1. /\ p \o y \in Seq(Trit) /\ Len(p \o y) = Len(p) + 2
          /\ \A i \in 1 .. Len(p) : (p \o y)[i] = p[i]
          /\ (p \o y)[Len(p) + 1] = y[1] /\ (p \o y)[Len(p) + 2] = y[2]
      BY <1>4, <2>1, TwoMore
    <3>2. Len(p) = 5 /\ 5 + 1 = 6 /\ 5 + 2 = 7
      BY <1>4, <2>1
    <3> QED BY <3>1, <3>2, Zenon
  <2> HIDE DEF q
  <2>3. /\ q \o z \in Seq(Trit) /\ Len(q \o z) = 9 /\ \A i \in 1 .. 7 : (q \o z)[i] = q[i]
        /\ (q \o z)[8] = z[1] /\ (q \o z)[9] = z[2]
    <3>1. /\ q \o z \in Seq(Trit) /\ Len(q \o z) = Len(q) + 2
          /\ \A i \in 1 .. Len(q) : (q \o z)[i] = q[i]
          /\ (q \o z)[Len(q) + 1] = z[1] /\ (q \o z)[Len(q) + 2] = z[2]
      BY <1>4, <2>2, TwoMore
    <3>2. Len(q) = 7 /\ 7 + 1 = 8 /\ 7 + 2 = 9
      BY <1>4, <2>2
    <3> QED BY <3>1, <3>2, Zenon
  <2>8. head = q \o z
    BY DEF p, q
  <2> HIDE DEF head
  <2>9. 1 \in 1 .. 3 /\ 2 \in 1 .. 3 /\ 3 \in 1 .. 3 /\ 1 .. 3 \subseteq 1 .. 5 /\ 1 .. 5 \subseteq 1 .. 7
    OBVIOUS
  <2>10. 4 \in 1 .. 5 /\ 5 \in 1 .. 5 /\ 6 \in 1 .. 7 /\ 7 \in 1 .. 7
    OBVIOUS
  <2> QED BY <2>1, <2>2, <2>3, <2>8, <2>9, <2>10
<1> HIDE DEF head, c, o, x, y, z
<1>8. T \in Trits
  <2>1. ASSUME NEW i \in TritIndex PROVE T[i] \in Trit
    <3>1. CASE i < 9
      <4>1. i + 1 \in 1 .. 9
        BY <1>5, <3>1
      <4>2. head[i + 1] \in Trit
        BY <4>1, <1>7, ElementOfSeq
      <4> QED BY <4>2, <3>1, <1>5
    <3>2. CASE i >= 9
      <4>1. i - 9 \in CargoIndex /\ ~(i < 9)
        BY <1>5, <3>2
      <4> QED BY <4>1, <1>5, <1>6
    <3> QED BY <3>1, <3>2, <1>5
  <2> QED BY <2>1 DEF Trits
<1>9. from_integer(e) = T
  BY <1>1, <1>8, TritsRoundTrip
<1>10. \A i \in 0 .. 8 : T[i] = head[i + 1]
  <2> TAKE i \in 0 .. 8
  <2>1. i \in TritIndex /\ i < 9
    BY <1>5
  <2> QED BY <2>1, <1>5
<1> HIDE DEF e, T
<1>11. /\ T[0] = o[1] /\ T[1] = o[2] /\ T[2] = o[3] /\ T[3] = x[1] /\ T[4] = x[2]
       /\ T[5] = y[1] /\ T[6] = y[2] /\ T[7] = z[1] /\ T[8] = z[2]
  BY <1>7, <1>10
<1>12. opcode(T) = m
  <2>1. Mnemonics[9 * o[1] + 3 * o[2] + o[3] + 14] = m
    BY OpcodeIsOnly DEF o
  <2>2. T[0] = o[1] /\ T[1] = o[2] /\ T[2] = o[3]
    BY <1>11
  <2>3. opcode(T) = Mnemonics[9 * T[0] + 3 * T[1] + T[2] + 14]
    BY Zenon DEF opcode
  <2> QED BY <2>1, <2>2, <2>3, Zenon
<1>13. decode_register(T, 3) = rd
  <2>1. REGISTER_ENCODING[rd] = << T[3], T[3 + 1] >>
    BY <1>2, <1>11 DEF x
  <2> QED BY <2>1, RegisterIsOnly
<1>14. decode_register(T, 5) = rs1
  <2>1. REGISTER_ENCODING[rs1] = << T[5], T[5 + 1] >>
    BY <1>2, <1>11 DEF y
  <2> QED BY <2>1, RegisterIsOnly
<1>15. decode_register(T, 7) = rs2
  <2>1. REGISTER_ENCODING[rs2] = << T[7], T[7 + 1] >>
    BY <1>2, <1>11 DEF z
  <2> QED BY <2>1, RegisterIsOnly
<1>16. /\ decode(e).opcode = opcode(T) /\ decode(e).rd = decode_register(T, 3)
       /\ decode(e).rs1 = decode_register(T, 5) /\ decode(e).rs2 = decode_register(T, 7)
  BY <1>9 DEF decode, RD_OFFSET, RS1_OFFSET, RS2_OFFSET
<1> QED BY <1>12, <1>13, <1>14, <1>15, <1>16 DEF HasFields, e, c

-----------------------------------------------------------------------------
(* The words of .text say their statements.                                   *)

\* The word w is made of this instruction: it decodes to its mnemonic and its fields, but
\* for the target of a branch.
Says(w, s) ==
    /\ decode(w).opcode = s.mnemonic
    /\ s.mnemonic \notin Branches =>
          LET f == FieldsOf(s.mnemonic, s.operands)
          IN  HasFields(decode(w), s.mnemonic, f.rd, f.rs1, f.rs2) /\ decode(w).immediate = f.cargo

\* So is the word of the statement the encode loop is at.
LEMMA EncodedSays ==
    ASSUME ProgramInv, TableInv, LayoutInv, At("encode", "instruction"), cursor.section = "text",
           Encodable(Here.mnemonic, ResolvedOperands)
    PROVE  Says(encode_instruction(Here.mnemonic, ResolvedOperands), Here)
<1> DEFINE m == Here.mnemonic
           o == ResolvedOperands
           f == FieldsOf(m, o)
           w == encode_instruction(m, o)
           target == Here.operands[1].name
           d == Displacement(target)
<1>1. /\ pass = "encode" /\ cursor.at \in 1 .. Len(program) /\ Here = program[cursor.at]
      /\ Here.kind = "instruction" /\ Len(program) \in Nat /\ DOMAIN program = 1 .. Len(program)
  <2>1. Len(program) \in Nat /\ DOMAIN program = 1 .. Len(program)
    BY SequenceFacts DEF ProgramInv
  <2> QED BY <2>1 DEF At, Here, ProgramInv
<1>2. IsStatement(Here) /\ analyze(Here)
  BY <1>1 DEF ProgramInv, Analysed
<1>3. m \in Mnemonic
  BY <1>1, <1>2, OperandKinds
<1>4. ASSUME m \in Branches PROVE d \in Int /\ o = << Imm(d) >>
  <2>1. LaidOut
    BY <1>1 DEF LaidOut
  <2>2. addresses[target] \in Word
    BY <1>1, <1>4, <2>1, TargetHasAddress
  <2>3. section("text").address \in Word
    <3>1. SectionIn(program, cursor.at) = "text" /\ cursor.at \in 1 .. Len(program) + 1
      BY <1>1 DEF TableInv
    <3> QED BY <2>1, <3>1, TextIsPlaced
  <2>4. d = addresses[target] - (section("text").address + cursor.offset) /\ cursor.offset \in Nat
    BY DEF Displacement, ProgramInv
  <2>5. d \in Int
    <3> DEFINE a == addresses[target]
               b == section("text").address
               c == cursor.offset
    <3>1. a \in Int /\ b \in Int /\ c \in Nat /\ d = a - (b + c)
      BY <2>2, <2>3, <2>4, MaxValue DEF Word
    <3> HIDE DEF a, b, c, d
    <3> QED BY <3>1
  <2>6. o = << Imm(d) >>
    BY <1>4 DEF ResolvedOperands
  <2> QED BY <2>5, <2>6
<1>5. m \notin Branches => o = Here.operands
  BY DEF ResolvedOperands
<1> HIDE DEF d
<1>6. f.rd \in Register /\ f.rs1 \in Register /\ f.rs2 \in Register /\ f.cargo \in Int
  <2>1. m \in Branches => \E n \in Int : o = << Imm(n) >>
    BY <1>4
  <2> DEFINE h == Here
  <2>2. IsStatement(h) /\ h.kind = "instruction" /\ analyze(h) /\ m = h.mnemonic
        /\ (m \notin Branches => o = h.operands)
    BY <1>1, <1>2, <1>5
  <2> HIDE DEF h, m, o
  <2> QED BY <2>1, <2>2, FieldsTyped
<1>7. w = encode(m, f.rd, f.rs1, f.rs2, make_cargo(f.cargo)) /\ CargoFits(f.cargo)
  BY DEF encode_instruction, Encodable
<1>8. m \in Opcode
  BY <1>3, MnemonicsAreOpcodes
<1> HIDE DEF m, o, w
<1>9. m \notin Branches => f = FieldsOf(m, Here.operands)
  BY <1>5
<1> HIDE DEF f
<1>10. decode(w).immediate = f.cargo
  BY <1>6, <1>7, <1>8, EncodeRoundTrip
<1>11. HasFields(decode(w), m, f.rd, f.rs1, f.rs2)
  BY <1>6, <1>7, <1>8, EncodeFields
<1>12. decode(w).opcode = m
  BY <1>11 DEF HasFields
<1> QED BY <1>9, <1>10, <1>11, <1>12 DEF Says, m, o, w

\* The words t of .text say the instructions of p in front of i.
WordsSay(p, t, i) ==
    \A j \in Before(p, "instruction", i) : Says(t[Counted(p, "text", j) + 1], p[j])

\* What the encode loop has written.
WordsInv == pass = "encode" => WordsSay(program, image.text, cursor.at)

\* One word more leaves the words in front of it.
LEMMA WordsAppend ==
    ASSUME NEW p, NEW t, NEW i \in Nat \ {0}, NEW addr, NEW origin, NEW once,
           TextOf(p, t, i, addr, origin, once), WordsSay(p, t, i),
           p[i].kind = "instruction", SectionIn(p, i) = "text", NEW w, Says(w, p[i])
    PROVE  WordsSay(p, Append(t, w), i + 1)
<1> DEFINE u == Append(t, w)
           n == Len(t)
<1>1. Before(p, "instruction", i + 1) = Before(p, "instruction", i) \cup {i}
  BY BeforeNext
<1>2. IsSequence(t) /\ n = Counted(p, "text", i)
  BY DEF TextOf
<1>3. n \in Nat /\ u[n + 1] = w /\ \A k \in 1 .. n : u[k] = t[k]
  <2>1. Len(t) \in Nat /\ Append(t, w)[Len(t) + 1] = w
    BY <1>2, SequenceFacts
  <2>2. \A k \in 1 .. Len(t) : Append(t, w)[k] = t[k]
    BY <1>2, SequenceFacts
  <2> QED BY <2>1, <2>2
<1> HIDE DEF u, n
<1>4. ASSUME NEW j \in Before(p, "instruction", i) \cup {i}
      PROVE  Says(u[Counted(p, "text", j) + 1], p[j])
  <2>1. CASE j = i
    BY <2>1, <1>2, <1>3
  <2>2. CASE j # i
    <3>1. j \in Before(p, "instruction", i) /\ j \in Nat \ {0} /\ j + 1 <= i /\ p[j].kind = "instruction"
      BY <2>2 DEF Before
    <3>2. SectionIn(p, j) = "text" /\ Says(t[Counted(p, "text", j) + 1], p[j])
      BY <3>1 DEF TextOf, WordsSay
    <3>3. Counted(p, "text", j + 1) = Counted(p, "text", j) + 1 /\ Counted(p, "text", j) \in Nat
      BY <3>1, <3>2, CountNext, InstructionsFinite
    <3>4. Counted(p, "text", j + 1) <= Counted(p, "text", i)
      <4>1. j + 1 \in Nat
        BY <3>1
      <4> QED BY <4>1, <3>1, CountGrows
    <3>5. Counted(p, "text", j) + 1 \in 1 .. n
      BY <3>3, <3>4, <1>2, <1>3
    <3> QED BY <3>2, <3>5, <1>3
  <2> QED BY <2>1, <2>2
<1> QED BY <1>1, <1>4 DEF WordsSay, u

\* No step writes a word that says something else.
LEMMA WordsInvStep ==
    ProgramInv /\ TableInv /\ LayoutInv /\ ImageInv /\ WordsInv /\ [Next]_vars => WordsInv'
<1> SUFFICES ASSUME ProgramInv, TableInv, LayoutInv, ImageInv, WordsInv, [Next]_vars, pass' = "encode"
             PROVE  WordsSay(program', image'.text, cursor'.at)
  BY DEF WordsInv
<1> DEFINE p == program
           i == cursor.at
<1>p. i \in Nat \ {0} /\ DOMAIN cursor = {"at", "section", "offset"}
  BY DEF ProgramInv
<1>e. ASSUME pass = "encode"
      PROVE  /\ TextOf(p, image.text, i, addresses, section("text").address, ~Reopened("text"))
             /\ WordsSay(p, image.text, i)
  BY <1>e DEF ImageInv, TextUpTo, WordsInv
<1>n. ASSUME pass = "encode", p[i].kind # "instruction"
      PROVE  WordsSay(p, image.text, i + 1)
  <2>1. Before(p, "instruction", i + 1) = Before(p, "instruction", i)
    BY <1>n, <1>p, BeforeNext
  <2> QED BY <2>1, <1>e, <1>n DEF WordsSay
<1>1. CASE Populate
  <2>1. cursor'.at = 1
    BY <1>1, <1>p DEF Populate, Throw, Begin, Start
  <2> QED BY <2>1, BeforeFirst DEF WordsSay
<1>2. CASE EncodeSection
  <2>1. pass = "encode" /\ p[i].kind = "section" /\ Enter(p[i].name) /\ image' = image
    BY <1>2 DEF EncodeSection, At, Here
  <2>2. program' = p /\ cursor'.at = i + 1
    BY <2>1 DEF Enter, parsed
  <2>3. p[i].kind # "instruction"
    BY <2>1
  <2> QED BY <2>1, <2>2, <2>3, <1>n
<1>3. CASE EncodeOther
  <2>1. pass = "encode" /\ p[i].kind \in {"label", "global"} /\ Onward /\ image' = image
    BY <1>3 DEF EncodeOther, At, Here
  <2>2. program' = p /\ cursor'.at = i + 1
    BY <2>1, <1>p DEF Onward, parsed
  <2>3. p[i].kind # "instruction"
    BY <2>1
  <2> QED BY <2>1, <2>2, <2>3, <1>n
<1>4. CASE EncodeInstruction
  <2> DEFINE w == encode_instruction(Here.mnemonic, ResolvedOperands)
  <2>1. /\ cursor.section = "text" /\ Encodable(Here.mnemonic, ResolvedOperands)
        /\ image' = [image EXCEPT !.text = Append(@, w)]
        /\ cursor' = [cursor EXCEPT !.at = @ + 1, !.offset = @ + 1] /\ program' = p
    BY <1>4 DEF EncodeInstruction, Throw, parsed
  <2>2. pass = "encode" /\ p[i].kind = "instruction" /\ Here = p[i] /\ At("encode", "instruction")
    BY <1>4 DEF EncodeInstruction, At, Here
  <2>3. Says(w, p[i])
    BY <2>1, <2>2, EncodedSays
  <2>4. SectionIn(p, i) = "text"
    BY <2>1, <2>2 DEF TableInv
  <2> HIDE DEF w
  <2>5. WordsSay(p, Append(image.text, w), i + 1)
    BY <2>2, <2>3, <2>4, <1>e, <1>p, WordsAppend
  <2>6. image'.text = Append(image.text, w)
    <3>1. DOMAIN image = ImageFields
      BY <2>2 DEF ImageInv, Tables
    <3> QED BY <3>1, <2>1 DEF ImageFields
  <2>7. cursor'.at = i + 1
    BY <2>1, <1>p
  <2> QED BY <2>1, <2>5, <2>6, <2>7
<1>5. CASE UNCHANGED vars
  BY <1>5, <1>e DEF vars, parsed
<1>6. pass' # "encode" \/ Populate \/ EncodeSection \/ EncodeOther \/ EncodeInstruction \/ UNCHANGED vars
  BY DEF ImageInv, ProgramInv, Passes, Next, Tokenize, ParseStatement, ParseNewline, ParseEnd, ParsesOn, Analyze,
       SymbolSection, SymbolGlobal, SymbolLabel, SymbolInstruction, Resolve, MeasureSection,
       MeasureInstruction, MeasureOther, Measured, PlaceSection, ResolveAddresses, Finish,
       Throw, Begin, Onward, Enter, At, AtEnd
<1> QED BY <1>1, <1>2, <1>3, <1>4, <1>5, <1>6

\* In the words of a finished program, the one of statement i says it, and leads to its
\* label if it is a branch.
Speaks(i) ==
    LET s == program[i]
        k == Cardinality(InstructionsBefore(i))
        w == image.text[k + 1]
    IN  /\ k \in Nat /\ IsStatement(s) /\ analyze(s) /\ Says(w, s)
        /\ ~Reopened("text") /\ s.mnemonic \in Branches =>
              /\ addresses[s.operands[1].name] \in Word
              /\ decode(w).immediate \in Int
              /\ base + k + decode(w).immediate = addresses[s.operands[1].name]

WrittenInv == Assembled => \A i \in Instructions : Speaks(i)

\* .text starts at the base.
LEMMA TextAtBase ==
    ASSUME ProgramInv, LayoutInv, FitInv, Finish, NEW i \in 1 .. Len(program) + 1,
           SectionIn(program, i) = "text"
    PROVE  section("text").address = base
<1>0. pass = "encode"
  BY DEF Finish, AtEnd
<1>1. AllSizes /\ SectionChain(base, sizes, sections, 5) /\ TextLeads
  BY <1>0 DEF LayoutInv, LaidOut, FitInv
<1>2. i \in Nat \ {0} /\ Len(program) + 1 \in Nat /\ i <= Len(program) + 1
  BY SequenceFacts DEF ProgramInv
<1>3. "text" \in NamesBefore(program, "section", i)
  <2>1. "text" # NoSection
    BY DEF NoSection
  <2> QED BY <1>2, <2>1, SectionIsNamed
<1>4. "text" \in DOMAIN sizes /\ DOMAIN sizes \subseteq SectionNames
  BY <1>1, <1>2, <1>3, NamesGrow DEF AllSizes, Sizes
<1>5. /\ section_index("text") + 1 \in DOMAIN sections
      /\ section("text") = sections[section_index("text") + 1] /\ section("text").name = "text"
  BY <1>1, <1>4, EverySectionIsPlaced
<1>6. DOMAIN sections = 1 .. Len(sections) /\ Len(sections) \in Nat
  BY <1>1, SequenceFacts DEF SectionChain
<1>7. Len(sections) > 0 /\ 1 \in 1 .. Len(sections)
  BY <1>5, <1>6
<1>8. sections[1].name = "text" /\ sections[1].address = base
  BY <1>1, <1>4, <1>7 DEF TextLeads, SectionChain
<1>9. \A j, k \in 1 .. Len(sections) : sections[j].name = sections[k].name => j = k
  BY <1>1 DEF SectionChain
<1> DEFINE k == section_index("text") + 1
<1>10. k \in 1 .. Len(sections) /\ sections[k].name = "text"
  BY <1>5, <1>6
<1> HIDE DEF k
<1>11. k = 1
  BY <1>7, <1>8, <1>9, <1>10
<1> QED BY <1>5, <1>8, <1>11 DEF k

\* When the encode loop is done, every instruction is spoken for.
LEMMA FinishSpeaks ==
    ASSUME ProgramInv, TableInv, LayoutInv, ImageInv, FitInv, WordsInv, Finish, NEW i \in Instructions
    PROVE  Speaks(i)'
<1>0. pass = "encode" /\ LaidOut /\ Analysed
  BY DEF Finish, AtEnd, LaidOut, Analysed
<1>1. /\ TextUpTo(Len(program) + 1) /\ Len(program) \in Nat /\ DOMAIN program = 1 .. Len(program)
  BY AtFinish
<1>2. /\ i \in Before(program, "instruction", Len(program) + 1) /\ i \in 1 .. Len(program) + 1
      /\ i \in 1 .. Len(program) /\ i \in Nat /\ program[i].kind = "instruction"
  BY <1>1 DEF Before, Instructions
<1> DEFINE s == program[i]
           k == Cardinality(InstructionsBefore(i))
           w == image.text[k + 1]
           a == addresses[s.operands[1].name]
           b == section("text").address
           v == decode(w).immediate
<1>3. k = Counted(program, "text", i) /\ k \in Nat
  BY <1>1, <1>2, AllCountsAgree, InstructionsFinite
<1>4. IsStatement(s) /\ analyze(s)
  BY <1>0, <1>1, <1>2 DEF ProgramInv
<1>5. Says(w, s)
  <2>1. cursor.at = Len(program) + 1
    BY <1>1 DEF Finish, AtEnd, ProgramInv
  <2> QED BY <2>1, <1>0, <1>2, <1>3 DEF WordsInv, WordsSay
<1>6. SectionIn(program, i) = "text"
  BY <1>1, <1>2 DEF TextUpTo, TextOf
<1>7. b = base /\ base \in Int
  BY <1>2, <1>6, TextAtBase, MaxValue DEF ProgramInv, Word
<1>8. ASSUME ~Reopened("text"), s.mnemonic \in Branches
      PROVE  a \in Word /\ v \in Int /\ base + k + v = a
  <2>1. a \in Word
    BY <1>0, <1>2, <1>8, TargetHasAddress
  <2>2. v = a - (b + k)
    BY <1>1, <1>2, <1>3, <1>8 DEF TextUpTo, TextOf
  <2>3. a \in Int
    BY <2>1, MaxValue DEF Word
  <2> HIDE DEF a, b, v, k
  <2> QED BY <2>1, <2>2, <2>3, <1>3, <1>7
<1>9. image'.text = image.text
  BY FinalImage
<1>10. /\ UNCHANGED << base, program, addresses >> /\ InstructionsBefore(i)' = InstructionsBefore(i)
       /\ Reopened("text")' = Reopened("text")
  BY SameProgram
<1> QED BY <1>3, <1>4, <1>5, <1>8, <1>9, <1>10 DEF Speaks

\* That is what stays of the encode loop.
LEMMA WrittenInvStep ==
    AsmInv /\ WordsInv /\ WrittenInv /\ [Next]_vars => WrittenInv'
<1> SUFFICES ASSUME AsmInv, WordsInv, WrittenInv, [Next]_vars PROVE WrittenInv'
  OBVIOUS
<1>1. ProgramInv /\ TableInv /\ LayoutInv /\ ImageInv /\ FitInv
  BY DEF AsmInv
<1>2. CASE Finish
  <2>1. UNCHANGED program
    BY <1>2, SameProgram
  <2>2. Instructions' = Instructions
    BY <2>1 DEF Instructions
  <2>3. \A i \in Instructions : Speaks(i)'
    BY <1>1, <1>2, FinishSpeaks
  <2> QED BY <2>2, <2>3 DEF WrittenInv
<1>3. CASE UNCHANGED vars
  <2>1. UNCHANGED << base, program, image, outcome, addresses >>
    BY <1>3 DEF vars, arguments, parsed, placement
  <2>2. Instructions' = Instructions /\ (Assembled' <=> Assembled)
    BY <2>1 DEF Instructions, Assembled
  <2>3. \A i : InstructionsBefore(i)' = InstructionsBefore(i)
    BY <2>1 DEF InstructionsBefore
  <2>4. Reopened("text")' = Reopened("text")
    BY <2>1 DEF Reopened
  <2>5. \A i : Speaks(i)' <=> Speaks(i)
    BY <2>1, <2>3, <2>4 DEF Speaks
  <2> QED BY <2>2, <2>5 DEF WrittenInv
<1>4. CASE ~Assembled'
  BY <1>4 DEF WrittenInv
<1> QED BY <1>1, <1>2, <1>3, <1>4, AssembledLast

-----------------------------------------------------------------------------
(* The machine of tvm, and its step.                                          *)

\* The machine of tvm decodes as the assembler encodes.
LEMMA SameDecoder == \A w : VM!decode(w) = decode(w)
<1>1. \A n : VM!LowTrit(n) = LowTrit(n) /\ VM!Shifted(n) = Shifted(n)
  BY DEF VM!LowTrit, LowTrit, VM!Shifted, Shifted
<1>2. \A v : VM!Remaining(v) = Remaining(v)
  BY Zenon DEF VM!Remaining, Remaining, VM!Shifted, Shifted
<1>3. \A v : VM!from_integer(v) = from_integer(v)
  BY <1>1, <1>2 DEF VM!from_integer, from_integer, VM!TritIndex, TritIndex
<1>4. \A t : VM!to_integer(t) = to_integer(t)
  BY Zenon DEF VM!to_integer, to_integer, VM!Accumulated, Accumulated
<1>5. \A t : VM!immediate(t) = immediate(t)
  BY <1>4 DEF VM!immediate, immediate, VM!TritIndex, TritIndex, VM!CARGO_OFFSET, CARGO_OFFSET
<1>6. \A t : VM!opcode(t) = opcode(t)
  BY Zenon DEF VM!opcode, opcode, VM!Mnemonics, Mnemonics
<1>7. \A t, k : VM!decode_register(t, k) = decode_register(t, k)
  BY Zenon DEF VM!decode_register, decode_register, VM!REGISTER_ENCODING, REGISTER_ENCODING,
     VM!Register, Register
<1>8. VM!RD_OFFSET = RD_OFFSET /\ VM!RS1_OFFSET = RS1_OFFSET /\ VM!RS2_OFFSET = RS2_OFFSET
  BY DEF VM!RD_OFFSET, RD_OFFSET, VM!RS1_OFFSET, RS1_OFFSET, VM!RS2_OFFSET, RS2_OFFSET
<1> QED BY <1>3, <1>5, <1>6, <1>7, <1>8, Zenon DEF VM!decode, decode

\* Its address space is the same.
LEMMA SameWords ==
    /\ VM!MAX_VALUE = MAX_VALUE /\ VM!MIN_VALUE = MIN_VALUE /\ VM!Word = Word
    /\ \A v : VM!Fits(v) <=> Fits(v)
<1>1. VM!MAX_VALUE = MAX_VALUE
  BY Zenon DEF VM!MAX_VALUE, MAX_VALUE, VM!to_integer, to_integer, VM!Accumulated, Accumulated,
     VM!TritIndex, TritIndex
<1> QED BY <1>1 DEF VM!MIN_VALUE, MIN_VALUE, VM!Word, Word, VM!Fits, Fits

\* A sum that is a word is not wrapped.
LEMMA SumsOfWords ==
    ASSUME NEW a \in Int, NEW b \in Int, a + b \in Word
    PROVE  VM!add(a, b) = a + b
<1> DEFINE m == MAX_VALUE
           v == a + b
<1>1. m \in Nat /\ v \in Int /\ -m <= v /\ v <= m
  BY MaxValue DEF Word, MIN_VALUE
<1>2. VM!add(a, b) = VM!wrap(v)
  BY DEF VM!add
<1> DEFINE n == 2 * m + 1
           r == VM!CRem(v, n)
<1>3. VM!wrap(v) = IF r > m THEN r - n ELSE IF r < -m THEN r + n ELSE r
  BY SameWords DEF VM!wrap, VM!MODULUS, VM!HALF_MODULUS
<1>4. r = v
  <2> HIDE DEF m, v
  <2>1. n \in Nat /\ n > 0
    BY <1>1
  <2>2. CASE v >= 0
    <3>1. v \in 0 .. n - 1
      BY <1>1, <2>2
    <3> HIDE DEF n
    <3>2. v % n = v
      BY <2>1, <3>1
    <3> QED BY <2>2, <3>2 DEF VM!CRem
  <2>3. CASE v < 0
    <3>1. -v \in 0 .. n - 1 /\ ~(v >= 0) /\ -(-v) = v
      BY <1>1, <2>3
    <3> HIDE DEF n
    <3>2. (-v) % n = -v
      BY <2>1, <3>1
    <3> QED BY <3>1, <3>2 DEF VM!CRem
  <2> QED BY <1>1, <2>2, <2>3
<1> HIDE DEF m, v, n, r
<1>5. VM!wrap(v) = v
  BY <1>1, <1>3, <1>4
<1> QED BY <1>2, <1>5 DEF v

\* A CPU with the registers that the statements use, its STATUS the result of a comparison.
Compared(c) ==
    /\ {"registers", "pc", "sp", "status"} \subseteq DOMAIN c
    /\ c.status \in VM!Comparison

\* A comparison sets it.
LEMMA StatusSet ==
    ASSUME NEW c, Compared(c), NEW v \in VM!Comparison
    PROVE  Compared([c EXCEPT !.status = v])
  BY DEF Compared

\* Every opcode keeps it, and only HLT touches the flag.
LEMMA StepCompared ==
    ASSUME Compared(cpu), halted \in BOOLEAN, VM!step
    PROVE  Compared(cpu') /\ halted' \in BOOLEAN
<1>1. ASSUME NEW c, Compared(c), VM!Advance(c) PROVE Compared(cpu') /\ halted' = halted
  <2>1. halted' = halted
    BY <1>1 DEF VM!Advance
  <2> DEFINE next == VM!NextPc
  <2>2. cpu' = c \/ cpu' = [c EXCEPT !.pc = next]
    BY <1>1 DEF VM!Advance
  <2> HIDE DEF next
  <2>3. Compared(cpu')
    BY <1>1, <2>2 DEF Compared
  <2> QED BY <2>1, <2>3
<1>2. ASSUME NEW i, VM!Jump(i) PROVE Compared(cpu') /\ halted' = halted
  <2> DEFINE target == VM!Target(i)
  <2>1. halted' = halted /\ cpu' = [cpu EXCEPT !.pc = target]
    BY <1>2 DEF VM!Jump
  <2> HIDE DEF target
  <2>2. Compared(cpu')
    BY <2>1 DEF Compared
  <2> QED BY <2>1, <2>2
<1>3. ASSUME NEW i, VM!Execute(i) PROVE Compared(cpu') /\ halted' \in BOOLEAN
  <2>1. ASSUME NEW v, VM!WriteBack(i, v) PROVE Compared(cpu') /\ halted' = halted
    <3>1. VM!Advance([cpu EXCEPT !.registers[i.rd] = v])
      BY <2>1 DEF VM!WriteBack, VM!Set
    <3> DEFINE g == [cpu.registers EXCEPT ![i.rd] = v]
               c == [cpu EXCEPT !.registers = g]
    <3>2. Compared(c)
      <4> HIDE DEF g
      <4> QED BY DEF Compared
    <3>3. c = [cpu EXCEPT !.registers[i.rd] = v]
      OBVIOUS
    <3> HIDE DEF c
    <3> QED BY <1>1, <3>1, <3>2, <3>3
  <2>2. CASE VM!Ldi(i) \/ VM!Mov(i) \/ VM!Add(i) \/ VM!Sub(i) \/ VM!Mul(i) \/ VM!Tand(i) \/ VM!Tor(i)
           \/ VM!Txor(i) \/ VM!Tnot(i) \/ VM!Shf(i) \/ VM!Ld(i) \/ VM!Lea(i)
    <3>1. \E v : VM!WriteBack(i, v)
      BY <2>2 DEF VM!Ldi, VM!Mov, VM!Add, VM!Sub, VM!Mul, VM!Tand, VM!Tor, VM!Txor, VM!Tnot, VM!Shf,
         VM!Ld, VM!Lea
    <3> QED BY <2>1, <3>1
  <2>3. CASE VM!Nop(i) \/ VM!St(i)
    BY <1>1, <2>3 DEF VM!Nop, VM!St
  <2>4. CASE VM!Cmp(i)
    <3> DEFINE v == VM!compare(VM!R(i.rs1), VM!R(i.rs2))
    <3>1. VM!Advance([cpu EXCEPT !.status = v])
      BY <2>4 DEF VM!Cmp
    <3>2. v \in VM!Comparison
      BY DEF VM!compare, VM!Comparison
    <3> HIDE DEF v
    <3>3. Compared([cpu EXCEPT !.status = v])
      BY <3>2, StatusSet
    <3> QED BY <1>1, <3>1, <3>3
  <2>5. ASSUME NEW op, NEW taken, VM!Branch(i, op, taken) PROVE Compared(cpu') /\ halted' = halted
    BY <1>1, <1>2, <2>5 DEF VM!Branch
  <2>6. CASE VM!Jmp(i) \/ VM!Beq(i) \/ VM!Bgt(i) \/ VM!Blt(i)
    BY <1>2, <2>5, <2>6 DEF VM!Jmp, VM!Beq, VM!Bgt, VM!Blt
  <2>7. CASE VM!Hlt(i) \/ VM!Unsupported(i)
    BY <2>7 DEF VM!Hlt, VM!Unsupported, VM!halt, VM!machine
  <2>8. CASE VM!Call(i)
    <3>1. halted' = halted
      BY <2>8 DEF VM!Call, VM!Pushed, VM!Pushing, VM!machine
    <3> DEFINE top    == cpu.sp - 1
               target == VM!Target(i)
    <3>2. cpu' = cpu \/ cpu' = [cpu EXCEPT !.sp = top, !.pc = target]
      BY <2>8 DEF VM!Call, VM!Pushed, VM!Pushing, VM!machine
    <3> HIDE DEF top, target
    <3>3. Compared(cpu')
      BY <3>2 DEF Compared
    <3> QED BY <3>1, <3>3
  <2>9. CASE VM!Ret(i)
    <3>1. halted' = halted
      BY <2>9 DEF VM!Ret
    <3> DEFINE top    == cpu.sp + 1
               target == VM!Popped
    <3>2. cpu' = [cpu EXCEPT !.pc = target, !.sp = top] \/ cpu' = [cpu EXCEPT !.pc = target]
      BY <2>9 DEF VM!Ret
    <3> HIDE DEF top, target
    <3>3. Compared(cpu')
      BY <3>2 DEF Compared
    <3> QED BY <3>1, <3>3
  <2> QED BY <1>3, <2>2, <2>3, <2>4, <2>6, <2>7, <2>8, <2>9 DEF VM!Execute
<1> QED BY <1>3 DEF VM!step, VM!machine

\* What tvm knows of its program and its machine when it runs.
RunInv ==
    /\ phase \in {"load", "run"} => Assembled
    /\ Compared(cpu) /\ halted \in BOOLEAN

\* A new machine is such a one, and nothing is assembled yet.
LEMMA RunInvInit == StartTools => RunInv
<1> SUFFICES ASSUME StartTools PROVE RunInv
  OBVIOUS
<1>1. phase = "tasm" /\ cpu = VM!ResetCPU /\ halted = FALSE
  BY DEF StartTools, VM!Init, VM!NewMachine
<1>2. Compared(VM!ResetCPU)
  BY DEF Compared, VM!ResetCPU, VM!Comparison
<1> QED BY <1>1, <1>2 DEF RunInv

\* Nothing that the tools do changes that: tvm opens only a file that tasm has written.
LEMMA RunInvStep == ToolInv /\ RunInv /\ [ToolStep]_allvars => RunInv'
<1> SUFFICES ASSUME ToolInv, RunInv, [ToolStep]_allvars PROVE RunInv'
  OBVIOUS
<1> DEFINE Kept == cpu' = cpu /\ halted' = halted
<1>1. Assembled /\ outcome' = outcome => Assembled'
  BY DEF Assembled
<1>2. Compared(cpu) /\ halted \in BOOLEAN
  BY DEF RunInv
<1>3. CASE Assemble
  <2>1. phase' = "tasm" /\ Kept
    BY <1>3 DEF Assemble, tvm
  <2> QED BY <1>2, <2>1 DEF RunInv
<1>4. CASE TasmExit
  <2>1. phase' \in {"open", "done"} /\ Kept
    BY <1>4 DEF TasmExit, tvm
  <2> QED BY <1>2, <2>1 DEF RunInv
<1>5. CASE Open
  <2>1. Assembled /\ outcome' = outcome
    BY <1>5 DEF Open, tasm, vars, ToolInv
  <2>2. Kept \/ (cpu' = VM!ResetCPU /\ halted' = FALSE)
    BY <1>5 DEF Open, tvm, VM!load, VM!Reject, VM!Accept, VM!reset, VM!machine
  <2>3. Compared(VM!ResetCPU)
    BY DEF Compared, VM!ResetCPU, VM!Comparison
  <2> QED BY <1>1, <1>2, <2>1, <2>2, <2>3 DEF RunInv
<1>6. CASE LoadTurn
  <2>1. phase = "load" /\ outcome' = outcome
    BY <1>6 DEF LoadTurn, tasm, vars
  <2> DEFINE entry == loaded.entry_point
  <2>2. (cpu' = cpu \/ cpu' = [cpu EXCEPT !.pc = entry]) /\ halted' = halted
    BY <1>6 DEF LoadTurn, VM!LoadTurn, VM!LoadWord, VM!NextSection, VM!SetEntry, VM!machine
  <2> HIDE DEF entry
  <2>3. Compared(cpu')
    BY <1>2, <2>2 DEF Compared
  <2> QED BY <1>1, <1>2, <2>1, <2>2, <2>3 DEF RunInv
<1>7. CASE Run
  <2>1. phase = "load" /\ outcome' = outcome /\ Kept
    BY <1>7 DEF Run, tasm, vars, VM!Run, VM!vars
  <2> QED BY <1>1, <1>2, <2>1 DEF RunInv
<1>8. CASE RunTurn
  <2>1. phase = "run" /\ outcome' = outcome
    BY <1>8 DEF RunTurn, tasm, vars
  <2>2. VM!step \/ Kept
    BY <1>8 DEF RunTurn, VM!RunTurn, VM!machine
  <2> QED BY <1>1, <1>2, <2>1, <2>2, StepCompared DEF RunInv
<1>9. CASE TvmExit
  <2>1. phase' = "done" /\ Kept
    BY <1>9 DEF TvmExit, tvm
  <2> QED BY <1>2, <2>1 DEF RunInv
<1>10. CASE UNCHANGED allvars
  <2>1. Kept /\ phase' = phase /\ outcome' = outcome
    BY <1>10 DEF allvars, tasm, tvm, vars
  <2> QED BY <1>1, <1>2, <2>1 DEF RunInv
<1> QED BY <1>3, <1>4, <1>5, <1>6, <1>7, <1>8, <1>9, <1>10 DEF ToolStep

-----------------------------------------------------------------------------
(* One opcode after the other does what its statement says.                   *)

\* The word j of the statement s, decoded: its mnemonic, its fields, and the way to its label.
Carries(j, s) ==
    /\ j.opcode = s.mnemonic
    /\ s.mnemonic \notin Branches =>
          LET f == FieldsOf(s.mnemonic, s.operands)
          IN  HasFields(j, s.mnemonic, f.rd, f.rs1, f.rs2) /\ j.immediate = f.cargo
    /\ s.mnemonic \in Branches => VM!Target(j) = addresses[s.operands[1].name]

\* The mnemonics that assign their first operand.
Assigning == {"ADD", "SUB", "MUL", "TAND", "TOR", "TXOR", "SHF", "TNOT", "MOV", "LDI", "LEA", "LD"}

\* A step that stores nothing.
Quiet(c) == cpu' = c /\ storage' = storage /\ halted' = halted /\ answer' = "ok"

\* A store of one word, seen by read.
LEMMA ReadsWritten ==
    ASSUME NEW a, NEW v, storage' = VM!Written(storage, a, v)
    PROVE  VM!read(a)' = v /\ \A b : b # a => VM!read(b)' = VM!read(b)
<1>1. CASE v = 0
  <2>1. storage' = [x \in DOMAIN storage \ {a} |-> storage[x]]
    BY <1>1 DEF VM!Written
  <2> QED BY <2>1, <1>1 DEF VM!read
<1>2. CASE v # 0
  <2>1. storage' = [x \in DOMAIN storage \union {a} |-> IF x = a THEN v ELSE storage[x]]
    BY <1>2 DEF VM!Written
  <2> QED BY <2>1 DEF VM!read
<1> QED BY <1>1, <1>2

\* A step that stores nothing means what it does to the CPU.
LEMMA QuietMeans ==
    ASSUME NEW m, NEW o, Stored(m, o) = {}, halted' = (m = "HLT"), storage' = storage,
           cpu' = NextCPU(m, o), answer' = IF m \in Unimplemented THEN "ExecutionError" ELSE "ok"
    PROVE  Meant(m, o)
<1>1. \A a : VM!read(a)' = VM!read(a)
  BY DEF VM!read
<1> QED BY <1>1 DEF Meant

\* A step that stores one word.
LEMMA StoreMeans ==
    ASSUME NEW m, NEW o, NEW a, NEW v, Stored(m, o) = {<< a, v >>}, m \in {"ST", "CALL"},
           halted' = FALSE, storage' = VM!Written(storage, a, v), cpu' = NextCPU(m, o), answer' = "ok"
    PROVE  Meant(m, o)
<1>1. VM!read(a)' = v /\ \A b : b # a => VM!read(b)' = VM!read(b)
  BY ReadsWritten
<1>2. ASSUME NEW store \in Stored(m, o) PROVE VM!read(store[1])' = store[2]
  <2>1. store[1] = a /\ store[2] = v
    BY <1>2
  <2> QED BY <2>1, <1>1
<1>3. \A b : b \notin {store[1] : store \in Stored(m, o)} => b # a
  OBVIOUS
<1>4. m \notin Unimplemented /\ m # "HLT"
  BY DEF Unimplemented
<1> QED BY <1>1, <1>2, <1>3, <1>4 DEF Meant

\* The branches in the table of relations.
LEMMA TakenFacts ==
    /\ DOMAIN Taken = {"JMP", "BEQ", "BLT", "BGT"}
    /\ Taken["JMP"] = VM!Comparison /\ Taken["BEQ"] = {VM!Equal}
    /\ Taken["BLT"] = {VM!Less} /\ Taken["BGT"] = {VM!Greater}
  BY DEF Taken, VM!Comparison

\* PC + 1 is where a sequential step goes.
LEMMA AdvanceMeans ==
    ASSUME NEW c, VM!Advance(c), Fits(cpu.pc + 1)
    PROVE  /\ cpu' = [c EXCEPT !.pc = cpu.pc + 1] /\ answer' = "ok"
           /\ contexts' = contexts /\ halted' = halted
<1>1. VM!Fits(VM!NextPc)
  BY SameWords DEF VM!NextPc
<1> QED BY <1>1 DEF VM!Advance, VM!NextPc

\* An opcode that writes a register back.
LEMMA WriteBackMeans ==
    ASSUME Compared(cpu), NEW j, NEW v, VM!WriteBack(j, v), Fits(cpu.pc + 1)
    PROVE  Quiet([Onwards EXCEPT !.registers[j.rd] = v])
<1>1. VM!Advance([cpu EXCEPT !.registers[j.rd] = v]) /\ storage' = storage
  BY DEF VM!WriteBack, VM!Set
<1> DEFINE n == cpu.pc + 1
           d == j.rd
           c == [cpu EXCEPT !.registers[d] = v]
<1>2. cpu' = [c EXCEPT !.pc = n] /\ answer' = "ok" /\ halted' = halted
  <2> HIDE DEF c
  <2>1. VM!Advance(c)
    BY <1>1 DEF c
  <2> QED BY <2>1, AdvanceMeans
<1>3. Onwards = [cpu EXCEPT !.pc = n]
  BY DEF Onwards, Goto
<1> HIDE DEF n, d
<1>4. [c EXCEPT !.pc = n] = [[cpu EXCEPT !.pc = n] EXCEPT !.registers[d] = v]
  BY DEF Compared
<1> QED BY <1>1, <1>2, <1>3, <1>4 DEF Quiet, d

\* What the statement says where none of the other cases holds.
LEMMA AssigningMeans ==
    ASSUME NEW m \in Assigning, NEW o
    PROVE  /\ NextCPU(m, o) = [Onwards EXCEPT !.registers[o[1].index] = Computed(m, o)]
           /\ Stored(m, o) = {} /\ m \notin Unimplemented /\ m # "HLT" /\ ~Jumps(m)
           /\ m \in Mnemonic \ Branches
<1> DEFINE r == [Onwards EXCEPT !.registers[o[1].index] = Computed(m, o)]
<1>1. /\ m \notin {"NOP", "ST"} /\ m # "CMP" /\ m \notin DOMAIN Taken /\ m # "CALL" /\ m # "RET"
      /\ m \notin Unimplemented \cup {"HLT"}
  BY TakenFacts DEF Assigning, Unimplemented
<1>2. NextCPU(m, o) = r
  <2> HIDE DEF r
  <2> QED BY <1>1 DEF NextCPU, r
<1>3. Stored(m, o) = {}
  BY <1>1 DEF Stored
<1>4. m \in Mnemonic \ Branches
  BY DEF Assigning, Mnemonic, ThreeRegister, TwoRegister, Branches
<1> QED BY <1>1, <1>2, <1>3, <1>4 DEF Jumps

\* The fields of the statements that assign, as their operands.
LEMMA AssigningFields ==
    ASSUME NEW s, s.mnemonic \in Assigning, NEW j, Carries(j, s), NEW o, o = s.operands, NEW m, m = s.mnemonic
    PROVE  /\ j.opcode = m /\ j.rd = o[1].index
           /\ m \in ThreeRegister => j.rs1 = o[2].index /\ j.rs2 = o[3].index
           /\ m \in TwoRegister => j.rs1 = o[2].index
           /\ m = "LDI" => j.immediate = o[2].value
           /\ m \in {"LD", "LEA"} => j.rs1 = o[2].base /\ j.immediate = o[2].offset
<1> DEFINE f == FieldsOf(m, o)
<1>1. m \notin Branches
  BY AssigningMeans
<1>2. j.opcode = m /\ j.rd = f.rd /\ j.rs1 = f.rs1 /\ j.rs2 = f.rs2 /\ j.immediate = f.cargo
  BY <1>1 DEF Carries, HasFields
<1> HIDE DEF f
<1> USE DEF ZeroOperand, ThreeRegister, TwoRegister, InOut, Branches, Fields
<1>3. CASE m \in ThreeRegister
  <2>1. f = Fields(o[1].index, o[2].index, o[3].index, 0)
    BY <1>3 DEF FieldsOf, f
  <2> QED BY <1>2, <1>3, <2>1
<1>4. CASE m \in TwoRegister
  <2>1. f = Fields(o[1].index, o[2].index, 0, 0)
    BY <1>4 DEF FieldsOf, f
  <2> QED BY <1>2, <1>4, <2>1
<1>5. CASE m = "LDI"
  <2>1. f = Fields(o[1].index, 0, 0, o[2].value)
    BY <1>5 DEF FieldsOf, f
  <2> QED BY <1>2, <1>5, <2>1
<1>6. CASE m \in {"LD", "LEA"}
  <2>1. f = Fields(o[1].index, o[2].base, 0, o[2].offset)
    BY <1>6 DEF FieldsOf, f
  <2> QED BY <1>2, <1>6, <2>1
<1> QED BY <1>3, <1>4, <1>5, <1>6 DEF Assigning

\* An opcode of these writes back what the statement computes.
LEMMA AssigningComputes ==
    ASSUME NEW s, s.mnemonic \in Assigning, NEW j, Carries(j, s), VM!Execute(j)
    PROVE  VM!WriteBack(j, Computed(s.mnemonic, s.operands))
<1> DEFINE m == s.mnemonic
           o == s.operands
           x == VM!R(j.rs1)
           y == VM!R(j.rs2)
<1>1. /\ j.opcode = m /\ m \in Assigning
      /\ m \in ThreeRegister => x = Held(o[2]) /\ y = Held(o[3])
      /\ m \in TwoRegister => x = Held(o[2])
      /\ m = "LDI" => j.immediate = o[2].value
      /\ m \in {"LD", "LEA"} => VM!add(x, j.immediate) = Cell(o[2])
  BY AssigningFields DEF VM!R, Held, Cell
<1> HIDE DEF m, o, x, y
<1> USE DEF ThreeRegister, TwoRegister
<1>0. \/ m = "ADD" \/ m = "SUB" \/ m = "MUL" \/ m = "TAND" \/ m = "TOR" \/ m = "TXOR" \/ m = "SHF"
      \/ m = "TNOT" \/ m = "MOV" \/ m = "LDI" \/ m = "LEA" \/ m = "LD"
  BY <1>1 DEF Assigning
<1>2. /\ VM!Add(j) \/ VM!Sub(j) \/ VM!Mul(j) \/ VM!Tand(j) \/ VM!Tor(j) \/ VM!Txor(j) \/ VM!Shf(j)
            \/ VM!Tnot(j) \/ VM!Mov(j) \/ VM!Ldi(j) \/ VM!Lea(j) \/ VM!Ld(j)
  <2>1. /\ ~VM!Nop(j) /\ ~VM!Hlt(j) /\ ~VM!St(j) /\ ~VM!Cmp(j) /\ ~VM!Jmp(j) /\ ~VM!Beq(j)
        /\ ~VM!Bgt(j) /\ ~VM!Blt(j) /\ ~VM!Call(j) /\ ~VM!Ret(j) /\ ~VM!Unsupported(j)
    BY <1>0, <1>1 DEF VM!Nop, VM!Hlt, VM!St, VM!Cmp, VM!Jmp, VM!Beq, VM!Bgt, VM!Blt, VM!Branch, VM!Call,
       VM!Ret, VM!Unsupported
  <2> QED BY <2>1 DEF VM!Execute
<1>3. /\ VM!Add(j)  => m = "ADD"  /\ VM!WriteBack(j, VM!add(x, y))
      /\ VM!Sub(j)  => m = "SUB"  /\ VM!WriteBack(j, VM!sub(x, y))
      /\ VM!Mul(j)  => m = "MUL"  /\ VM!WriteBack(j, VM!mul(x, y))
      /\ VM!Tand(j) => m = "TAND" /\ VM!WriteBack(j, VM!tand(x, y))
      /\ VM!Tor(j)  => m = "TOR"  /\ VM!WriteBack(j, VM!tor(x, y))
      /\ VM!Txor(j) => m = "TXOR" /\ VM!WriteBack(j, VM!txor(x, y))
      /\ VM!Shf(j)  => m = "SHF"  /\ VM!WriteBack(j, VM!shift(x, y))
      /\ VM!Tnot(j) => m = "TNOT" /\ VM!WriteBack(j, VM!tnot(x))
      /\ VM!Mov(j)  => m = "MOV"  /\ VM!WriteBack(j, x)
      /\ VM!Ldi(j)  => m = "LDI"  /\ VM!WriteBack(j, j.immediate)
      /\ VM!Lea(j)  => m = "LEA"  /\ VM!WriteBack(j, VM!add(x, j.immediate))
      /\ VM!Ld(j)   => m = "LD"   /\ VM!WriteBack(j, VM!read(VM!add(x, j.immediate)))
  BY <1>1 DEF VM!Add, VM!Sub, VM!Mul, VM!Tand, VM!Tor, VM!Txor, VM!Shf, VM!Tnot, VM!Mov, VM!Ldi, VM!Lea,
     VM!Ld, x, y
<1>4. /\ m = "ADD"  => Computed(m, o) = VM!add(x, y)
      /\ m = "SUB"  => Computed(m, o) = VM!sub(x, y)
      /\ m = "MUL"  => Computed(m, o) = VM!mul(x, y)
      /\ m = "TAND" => Computed(m, o) = VM!tand(x, y)
      /\ m = "TOR"  => Computed(m, o) = VM!tor(x, y)
      /\ m = "TXOR" => Computed(m, o) = VM!txor(x, y)
      /\ m = "SHF"  => Computed(m, o) = VM!shift(x, y)
      /\ m = "TNOT" => Computed(m, o) = VM!tnot(x)
      /\ m = "MOV"  => Computed(m, o) = x
      /\ m = "LDI"  => Computed(m, o) = j.immediate
      /\ m = "LEA"  => Computed(m, o) = VM!add(x, j.immediate)
      /\ m = "LD"   => Computed(m, o) = VM!read(VM!add(x, j.immediate))
  BY <1>1 DEF Computed
<1>5. VM!WriteBack(j, Computed(m, o))
  BY <1>2, <1>3, <1>4
<1> QED BY <1>5 DEF m, o

\* So they mean what is written.
LEMMA AssigningRuns ==
    ASSUME Compared(cpu), halted = FALSE, NEW s, s.mnemonic \in Assigning, NEW j, Carries(j, s),
           VM!Execute(j), Room(s.mnemonic)
    PROVE  Meant(s.mnemonic, s.operands)
<1> DEFINE m == s.mnemonic
           o == s.operands
           v == Computed(m, o)
<1>1. /\ NextCPU(m, o) = [Onwards EXCEPT !.registers[o[1].index] = v] /\ Stored(m, o) = {}
      /\ m \notin Unimplemented /\ m # "HLT" /\ ~Jumps(m)
  BY AssigningMeans
<1>2. m \in Assigning /\ VM!WriteBack(j, v) /\ j.rd = o[1].index
  BY AssigningComputes, AssigningFields
<1> HIDE DEF v
<1>3. Fits(cpu.pc + 1)
  BY <1>1, <1>2 DEF Room, Assigning
<1>4. Quiet([Onwards EXCEPT !.registers[j.rd] = v])
  BY <1>2, <1>3, WriteBackMeans
<1>5. cpu' = NextCPU(m, o)
  BY <1>1, <1>2, <1>4 DEF Quiet
<1> QED BY <1>1, <1>4, <1>5, QuietMeans DEF Quiet

\* The mnemonics that go on, that go to a label, and that use the stack.
Sequential == {"NOP", "ST", "CMP"}
Relational == {"JMP", "BEQ", "BLT", "BGT"}
Linking    == {"CALL", "RET"}

\* The statements that only go on.
LEMMA SequentialRuns ==
    ASSUME Compared(cpu), halted = FALSE, NEW s, s.mnemonic \in Sequential, NEW j,
           Carries(j, s), VM!Execute(j), Room(s.mnemonic)
    PROVE  Meant(s.mnemonic, s.operands)
<1> DEFINE m == s.mnemonic
           o == s.operands
           f == FieldsOf(m, o)
<1>1. /\ m \notin Branches /\ m \notin Unimplemented /\ m # "HLT" /\ m \notin DOMAIN Taken
      /\ m \notin {"CALL", "RET"}
  BY TakenFacts DEF Branches, Unimplemented, Sequential
<1>2. j.opcode = m /\ j.rs1 = f.rs1 /\ j.rs2 = f.rs2 /\ j.immediate = f.cargo
  BY <1>1 DEF Carries, HasFields
<1>3. Fits(cpu.pc + 1)
  BY <1>1 DEF Room, Jumps
<1> DEFINE n == cpu.pc + 1
<1>4. Onwards = [cpu EXCEPT !.pc = n]
  BY DEF Onwards, Goto
<1> HIDE DEF f, n
<1>5. CASE m = "NOP"
  <2>1. VM!Nop(j)
    BY <1>2, <1>5 DEF VM!Execute, VM!Nop, VM!Hlt, VM!Ldi, VM!Mov, VM!Add, VM!Sub, VM!Mul, VM!Tand, VM!Tor,
       VM!Txor, VM!Tnot, VM!Shf, VM!Ld, VM!Lea, VM!St, VM!Cmp, VM!Jmp, VM!Beq, VM!Bgt, VM!Blt, VM!Branch,
       VM!Call, VM!Ret, VM!Unsupported
  <2>2. VM!Advance(cpu) /\ storage' = storage
    BY <2>1 DEF VM!Nop
  <2>3. cpu' = [cpu EXCEPT !.pc = n] /\ answer' = "ok" /\ halted' = halted
    BY <2>2, <1>3, AdvanceMeans DEF n
  <2>4. NextCPU(m, o) = Onwards /\ Stored(m, o) = {}
    BY <1>1, <1>5 DEF NextCPU, Stored
  <2> HIDE DEF m, o
  <2>5. Meant(m, o)
    BY <1>1, <1>4, <2>2, <2>3, <2>4, QuietMeans
  <2> QED BY <2>5 DEF m, o
<1>6. CASE m = "CMP"
  <2> DEFINE v == VM!compare(VM!R(j.rs1), VM!R(j.rs2))
  <2>1. VM!Cmp(j)
    BY <1>2, <1>6 DEF VM!Execute, VM!Nop, VM!Hlt, VM!Ldi, VM!Mov, VM!Add, VM!Sub, VM!Mul, VM!Tand, VM!Tor,
       VM!Txor, VM!Tnot, VM!Shf, VM!Ld, VM!Lea, VM!St, VM!Cmp, VM!Jmp, VM!Beq, VM!Bgt, VM!Blt, VM!Branch,
       VM!Call, VM!Ret, VM!Unsupported
  <2>2. VM!Advance([cpu EXCEPT !.status = v]) /\ storage' = storage
    BY <2>1 DEF VM!Cmp
  <2>3. f = Fields(0, o[1].index, o[2].index, 0)
    BY <1>6 DEF FieldsOf, f, ZeroOperand, InOut, TwoRegister, ThreeRegister, Branches
  <2>4. v = VM!compare(Held(o[1]), Held(o[2]))
    BY <2>3, <1>2 DEF VM!R, Held, Fields
  <2>5. NextCPU(m, o) = [Onwards EXCEPT !.status = VM!compare(Held(o[1]), Held(o[2]))] /\ Stored(m, o) = {}
    BY <1>1, <1>6 DEF NextCPU, Stored
  <2> HIDE DEF v
  <2> DEFINE c == [cpu EXCEPT !.status = v]
  <2>6. cpu' = [c EXCEPT !.pc = n] /\ answer' = "ok" /\ halted' = halted
    <3>1. VM!Advance(c)
      BY <2>2
    <3> HIDE DEF c
    <3> QED BY <3>1, <1>3, AdvanceMeans DEF n
  <2>7. [c EXCEPT !.pc = n] = [[cpu EXCEPT !.pc = n] EXCEPT !.status = v]
    BY DEF Compared
  <2>8. cpu' = NextCPU(m, o)
    BY <1>4, <2>4, <2>5, <2>6, <2>7
  <2> HIDE DEF m, o, c
  <2>9. Meant(m, o)
    BY <1>1, <2>2, <2>5, <2>6, <2>8, QuietMeans
  <2> QED BY <2>9 DEF m, o
<1>7. CASE m = "ST"
  <2> DEFINE a == VM!StoreAddress(j)
             v == VM!R(j.rs1)
  <2>1. VM!St(j)
    BY <1>2, <1>7 DEF VM!Execute, VM!Nop, VM!Hlt, VM!Ldi, VM!Mov, VM!Add, VM!Sub, VM!Mul, VM!Tand, VM!Tor,
       VM!Txor, VM!Tnot, VM!Shf, VM!Ld, VM!Lea, VM!St, VM!Cmp, VM!Jmp, VM!Beq, VM!Bgt, VM!Blt, VM!Branch,
       VM!Call, VM!Ret, VM!Unsupported
  <2>2. VM!Advance(cpu) /\ storage' = VM!Written(storage, a, v)
    BY <2>1 DEF VM!St, VM!write
  <2>3. cpu' = [cpu EXCEPT !.pc = n] /\ answer' = "ok" /\ halted' = halted
    BY <2>2, <1>3, AdvanceMeans DEF n
  <2>4. f = Fields(0, o[2].index, o[1].base, o[1].offset)
    BY <1>7 DEF FieldsOf, f, ZeroOperand, InOut, TwoRegister, ThreeRegister, Branches
  <2>5. a = Cell(o[1]) /\ v = Held(o[2])
    BY <2>4, <1>2 DEF VM!R, Held, Cell, Fields, VM!StoreAddress
  <2>6. NextCPU(m, o) = Onwards /\ Stored(m, o) = {<< Cell(o[1]), Held(o[2]) >>}
    BY <1>1, <1>7 DEF NextCPU, Stored
  <2> HIDE DEF a, v, m, o
  <2>7. Stored(m, o) = {<< a, v >>}
    BY <2>5, <2>6
  <2>8. Meant(m, o)
    BY <1>4, <1>7, <2>2, <2>3, <2>6, <2>7, StoreMeans
  <2> QED BY <2>8 DEF m, o
<1> QED BY <1>5, <1>6, <1>7 DEF Sequential

\* The branches.
LEMMA BranchRuns ==
    ASSUME Compared(cpu), halted = FALSE, NEW s, s.mnemonic \in Relational, NEW j,
           Carries(j, s), VM!Execute(j), Room(s.mnemonic)
    PROVE  Meant(s.mnemonic, s.operands)
<1> DEFINE m == s.mnemonic
           o == s.operands
           t == addresses[o[1].name]
           n == cpu.pc + 1
<1>1. /\ m \in Branches /\ m \notin Unimplemented /\ m # "HLT" /\ m \in DOMAIN Taken
      /\ m \notin {"CALL", "RET", "NOP", "ST", "CMP"}
  BY TakenFacts DEF Branches, Unimplemented, Relational
<1>2. j.opcode = m /\ VM!Target(j) = t
  BY <1>1 DEF Carries
<1>3. Jumps(m) \/ Fits(cpu.pc + 1)
  BY <1>1 DEF Room
<1>4. Onwards = [cpu EXCEPT !.pc = n]
  BY DEF Onwards, Goto
<1>5. NextCPU(m, o) = IF Jumps(m) THEN Goto(t) ELSE Onwards
  BY <1>1 DEF NextCPU
<1>6. Stored(m, o) = {}
  BY <1>1 DEF Stored
<1> HIDE DEF t, n
<1>7. ASSUME VM!Jump(j), Jumps(m) PROVE Meant(m, o)
  <2>1. storage' = storage /\ halted' = halted /\ answer' = "ok" /\ cpu' = Goto(t)
    BY <1>2, <1>7 DEF VM!Jump, Goto
  <2> HIDE DEF m, o
  <2> QED BY <1>1, <1>5, <1>6, <1>7, <2>1, QuietMeans
<1>8. ASSUME VM!Advance(cpu), storage' = storage, ~Jumps(m) PROVE Meant(m, o)
  <2>1. cpu' = [cpu EXCEPT !.pc = n] /\ answer' = "ok" /\ halted' = halted
    BY <1>8, <1>3, AdvanceMeans DEF n
  <2> HIDE DEF m, o
  <2> QED BY <1>1, <1>4, <1>5, <1>6, <1>8, <2>1, QuietMeans
<1>9. VM!Jmp(j) \/ VM!Beq(j) \/ VM!Bgt(j) \/ VM!Blt(j)
  BY <1>2 DEF Relational, VM!Execute, VM!Nop, VM!Hlt, VM!Ldi, VM!Mov, VM!Add, VM!Sub, VM!Mul, VM!Tand,
     VM!Tor, VM!Txor, VM!Tnot, VM!Shf, VM!Ld, VM!Lea, VM!St, VM!Cmp, VM!Call, VM!Ret, VM!Unsupported
<1>10. CASE VM!Jmp(j)
  <2>1. m = "JMP" /\ VM!Jump(j)
    BY <1>2, <1>10 DEF VM!Jmp
  <2>2. Jumps(m)
    BY <2>1, TakenFacts DEF Jumps, Compared
  <2> QED BY <2>1, <2>2, <1>7
<1>11. ASSUME NEW op, NEW taken, VM!Branch(j, op, taken), op \in DOMAIN Taken, Taken[op] = {taken}
       PROVE  Meant(m, o)
  <2>1. m = op /\ (Jumps(m) <=> cpu.status = taken)
    BY <1>2, <1>11 DEF VM!Branch, Jumps
  <2>2. (cpu.status = taken /\ VM!Jump(j)) \/ (cpu.status # taken /\ VM!Advance(cpu) /\ storage' = storage)
    BY <1>11 DEF VM!Branch
  <2> QED BY <2>1, <2>2, <1>7, <1>8
<1>12. CASE VM!Beq(j)
  BY <1>11, <1>12, TakenFacts DEF VM!Beq
<1>13. CASE VM!Bgt(j)
  BY <1>11, <1>13, TakenFacts DEF VM!Bgt
<1>14. CASE VM!Blt(j)
  BY <1>11, <1>14, TakenFacts DEF VM!Blt
<1> QED BY <1>9, <1>10, <1>12, <1>13, <1>14

\* Calls and returns.
LEMMA CallRuns ==
    ASSUME Compared(cpu), halted = FALSE, NEW s, s.mnemonic \in Linking, NEW j,
           Carries(j, s), VM!Execute(j), Room(s.mnemonic)
    PROVE  Meant(s.mnemonic, s.operands)
<1> DEFINE m == s.mnemonic
           o == s.operands
<1>1. m \notin Unimplemented /\ m # "HLT" /\ m \notin DOMAIN Taken /\ m \notin {"NOP", "ST", "CMP"}
  BY TakenFacts DEF Unimplemented, Linking
<1>2. j.opcode = m
  BY DEF Carries
<1>3. CASE m = "CALL"
  <2> DEFINE t == addresses[o[1].name]
             n == cpu.pc + 1
             p == cpu.sp - 1
  <2>0. VM!Target(j) = t
    BY <1>3 DEF Carries, Branches
  <2>1. VM!Call(j)
    BY <1>2, <1>3 DEF VM!Execute, VM!Nop, VM!Hlt, VM!Ldi, VM!Mov, VM!Add, VM!Sub, VM!Mul, VM!Tand, VM!Tor,
       VM!Txor, VM!Tnot, VM!Shf, VM!Ld, VM!Lea, VM!St, VM!Cmp, VM!Jmp, VM!Beq, VM!Bgt, VM!Blt, VM!Branch,
       VM!Call, VM!Ret, VM!Unsupported
  <2>2. VM!Fits(VM!NextPc) /\ VM!Fits(p)
    BY <1>3, SameWords DEF Room, VM!NextPc
  <2>3. /\ cpu' = [cpu EXCEPT !.sp = p, !.pc = t] /\ storage' = VM!Written(storage, p, n)
        /\ answer' = "ok" /\ halted' = halted
    BY <2>0, <2>1, <2>2 DEF VM!Call, VM!Pushed, VM!Pushing, VM!write, VM!NextPc
  <2>4. NextCPU(m, o) = [Goto(t) EXCEPT !.sp = @ - 1] /\ Stored(m, o) = {<< p, n >>}
    BY <1>1, <1>3 DEF NextCPU, Stored
  <2> HIDE DEF t, n
  <2>5. [Goto(t) EXCEPT !.sp = @ - 1] = [Goto(t) EXCEPT !.sp = p]
    BY DEF Compared, Goto
  <2> HIDE DEF p
  <2>6. [Goto(t) EXCEPT !.sp = p] = [cpu EXCEPT !.sp = p, !.pc = t]
    BY DEF Compared, Goto
  <2>7. cpu' = NextCPU(m, o)
    BY <2>3, <2>4, <2>5, <2>6
  <2> HIDE DEF m, o
  <2>8. Meant(m, o)
    BY <1>3, <2>3, <2>4, <2>7, StoreMeans
  <2> QED BY <2>8 DEF m, o
<1>4. CASE m = "RET"
  <2> DEFINE t == VM!read(cpu.sp)
             p == cpu.sp + 1
  <2>1. VM!Ret(j)
    BY <1>2, <1>4 DEF VM!Execute, VM!Nop, VM!Hlt, VM!Ldi, VM!Mov, VM!Add, VM!Sub, VM!Mul, VM!Tand, VM!Tor,
       VM!Txor, VM!Tnot, VM!Shf, VM!Ld, VM!Lea, VM!St, VM!Cmp, VM!Jmp, VM!Beq, VM!Bgt, VM!Blt, VM!Branch,
       VM!Call, VM!Ret, VM!Unsupported
  <2>2. VM!Fits(p)
    BY <1>4, SameWords DEF Room
  <2>3. /\ cpu' = [cpu EXCEPT !.pc = t, !.sp = p] /\ storage' = storage
        /\ answer' = "ok" /\ halted' = halted
    BY <2>1, <2>2 DEF VM!Ret, VM!Popped
  <2>4. NextCPU(m, o) = [Goto(t) EXCEPT !.sp = @ + 1] /\ Stored(m, o) = {}
    BY <1>1, <1>4 DEF NextCPU, Stored
  <2> HIDE DEF t
  <2>5. [Goto(t) EXCEPT !.sp = @ + 1] = [Goto(t) EXCEPT !.sp = p]
    BY DEF Compared, Goto
  <2> HIDE DEF p
  <2>6. [Goto(t) EXCEPT !.sp = p] = [cpu EXCEPT !.pc = t, !.sp = p]
    BY DEF Compared, Goto
  <2>7. cpu' = NextCPU(m, o)
    BY <2>3, <2>4, <2>5, <2>6
  <2> HIDE DEF m, o
  <2>8. Meant(m, o)
    BY <1>1, <2>3, <2>4, <2>7, QuietMeans
  <2> QED BY <2>8 DEF m, o
<1> QED BY <1>3, <1>4 DEF Linking

\* The statements that leave the CPU as it is.
LEMMA IdleRuns ==
    ASSUME halted = FALSE, NEW s, s.mnemonic \in Unimplemented \cup {"HLT"}, NEW j,
           Carries(j, s), VM!Execute(j)
    PROVE  Meant(s.mnemonic, s.operands)
<1> DEFINE m == s.mnemonic
           o == s.operands
<1>1. m \notin DOMAIN Taken /\ m \notin {"NOP", "ST", "CMP", "CALL", "RET"}
  BY TakenFacts DEF Unimplemented
<1>2. j.opcode = m
  BY DEF Carries
<1>3. NextCPU(m, o) = cpu /\ Stored(m, o) = {}
  BY <1>1 DEF NextCPU, Stored
<1>4. VM!Hlt(j) \/ VM!Unsupported(j)
  BY <1>2 DEF Unimplemented, VM!Execute, VM!Nop, VM!Ldi, VM!Mov, VM!Add, VM!Sub, VM!Mul, VM!Tand, VM!Tor,
     VM!Txor, VM!Tnot, VM!Shf, VM!Ld, VM!Lea, VM!St, VM!Cmp, VM!Jmp, VM!Beq, VM!Bgt, VM!Blt, VM!Branch,
     VM!Call, VM!Ret
<1>5. /\ cpu' = cpu /\ storage' = storage /\ halted' = (m = "HLT")
      /\ answer' = IF m \in Unimplemented THEN "ExecutionError" ELSE "ok"
  BY <1>2, <1>4 DEF VM!Hlt, VM!halt, VM!Unsupported, VM!machine, Unimplemented
<1> HIDE DEF m, o
<1>6. Meant(m, o)
  BY <1>3, <1>5, QuietMeans
<1> QED BY <1>6 DEF m, o

\* Every statement does what it says.
LEMMA StatementRuns ==
    ASSUME Compared(cpu), halted = FALSE, NEW s, s.mnemonic \in Mnemonic, NEW j,
           Carries(j, s), VM!Execute(j), Room(s.mnemonic)
    PROVE  Meant(s.mnemonic, s.operands)
<1>1. s.mnemonic \in Assigning \cup Sequential \cup Relational \cup Linking
                       \cup Unimplemented \cup {"HLT"}
  BY DEF Mnemonic, Sequential, Relational, Linking, Assigning, Unimplemented, ZeroOperand, ThreeRegister, TwoRegister, InOut, Branches
<1>2. CASE s.mnemonic \in Assigning
  BY <1>2, AssigningRuns
<1>3. CASE s.mnemonic \in Sequential
  BY <1>3, SequentialRuns
<1>4. CASE s.mnemonic \in Relational
  BY <1>4, BranchRuns
<1>5. CASE s.mnemonic \in Linking
  BY <1>5, CallRuns
<1>6. CASE s.mnemonic \in Unimplemented \cup {"HLT"}
  BY <1>6, IdleRuns
<1> QED BY <1>1, <1>2, <1>3, <1>4, <1>5, <1>6

-----------------------------------------------------------------------------
(* tvm runs the program as it is written.                                     *)

\* The word that is fetched is that of the statement.
LEMMA FetchedCarries ==
    ASSUME NEW i, Speaks(i), base \in Int, ~Reopened("text"), NEW k,
           k = Cardinality(InstructionsBefore(i)),
           cpu.pc = base + k, VM!read(cpu.pc) = image.text[k + 1]
    PROVE  Carries(VM!Fetched, program[i])
<1> DEFINE s == program[i]
           w == image.text[k + 1]
           a == addresses[s.operands[1].name]
<1>1. /\ k \in Nat /\ Says(w, s)
      /\ s.mnemonic \in Branches =>
            a \in Word /\ decode(w).immediate \in Int /\ base + k + decode(w).immediate = a
  BY DEF Speaks
<1>2. VM!Fetched = decode(w)
  BY SameDecoder DEF VM!Fetched
<1> DEFINE j == decode(w)
           v == j.immediate
<1>3. s.mnemonic \in Branches => VM!Target(j) = a
  <2> SUFFICES ASSUME s.mnemonic \in Branches PROVE VM!Target(j) = a
    OBVIOUS
  <2>1. a \in Word /\ v \in Int /\ base + k + v = a
    BY <1>1
  <2> HIDE DEF v, a
  <2>2. cpu.pc \in Int /\ cpu.pc + v \in Word /\ cpu.pc + v = a
    BY <1>1, <2>1
  <2>3. VM!add(cpu.pc, v) = cpu.pc + v
    BY <2>1, <2>2, SumsOfWords
  <2> QED BY <2>2, <2>3 DEF VM!Target, v
<1>4. Says(w, s)
  BY <1>1
<1> HIDE DEF w, s, a
<1>5. Carries(j, s)
  <2>1. j.opcode = s.mnemonic
    BY <1>4 DEF Says
  <2>2. s.mnemonic \notin Branches =>
           LET f == FieldsOf(s.mnemonic, s.operands)
           IN  HasFields(j, s.mnemonic, f.rd, f.rs1, f.rs2) /\ j.immediate = f.cargo
    BY <1>4 DEF Says
  <2>3. s.mnemonic \in Branches => VM!Target(j) = addresses[s.operands[1].name]
    BY <1>3 DEF a
  <2> HIDE DEF j
  <2> QED BY <2>1, <2>2, <2>3 DEF Carries
<1> QED BY <1>2, <1>5 DEF s

\* The step of a machine that runs.
RunsStep ==
    RunTurn /\ ~halted /\ ~Reopened("text") =>
          \A i \in Instructions :
              LET k == Cardinality(InstructionsBefore(i)) + 1
                  m == program[i].mnemonic
              IN  cpu.pc = base + k - 1 /\ Intact(k) /\ Room(m) => Meant(m, program[i].operands)

\* The statement whose word PC is at is the one that is run.
LEMMA RunsAsWrittenStep == AsmInv /\ ToolInv /\ WrittenInv /\ RunInv => RunsStep
<1> SUFFICES ASSUME AsmInv, WrittenInv, RunInv, RunTurn, ~halted, ~Reopened("text"),
                    NEW i \in Instructions, NEW k, k = Cardinality(InstructionsBefore(i)),
                    cpu.pc = base + (k + 1) - 1, Intact(k + 1), Room(program[i].mnemonic)
             PROVE  Meant(program[i].mnemonic, program[i].operands)
  BY DEF RunsStep
<1>1. Assembled /\ Compared(cpu) /\ halted = FALSE
  BY DEF RunTurn, RunInv
<1>2. Speaks(i) /\ base \in Int
  <2>1. base = 0
    BY ToolAssumption DEF AsmInv, NamesInv
  <2> QED BY <2>1, <1>1 DEF WrittenInv
<1>3. k \in Nat /\ program[i].mnemonic \in Mnemonic
  <2>1. program[i].kind = "instruction"
    BY DEF Instructions
  <2> QED BY <1>2, <2>1 DEF Speaks, analyze
<1>4. cpu.pc = base + k /\ VM!read(cpu.pc) = image.text[k + 1]
  BY <1>2, <1>3 DEF Intact
<1>5. Carries(VM!Fetched, program[i])
  BY <1>2, <1>4, FetchedCarries
<1>6. VM!Execute(VM!Fetched)
  BY <1>1 DEF RunTurn, VM!RunTurn, VM!step
<1> QED BY <1>1, <1>3, <1>5, <1>6, StatementRuns

\* Every step of tvm does what the statement says whose turn it is: what tasm has made of
\* the mnemonics, the operands and the labels is, word by word, what the executor finds.
THEOREM ToolsRun == ToolSpec => RunsAsWritten
<1> DEFINE I == AsmInv /\ ToolInv /\ WordsInv /\ WrittenInv /\ RunInv
<1>1. StartTools => I
  <2> SUFFICES ASSUME StartTools PROVE I
    OBVIOUS
  <2>1. AsmInv /\ ToolInv /\ RunInv
    BY ToolInvInit, RunInvInit
  <2>2. WordsInv /\ WrittenInv
    BY DEF StartTools, Init, WordsInv, WrittenInv, Assembled
  <2> QED BY <2>1, <2>2
<1>2. I /\ [ToolStep]_allvars => I'
  <2> SUFFICES ASSUME I, [ToolStep]_allvars PROVE I'
    OBVIOUS
  <2>1. [Next]_vars
    BY DEF ToolStep, Assemble, TasmExit, Open, LoadTurn, Run, RunTurn, TvmExit, allvars, tasm
  <2>2. AsmInv' /\ ToolInv'
    BY ToolInvStep
  <2>3. WordsInv'
    BY <2>1, WordsInvStep DEF AsmInv
  <2>4. WrittenInv'
    BY <2>1, WrittenInvStep
  <2>5. RunInv'
    BY RunInvStep
  <2> QED BY <2>2, <2>3, <2>4, <2>5
<1>3. I => RunsStep
  BY RunsAsWrittenStep
<1>4. RunsAsWritten <=> [][RunsStep]_allvars
  BY PTL DEF RunsAsWritten, RunsStep
<1> HIDE DEF I
<1> QED BY <1>1, <1>2, <1>3, <1>4, PTL DEF ToolSpec

-----------------------------------------------------------------------------
(* tvm starts the program as it is laid out.                                  *)

\* What a finished image says of .text: it stands first, at the base, it is all there is, and
\* the program starts at _start.
Standing ==
    /\ image.data = << >> /\ image.rodata = << >>
    /\ image.header.entry_point = addresses["_start"] /\ addresses["_start"] \in Word
    /\ \A k \in DOMAIN image.sections :
          image.sections[k].type = "text" => k = 1 /\ image.sections[k].virtual_address = base

StandingInv == Assembled => Standing

\* A section .text is the first one.
LEMMA TextIsFirst ==
    ASSUME ProgramInv, LayoutInv, FitInv, Finish, NEW k \in DOMAIN sections, sections[k].name = "text"
    PROVE  k = 1 /\ sections[k].address = base
<1>0. pass = "encode"
  BY DEF Finish, AtEnd
<1>1. SectionChain(base, sizes, sections, 5) /\ TextLeads
  BY <1>0 DEF LayoutInv, LaidOut, FitInv
<1>2. DOMAIN sections = 1 .. Len(sections) /\ Len(sections) \in Nat
  BY <1>1, SequenceFacts DEF SectionChain
<1>3. SectionOrder[1] = "text" /\ 1 \in 1 .. 4
  BY DEF SectionOrder
<1>4. "text" \in DOMAIN sizes
  BY <1>1, <1>2, <1>3 DEF SectionChain
<1>5. Len(sections) > 0 /\ 1 \in 1 .. Len(sections)
  BY <1>2
<1>6. sections[1].name = "text" /\ sections[1].address = base
  BY <1>1, <1>4, <1>5 DEF TextLeads, SectionChain
<1>7. \A h, j \in 1 .. Len(sections) : sections[h].name = sections[j].name => h = j
  BY <1>1 DEF SectionChain
<1> QED BY <1>2, <1>5, <1>6, <1>7

\* That is what the encode loop ends with.
LEMMA FinishStands ==
    ASSUME ProgramInv, TableInv, LayoutInv, ImageInv, FitInv, Finish
    PROVE  Standing'
<1>1. /\ image'.data = << >> /\ image'.rodata = << >>
      /\ image'.header.entry_point = addresses["_start"]
      /\ DOMAIN image'.sections = DOMAIN sections
      /\ \A k \in DOMAIN sections :
            /\ image'.sections[k].type = sections[k].name
            /\ image'.sections[k].virtual_address = sections[k].address
  BY FinalImage
<1>2. UNCHANGED << base, addresses >>
  BY SameProgram
<1>3. addresses["_start"] \in Word
  <2>1. "_start" \in DOMAIN symbols /\ addresses = [name \in DOMAIN symbols |-> SymbolAddress(name)]
    BY AtFinish DEF Tables
  <2>2. "_start" \in DOMAIN addresses
    BY <2>1
  <2> QED BY <2>2 DEF LayoutInv
<1>4. ASSUME NEW k \in DOMAIN image'.sections, image'.sections[k].type = "text"
      PROVE  k = 1 /\ image'.sections[k].virtual_address = base
  <2>1. k \in DOMAIN sections /\ sections[k].name = "text"
    BY <1>1, <1>4
  <2>2. k = 1 /\ sections[k].address = base
    BY <2>1, TextIsFirst
  <2> QED BY <1>1, <2>1, <2>2
<1> QED BY <1>1, <1>2, <1>3, <1>4 DEF Standing

\* No step changes it afterwards.
LEMMA StandingInvStep ==
    AsmInv /\ StandingInv /\ [Next]_vars => StandingInv'
<1> SUFFICES ASSUME AsmInv, StandingInv, [Next]_vars PROVE StandingInv'
  OBVIOUS
<1>1. ProgramInv /\ TableInv /\ LayoutInv /\ ImageInv /\ FitInv
  BY DEF AsmInv
<1>2. CASE Finish
  BY <1>1, <1>2, FinishStands DEF StandingInv
<1>3. CASE UNCHANGED vars
  <2>1. UNCHANGED << base, image, outcome, addresses >>
    BY <1>3 DEF vars, arguments, placement
  <2> QED BY <2>1 DEF StandingInv, Standing, Assembled
<1>4. CASE ~Assembled'
  BY <1>4 DEF StandingInv
<1> QED BY <1>1, <1>2, <1>3, <1>4, AssembledLast

\* An image m that the machine can be started with: .text where it was laid out, no other
\* words, and an entry point.
Prepared(m) ==
    /\ Len(m.sections) \in Nat /\ Len(m.sections) >= 1
    /\ Len(image.text) \in Nat /\ DOMAIN image.text = 1 .. Len(image.text)
    /\ m.sections[1].type = "Text" /\ m.sections[1].virtual_address = base
    /\ m.sections[1].words = image.text
    /\ \A k \in 1 .. Len(m.sections) : k # 1 => m.sections[k].words = << >>
    /\ m.entry_point = addresses["_start"] /\ addresses["_start"] \in Word
    /\ \A k \in 1 .. Len(image.text) : base + k - 1 \in Word

\* So is what TrnLoader returns for a file of tasm.
LEMMA OpenPrepares ==
    ASSUME Ready(image), Serializable(image), Standing, base = 0,
           NEW f, f = Whole(serialize(image)), Loads(f)
    PROVE  Prepared(Loaded(f))
<1> DEFINE m == Loaded(f)
           n == Len(image.sections)
           size == Len(image.text)
<1>1. StoredAs(image, f)
  BY DEF Ready, StoredAs, Storable
<1>2. m = Meaning(image) /\ Acceptable(m) /\ m.memory_base = base
  BY <1>1, LoadsIffAcceptable DEF Ready
<1>3. image \in TypedImages /\ f \in File
  BY <1>1, StoredFacts
<1>4. /\ n \in Nat /\ DOMAIN image.sections = 1 .. n
      /\ \A k \in 1 .. n : image.sections[k].type \in {"text", "data", "rodata", "bss"}
      /\ image.text \in Seq(Int)
  BY <1>3, ImageTypes, SectionTypes
<1>5. size \in Nat /\ DOMAIN image.text = 1 .. size
  BY <1>4
<1>6. m.sections = [k \in 1 .. n |-> SectionMeant(image, k)] /\ m.entry_point = image.header.entry_point
  <2>1. \A field \in LoadedHeader : Meaning(image)[field] = image.header[field]
    BY <1>3, MeaningParts
  <2>2. "entry_point" \in LoadedHeader
    BY DEF LoadedHeader
  <2> QED BY <1>2, <1>3, <2>1, <2>2, MeaningParts
<1>7. m.memory_size \in Word
  <2>1. m.memory_size = header(f).memory_size
    <3>1. "memory_size" \in LoadedHeader
      BY DEF LoadedHeader
    <3> QED BY <1>3, <3>1, LoadedParts
  <2>2. "memory_size" \in DOMAIN NewHeader
    BY DEF NewHeader
  <2> QED BY <1>3, <2>1, <2>2, HeaderIsWords DEF Loads
<1> HIDE DEF m, n
<1>8. /\ DOMAIN m.sections = 1 .. n /\ Len(m.sections) = n
      /\ \A k \in 1 .. n :
            /\ m.sections[k].type = LoadedType[SectionType[image.sections[k].type] + 1]
            /\ m.sections[k].virtual_address = image.sections[k].virtual_address
            /\ m.sections[k].words = Payload(image, image.sections[k].type)
            /\ m.sections[k].memory_size = SizeOf(image, image.sections[k].type)
  BY <1>4, <1>6 DEF SectionMeant
<1>9. \A k \in 1 .. n : m.sections[k].type = "Text" => image.sections[k].type = "text"
  <2> SUFFICES ASSUME NEW k \in 1 .. n, m.sections[k].type = "Text" PROVE image.sections[k].type = "text"
    OBVIOUS
  <2> DEFINE type == image.sections[k].type
  <2>1. type \in {"text", "data", "rodata", "bss"}
    BY <1>4
  <2>2. LoadedType[SectionType[type] + 1] = "Text"
    BY <1>8
  <2> HIDE DEF type
  <2>3. type = "text"
    BY <2>1, <2>2 DEF LoadedType, SectionType
  <2> QED BY <2>3 DEF type
<1>10. /\ 1 \in 1 .. n /\ m.sections[1].type = "Text" /\ image.sections[1].type = "text"
       /\ image.sections[1].virtual_address = base
  <2>1. PICK k \in 1 .. n : m.sections[k].type = "Text"
    BY <1>2, <1>8 DEF Acceptable, has_section
  <2>2. image.sections[k].type = "text"
    BY <1>9, <2>1
  <2>3. k = 1 /\ image.sections[k].virtual_address = base
    BY <1>4, <2>2 DEF Standing
  <2> QED BY <2>1, <2>2, <2>3
<1>11. Payload(image, "text") = image.text /\ SizeOf(image, "text") = size
  BY DEF Payload, SizeOf
<1>12. ASSUME NEW k \in 1 .. n, k # 1 PROVE m.sections[k].words = << >>
  <2> DEFINE type == image.sections[k].type
  <2>1. type \in {"data", "rodata", "bss"}
    BY <1>4, <1>12 DEF Standing
  <2> HIDE DEF type
  <2>2. Payload(image, type) = << >>
    BY <2>1 DEF Payload, Standing
  <2> QED BY <1>8, <2>2 DEF type
<1>13. size <= m.memory_size
  <2>1. m.sections[1].virtual_address + m.sections[1].memory_size <= m.memory_base + m.memory_size
    BY <1>2, <1>8, <1>10 DEF Acceptable
  <2>2. m.sections[1].virtual_address = 0 /\ m.sections[1].memory_size = size /\ m.memory_base = 0
    BY <1>2, <1>8, <1>10, <1>11
  <2>3. m.memory_size \in Int
    BY <1>7, MaxValue DEF Word
  <2> HIDE DEF size
  <2> QED BY <1>5, <2>1, <2>2, <2>3
<1>14. \A k \in 1 .. size : base + k - 1 \in Word
  <2>1. size <= MAX_VALUE /\ MAX_VALUE \in Nat
    BY <1>5, <1>7, <1>13, MaxValue DEF Word
  <2>2. \A k \in 1 .. size : 0 + k - 1 \in 0 .. MAX_VALUE
    BY <1>5, <2>1
  <2>3. \A v \in 0 .. MAX_VALUE : v \in Word
    BY <2>1, MaxValue DEF Word
  <2> QED BY <2>2, <2>3
<1>15. n >= 1
  BY <1>4, <1>10
<1>16. m.sections[1].words = image.text /\ m.sections[1].virtual_address = base
  BY <1>8, <1>10, <1>11
<1>17. m.entry_point = addresses["_start"] /\ addresses["_start"] \in Word
  BY <1>6 DEF Standing
<1>18. Prepared(m)
  BY <1>4, <1>5, <1>8, <1>10, <1>12, <1>14, <1>15, <1>16, <1>17 DEF Prepared
<1> QED BY <1>18 DEF m

\* The first n of these words stand in a memory one behind the other, and nothing else.
WordAt(store, a) == IF a \in DOMAIN store THEN store[a] ELSE 0

StoredFrom(store, from, words, n) ==
    /\ \A k \in 1 .. n : WordAt(store, from + k - 1) = words[k]
    /\ \A a \in DOMAIN store : \E k \in 1 .. n : a = from + k - 1

\* What the loop of the loader has stored.
Stowed == IF slot.section = 1 THEN slot.word - 1 ELSE Len(image.text)

Loading ==
    /\ slot \in [section : Nat, word : Nat] /\ slot.section >= 1 /\ slot.word >= 1
    /\ slot.section = 1 => slot.word <= Len(image.text) + 1
    /\ StoredFrom(storage, base, image.text, Stowed)

LoopInv ==
    phase = "load" =>
        /\ Prepared(loaded) /\ answer = "ok" /\ call \in {"load", "none"}
        /\ call = "load" => Loading
        /\ call = "none" =>
               cpu.pc = addresses["_start"] /\ StoredFrom(storage, base, image.text, Len(image.text))

\* The next word goes behind them.
LEMMA StoredMore ==
    ASSUME NEW store, NEW from \in Int, NEW words, NEW n \in Nat, StoredFrom(store, from, words, n)
    PROVE  StoredFrom(VM!Written(store, from + n, words[n + 1]), from, words, n + 1)
<1> DEFINE a == from + n
           v == words[n + 1]
           next == VM!Written(store, a, v)
<1>1. WordAt(next, a) = v /\ \A b : b # a => WordAt(next, b) = WordAt(store, b)
  <2> HIDE DEF a, v
  <2>1. CASE v = 0
    <3>1. next = [x \in DOMAIN store \ {a} |-> store[x]]
      BY <2>1 DEF VM!Written
    <3> QED BY <2>1, <3>1 DEF WordAt
  <2>2. CASE v # 0
    <3>1. next = [x \in DOMAIN store \union {a} |-> IF x = a THEN v ELSE store[x]]
      BY <2>2 DEF VM!Written
    <3> HIDE DEF next
    <3> QED BY <3>1 DEF WordAt
  <2> QED BY <2>1, <2>2
<1>2. \A b \in DOMAIN next : b \in DOMAIN store \/ b = a
  <2> HIDE DEF a, v
  <2> QED BY DEF VM!Written
<1> HIDE DEF next
<1>3. ASSUME NEW k \in 1 .. n + 1 PROVE WordAt(next, from + k - 1) = words[k]
  <2>1. CASE k = n + 1
    <3>1. from + k - 1 = a
      BY <2>1
    <3> QED BY <1>1, <2>1, <3>1
  <2>2. CASE k # n + 1
    <3>1. k \in 1 .. n /\ from + k - 1 # a
      BY <2>2
    <3>2. WordAt(store, from + k - 1) = words[k]
      BY <3>1 DEF StoredFrom
    <3> HIDE DEF a
    <3> QED BY <1>1, <3>1, <3>2
  <2> QED BY <2>1, <2>2
<1>4. ASSUME NEW b \in DOMAIN next PROVE \E k \in 1 .. n + 1 : b = from + k - 1
  <2>1. CASE b = a
    <3>1. n + 1 \in 1 .. n + 1 /\ b = from + (n + 1) - 1
      BY <2>1
    <3> QED BY <3>1
  <2>2. CASE b \in DOMAIN store
    <3>1. PICK k \in 1 .. n : b = from + k - 1
      BY <2>2 DEF StoredFrom
    <3>2. k \in 1 .. n + 1
      OBVIOUS
    <3> QED BY <3>1, <3>2
  <2> QED BY <1>2, <2>1, <2>2
<1>5. StoredFrom(next, from, words, n + 1)
  BY <1>3, <1>4 DEF StoredFrom
<1> QED BY <1>5 DEF next

\* A turn of the loop.
LEMMA LoadTurnKeeps ==
    ASSUME base \in Int, LoopInv, Compared(cpu), LoadTurn
    PROVE  LoopInv'
<1>0. /\ phase = "load" /\ UNCHANGED << base, image, addresses, phase, loaded >> /\ call = "load"
  BY DEF LoadTurn, tasm, vars, arguments, placement, VM!LoadTurn, VM!LoadWord, VM!InSection,
     VM!NextSection, VM!SetEntry
<1>1. Prepared(loaded) /\ answer = "ok" /\ Loading
  BY <1>0 DEF LoopInv
<1>2. Prepared(loaded)'
  BY <1>0, <1>1 DEF Prepared
<1>3. /\ slot.section \in Nat /\ slot.word \in Nat /\ slot.section >= 1 /\ slot.word >= 1
      /\ slot.section = 1 => slot.word <= Len(image.text) + 1
      /\ StoredFrom(storage, base, image.text, Stowed) /\ Len(image.text) \in Nat /\ Len(loaded.sections) \in Nat
      /\ Len(loaded.sections) >= 1
  BY <1>1 DEF Loading, Prepared
<1>4. CASE VM!LoadWord
  <2>1. /\ slot.section <= Len(loaded.sections)
        /\ slot.word <= Len(loaded.sections[slot.section].words)
    BY <1>4 DEF VM!LoadWord, VM!InSection, VM!Current
  <2>2. slot.section = 1
    <3> SUFFICES ASSUME slot.section # 1 PROVE FALSE
      OBVIOUS
    <3>1. loaded.sections[slot.section].words = << >>
      <4>1. slot.section \in 1 .. Len(loaded.sections)
        BY <1>3, <2>1
      <4> QED BY <1>1, <4>1 DEF Prepared
    <3>2. Len(<< >>) = 0
      OBVIOUS
    <3> QED BY <1>3, <2>1, <3>1, <3>2
  <2> DEFINE n == slot.word - 1
  <2>3. /\ n \in Nat /\ n + 1 = slot.word /\ slot.word \in 1 .. Len(image.text) /\ StoredFrom(storage, base, image.text, n)
        /\ base + slot.word - 1 = base + n
    <3>1. slot.word <= Len(image.text)
      BY <1>1, <2>1, <2>2 DEF Prepared
    <3> QED BY <1>3, <2>2, <3>1 DEF Stowed
  <2>4. VM!Address = base + n /\ VM!Current.words = image.text
    BY <1>1, <2>2, <2>3 DEF VM!Address, VM!Current, Prepared
  <2>5. VM!Fits(VM!Address)
    <3>1. base + slot.word - 1 \in Word
      BY <1>1, <2>3 DEF Prepared
    <3>2. \A v \in Word : Fits(v)
      BY MaxValue DEF Word, Fits
    <3> QED BY <2>3, <2>4, <3>1, <3>2, SameWords
  <2>6. /\ storage' = VM!Written(storage, base + n, image.text[slot.word])
        /\ slot' = [slot EXCEPT !.word = @ + 1] /\ UNCHANGED << call, answer >>
    BY <1>4, <2>4, <2>5 DEF VM!LoadWord, VM!write
  <2>7. /\ slot' \in [section : Nat, word : Nat] /\ slot'.section = 1 /\ slot'.word = slot.word + 1
    <3>1. slot \in [section : Nat, word : Nat]
      BY <1>1 DEF Loading
    <3> QED BY <2>2, <2>6, <3>1
  <2>8. StoredFrom(storage', base, image.text, n + 1)
    <3> HIDE DEF n
    <3>1. image.text[slot.word] = image.text[n + 1]
      BY <2>3
    <3> QED BY <1>0, <2>3, <2>6, <3>1, StoredMore
  <2>9. Stowed' = n + 1
    BY <1>3, <2>7 DEF Stowed
  <2>10. StoredFrom(storage', base', image'.text, Stowed')
    <3> HIDE DEF n
    <3> QED BY <1>0, <2>8, <2>9
  <2>11. Loading'
    BY <1>0, <1>3, <2>3, <2>7, <2>10 DEF Loading
  <2> QED BY <1>0, <1>1, <1>2, <2>6, <2>11 DEF LoopInv
<1>5. CASE VM!NextSection
  <2>1. /\ slot.section <= Len(loaded.sections) /\ ~VM!InSection
        /\ slot' = [section |-> slot.section + 1, word |-> 1]
        /\ storage' = storage /\ UNCHANGED << call, answer >>
    BY <1>5 DEF VM!NextSection, VM!machine
  <2>2. Stowed = Len(image.text)
    <3> SUFFICES ASSUME slot.section = 1 PROVE slot.word - 1 = Len(image.text)
      BY DEF Stowed
    <3>1. VM!Current.words = image.text /\ VM!Current.type = "Text"
      BY <1>1 DEF VM!Current, Prepared
    <3>2. ~(slot.word <= Len(image.text))
      BY <1>0, <2>1, <3>1 DEF VM!InSection
    <3> QED BY <1>3, <3>2
  <2>3. slot'.section = slot.section + 1 /\ slot'.word = 1 /\ slot' \in [section : Nat, word : Nat]
    BY <1>3, <2>1
  <2>4. Stowed' = Len(image.text)
    BY <1>0, <1>3, <2>3 DEF Stowed
  <2>5. StoredFrom(storage', base, image.text, Len(image.text))
    BY <1>0, <1>3, <2>1, <2>2 
  <2>6. StoredFrom(storage', base', image'.text, Stowed')
    BY <1>0, <2>4, <2>5
  <2>7. Loading'
    BY <1>3, <2>3, <2>6 DEF Loading
  <2> QED BY <1>0, <1>1, <1>2, <2>1, <2>7 DEF LoopInv
<1>6. CASE VM!SetEntry
  <2>1. /\ slot.section > Len(loaded.sections) /\ call' = "none" /\ storage' = storage
        /\ VM!Fits(loaded.entry_point) =>
               cpu' = [cpu EXCEPT !.pc = loaded.entry_point] /\ answer' = "ok"
    BY <1>6 DEF VM!SetEntry
  <2>2. VM!Fits(loaded.entry_point) /\ loaded.entry_point = addresses["_start"]
    <3>1. \A v \in Word : Fits(v)
      BY MaxValue DEF Word, Fits
    <3> QED BY <1>1, <3>1, SameWords DEF Prepared
  <2>3. cpu'.pc = addresses["_start"]
    BY <2>1, <2>2 DEF Compared
  <2>4. Stowed = Len(image.text)
    BY <1>3, <2>1 DEF Stowed
  <2>5. StoredFrom(storage', base, image.text, Len(image.text))
    BY <1>0, <1>3, <2>1, <2>4 
  <2> QED BY <1>0, <1>2, <2>1, <2>2, <2>3, <2>5 DEF LoopInv
<1> QED BY <1>4, <1>5, <1>6 DEF LoadTurn, VM!LoadTurn

\* The loader starts with an empty memory.
LEMMA OpenKeeps ==
    ASSUME AsmInv, ToolInv, StandingInv, Open
    PROVE  LoopInv'
<1>0. phase = "open" /\ UNCHANGED << base, image, addresses, file >>
  BY DEF Open, tasm, vars, arguments, placement
<1>1. /\ Assembled /\ Serializable(image) /\ file = Whole(serialize(image))
      /\ Standing /\ Ready(image) /\ base = 0
  BY <1>0, ToolAssumption DEF ToolInv, StandingInv, AsmInv, ReadyInv, NamesInv
<1>2. CASE ~Loads(file)
  <2>1. phase' = "done"
    BY <1>2 DEF Open
  <2> QED BY <2>1 DEF LoopInv
<1>3. CASE Loads(file)
  <2>1. Prepared(Loaded(file))
    BY <1>1, <1>3, OpenPrepares
  <2>2. VM!validate(Loaded(file))
    BY <1>1, <1>3, ReadyLoads
  <2>3. VM!load(Loaded(file))
    BY <1>3 DEF Open
  <2>4. /\ loaded' = Loaded(file) /\ storage' = VM!EmptyStorage /\ call' = "load" /\ answer' = "ok"
        /\ slot' = [section |-> 1, word |-> 1]
    BY <2>2, <2>3 DEF VM!load, VM!Reject, VM!Accept, VM!reset, VM!clear
  <2>5. Prepared(loaded)'
    BY <1>0, <2>1, <2>4 DEF Prepared
  <2>6. Len(image.text) \in Nat
    BY <2>1 DEF Prepared
  <2>7. slot'.section = 1 /\ slot'.word = 1 /\ slot' \in [section : Nat, word : Nat]
    BY <2>4
  <2>8. Stowed' = 0
    BY <2>7 DEF Stowed
  <2>9. StoredFrom(storage', base', image'.text, 0)
    BY <2>4 DEF StoredFrom, VM!EmptyStorage
  <2>10. StoredFrom(storage', base', image'.text, Stowed')
    BY <2>8, <2>9
  <2>11. Loading'
    BY <1>0, <2>6, <2>7, <2>10 DEF Loading
  <2> QED BY <2>4, <2>5, <2>11 DEF LoopInv
<1> QED BY <1>2, <1>3

\* No step of the tools breaks it.
LEMMA LoopInvStep ==
    AsmInv /\ ToolInv /\ RunInv /\ StandingInv /\ LoopInv /\ [ToolStep]_allvars => LoopInv'
<1> SUFFICES ASSUME AsmInv, ToolInv, RunInv, StandingInv, LoopInv, [ToolStep]_allvars PROVE LoopInv'
  OBVIOUS
<1>1. CASE Open
  BY <1>1, OpenKeeps
<1>2. CASE LoadTurn
  <2>1. base \in Int
    BY ToolAssumption DEF AsmInv, NamesInv
  <2> QED BY <1>2, <2>1, LoadTurnKeeps DEF RunInv
<1>3. CASE Assemble \/ TasmExit \/ Run \/ RunTurn \/ TvmExit
  <2>1. phase' # "load"
    BY <1>3 DEF Assemble, TasmExit, Run, RunTurn, TvmExit
  <2> QED BY <2>1 DEF LoopInv
<1>4. CASE UNCHANGED allvars
  <2>1. UNCHANGED << phase, loaded, answer, call, slot, cpu, storage, base, image, addresses >>
    BY <1>4 DEF allvars, tasm, tvm, vars, arguments, placement
  <2>2. Loading' <=> Loading
    BY <2>1 DEF Loading, Stowed
  <2>3. Prepared(loaded)' <=> Prepared(loaded)
    BY <2>1 DEF Prepared
  <2> QED BY <2>1, <2>2, <2>3 DEF LoopInv
<1> QED BY <1>1, <1>2, <1>3, <1>4 DEF ToolStep

\* The machine that tvm starts is the program as tasm laid it out: the words of .text go
\* through the file and both loaders to the addresses the layout gave them.
THEOREM ToolsStart == ToolSpec => []StartsAsLaidOut
<1> DEFINE I == AsmInv /\ ToolInv /\ RunInv /\ StandingInv /\ LoopInv
<1>1. StartTools => I
  <2> SUFFICES ASSUME StartTools PROVE I
    OBVIOUS
  <2>1. AsmInv /\ ToolInv /\ RunInv
    BY ToolInvInit, RunInvInit
  <2>2. StandingInv /\ LoopInv
    BY DEF StartTools, Init, StandingInv, LoopInv, Assembled
  <2> QED BY <2>1, <2>2
<1>2. I /\ [ToolStep]_allvars => I'
  <2> SUFFICES ASSUME I, [ToolStep]_allvars PROVE I'
    OBVIOUS
  <2>1. [Next]_vars
    BY DEF ToolStep, Assemble, TasmExit, Open, LoadTurn, Run, RunTurn, TvmExit, allvars, tasm
  <2>2. AsmInv' /\ ToolInv'
    BY ToolInvStep
  <2>3. RunInv'
    BY RunInvStep
  <2>4. StandingInv'
    BY <2>1, StandingInvStep
  <2>5. LoopInv'
    BY LoopInvStep
  <2> QED BY <2>2, <2>3, <2>4, <2>5
<1>3. I => StartsAsLaidOut
  <2> SUFFICES ASSUME I, phase = "load", call = "none" PROVE
        /\ answer = "ok" /\ cpu.pc = addresses["_start"]
        /\ \A k \in DOMAIN image.text : VM!read(base + k - 1) = image.text[k]
        /\ \A a \in DOMAIN storage : a - base + 1 \in DOMAIN image.text
    BY DEF StartsAsLaidOut
  <2> DEFINE n == Len(image.text)
  <2>1. answer = "ok" /\ cpu.pc = addresses["_start"] /\ StoredFrom(storage, base, image.text, n) /\ Prepared(loaded)
    BY DEF LoopInv
  <2>2. DOMAIN image.text = 1 .. n /\ n \in Nat
    BY <2>1 DEF Prepared
  <2>3. base \in Int
    BY ToolAssumption DEF AsmInv, NamesInv
  <2>4. ASSUME NEW a \in DOMAIN storage PROVE a - base + 1 \in 1 .. n
    <3>1. PICK k \in 1 .. n : a = base + k - 1
      BY <2>1 DEF StoredFrom
    <3> QED BY <2>2, <2>3, <3>1
  <2> HIDE DEF n
  <2>5. \A k \in 1 .. n : VM!read(base + k - 1) = image.text[k]
    BY <2>1 DEF StoredFrom, WordAt, VM!read
  <2> QED BY <2>1, <2>2, <2>4, <2>5
<1> HIDE DEF I
<1> QED BY <1>1, <1>2, <1>3, PTL DEF ToolSpec
-----------------------------------------------------------------------------
(* How tvm ends.                                                             *)

\* What the step that ends a run leaves.
HasHalted == halted /\ VM!Fetched.opcode = "HLT"
HasThrown == ~halted /\ (VM!Fetched.opcode \in Unimplemented \/ AtTheEdge)

\* A sequential opcode throws at the last address.
LEMMA AdvanceEnds ==
    ASSUME Compared(cpu), NEW c, c.pc = cpu.pc, VM!Advance(c)
    PROVE  halted' = halted /\ (answer' # "ok" => AtTheEdge')
<1>1. halted' = halted
  BY DEF VM!Advance
<1>2. ASSUME answer' # "ok" PROVE AtTheEdge'
  <2>1. cpu' = c /\ ~Fits(cpu.pc + 1)
    BY <1>2, SameWords DEF VM!Advance, VM!NextPc
  <2>2. cpu'.pc = cpu.pc
    BY <2>1
  <2> QED BY <2>1, <2>2 DEF AtTheEdge, Fits
<1> QED BY <1>1, <1>2

LEMMA WriteBackEnds ==
    ASSUME Compared(cpu), NEW i, NEW v, VM!WriteBack(i, v)
    PROVE  halted' = halted /\ (answer' # "ok" => AtTheEdge')
<1> DEFINE g == [cpu.registers EXCEPT ![i.rd] = v]
           c == [cpu EXCEPT !.registers = g]
<1>1. c = [cpu EXCEPT !.registers[i.rd] = v]
  OBVIOUS
<1>2. c.pc = cpu.pc
  <2> HIDE DEF g
  <2> QED BY DEF Compared
<1> HIDE DEF c
<1>3. VM!Advance(c)
  BY <1>1 DEF VM!WriteBack, VM!Set
<1> QED BY <1>2, <1>3, AdvanceEnds

LEMMA BranchEnds ==
    ASSUME Compared(cpu), NEW i, NEW op, NEW taken, VM!Branch(i, op, taken)
    PROVE  halted' = halted /\ (answer' # "ok" => AtTheEdge')
<1>1. CASE VM!Jump(i)
  BY <1>1 DEF VM!Jump
<1>2. CASE VM!Advance(cpu)
  BY <1>2, AdvanceEnds
<1> QED BY <1>1, <1>2 DEF VM!Branch

LEMMA StoreEnds ==
    ASSUME Compared(cpu), NEW i, VM!Nop(i) \/ VM!St(i) \/ VM!Cmp(i)
    PROVE  halted' = halted /\ (answer' # "ok" => AtTheEdge')
<1>1. CASE VM!Nop(i) \/ VM!St(i)
  BY <1>1, AdvanceEnds DEF VM!Nop, VM!St
<1>2. CASE VM!Cmp(i)
  <2> DEFINE v == VM!compare(VM!R(i.rs1), VM!R(i.rs2))
             c == [cpu EXCEPT !.status = v]
  <2>1. VM!Advance(c)
    BY <1>2 DEF VM!Cmp
  <2>2. c.pc = cpu.pc
    <3> HIDE DEF v
    <3> QED BY DEF Compared
  <2> HIDE DEF c
  <2> QED BY <2>1, <2>2, AdvanceEnds
<1> QED BY <1>1, <1>2

LEMMA CallEnds ==
    ASSUME Compared(cpu), NEW i, VM!Call(i)
    PROVE  halted' = halted /\ (answer' # "ok" => AtTheEdge')
<1>1. halted' = halted
  BY DEF VM!Call, VM!Pushed, VM!Pushing, VM!machine
<1>2. ASSUME answer' # "ok" PROVE AtTheEdge'
  <2>1. cpu' = cpu /\ ~(Fits(cpu.pc + 1) /\ Fits(cpu.sp - 1))
    BY <1>2, SameWords DEF VM!Call, VM!Pushed, VM!Pushing, VM!machine, VM!NextPc
  <2> QED BY <2>1 DEF AtTheEdge, Fits
<1> QED BY <1>1, <1>2

LEMMA RetEnds ==
    ASSUME Compared(cpu), NEW i, VM!Ret(i)
    PROVE  halted' = halted /\ (answer' # "ok" => AtTheEdge')
<1>1. halted' = halted
  BY DEF VM!Ret
<1>2. ASSUME answer' # "ok" PROVE AtTheEdge'
  <2> DEFINE target == VM!Popped
  <2>1. cpu' = [cpu EXCEPT !.pc = target] /\ ~Fits(cpu.sp + 1)
    BY <1>2, SameWords DEF VM!Ret
  <2> HIDE DEF target
  <2>2. cpu'.sp = cpu.sp
    BY <2>1 DEF Compared
  <2> QED BY <2>1, <2>2 DEF AtTheEdge, Fits
<1> QED BY <1>1, <1>2

\* A step either goes on, or has halted at a HLT, or has thrown.
LEMMA StepEnds ==
    ASSUME Compared(cpu), halted = FALSE, VM!step
    PROVE  /\ answer' = "ok" => halted' = FALSE \/ HasHalted'
           /\ answer' # "ok" => HasThrown'
<1> DEFINE i == VM!Fetched
<1>1. VM!Execute(i)
  BY DEF VM!step
<1>2. CASE VM!Hlt(i)
  <2>1. i.opcode = "HLT" /\ halted' = TRUE /\ cpu' = cpu /\ storage' = storage /\ answer' = "ok"
    BY <1>2 DEF VM!Hlt, VM!halt
  <2>2. VM!Fetched' = i
    BY <2>1 DEF VM!Fetched, VM!read
  <2> QED BY <2>1, <2>2 DEF HasHalted
<1>3. CASE VM!Unsupported(i)
  <2>1. /\ i.opcode \in Unimplemented /\ halted' = FALSE /\ cpu' = cpu /\ storage' = storage
        /\ answer' = "ExecutionError"
    BY <1>3 DEF VM!Unsupported, VM!machine, Unimplemented
  <2>2. VM!Fetched' = i
    BY <2>1 DEF VM!Fetched, VM!read
  <2> QED BY <2>1, <2>2 DEF HasThrown
<1>4. CASE halted' = halted /\ (answer' # "ok" => AtTheEdge')
  BY <1>4 DEF HasThrown
<1> HIDE DEF i
<1>5. CASE VM!Ldi(i) \/ VM!Mov(i) \/ VM!Add(i) \/ VM!Sub(i) \/ VM!Mul(i) \/ VM!Tand(i) \/ VM!Tor(i)
           \/ VM!Txor(i) \/ VM!Tnot(i) \/ VM!Shf(i) \/ VM!Ld(i) \/ VM!Lea(i)
  <2>1. \E v : VM!WriteBack(i, v)
    BY <1>5 DEF VM!Ldi, VM!Mov, VM!Add, VM!Sub, VM!Mul, VM!Tand, VM!Tor, VM!Txor, VM!Tnot, VM!Shf,
       VM!Ld, VM!Lea
  <2> QED BY <1>4, <2>1, WriteBackEnds
<1>6. CASE VM!Nop(i) \/ VM!St(i) \/ VM!Cmp(i)
  BY <1>4, <1>6, StoreEnds
<1>7. CASE VM!Jmp(i)
  <2>1. halted' = halted /\ answer' = "ok"
    BY <1>7 DEF VM!Jmp, VM!Jump
  <2> QED BY <1>4, <2>1
<1>8. CASE VM!Beq(i) \/ VM!Bgt(i) \/ VM!Blt(i)
  BY <1>4, <1>8, BranchEnds DEF VM!Beq, VM!Bgt, VM!Blt
<1>9. CASE VM!Call(i)
  BY <1>4, <1>9, CallEnds
<1>10. CASE VM!Ret(i)
  BY <1>4, <1>10, RetEnds
<1> QED BY <1>1, <1>2, <1>3, <1>5, <1>6, <1>7, <1>8, <1>9, <1>10 DEF VM!Execute

\* How the calls of tvm stand to the machine: a run goes on until the machine has halted
\* at a HLT or a step has thrown.
EndInv ==
    /\ phase = "load" => halted = FALSE
    /\ phase = "run" =>
          /\ call \in {"run", "none"}
          /\ call = "run" => halted = FALSE \/ HasHalted
          /\ call = "none" => IF answer = "ok" THEN HasHalted ELSE HasThrown
    /\ ExitTellsWhy

LEMMA EndInvStep ==
    ASSUME ToolInv, ToolInv', RunInv, EndInv, StartsAsLaidOut, [ToolStep]_allvars
    PROVE  EndInv'
<1> DEFINE Same == UNCHANGED << cpu, storage, halted, answer, loaded >>
<1>1. ASSUME Same
      PROVE  /\ HasHalted' <=> HasHalted
             /\ HasThrown' <=> HasThrown
             /\ AtTheEdge' <=> AtTheEdge
  BY <1>1 DEF HasHalted, HasThrown, AtTheEdge, VM!Fetched, VM!read
<1>2. CASE Assemble
  <2>1. phase' = "tasm"
    BY <1>2 DEF Assemble
  <2> QED BY <2>1 DEF EndInv, ExitTellsWhy
<1>3. CASE TasmExit
  <2>1. phase' = "open" \/ (phase' = "done" /\ exit' = 1)
    BY <1>3 DEF TasmExit
  <2>2. loaded' = loaded /\ phase = "tasm"
    BY <1>3 DEF TasmExit, tvm
  <2> QED BY <2>1, <2>2 DEF EndInv, ExitTellsWhy, ToolInv
<1>4. CASE Open
  <2>1. phase = "open"
    BY <1>4 DEF Open
  <2>2. CASE Loads(file)
    <3>1. phase' = "load" /\ VM!load(Loaded(file))
      BY <1>4, <2>2 DEF Open
    <3>2. answer' # "ImageLoadError"
      BY <3>1 DEF ToolInv
    <3>3. halted' = FALSE
      BY <3>1, <3>2 DEF VM!load, VM!Reject, VM!Accept, VM!reset
    <3> QED BY <3>1, <3>3 DEF EndInv, ExitTellsWhy
  <2>3. CASE ~Loads(file)
    <3>1. phase' = "done" /\ exit' = 1 /\ loaded' = loaded
      BY <1>4, <2>3 DEF Open, tvm
    <3> QED BY <2>1, <3>1 DEF EndInv, ExitTellsWhy, ToolInv
  <2> QED BY <2>2, <2>3
<1>5. CASE LoadTurn
  <2>1. phase = "load" /\ phase' = "load" /\ halted' = halted
    BY <1>5 DEF LoadTurn, VM!LoadTurn, VM!LoadWord, VM!NextSection, VM!SetEntry, VM!machine
  <2> QED BY <2>1 DEF EndInv, ExitTellsWhy
<1>6. CASE Run
  <2>1. phase = "load" /\ phase' = "run" /\ call' = "run" /\ halted' = halted
    BY <1>6 DEF Run, VM!Run, VM!vars
  <2> QED BY <2>1 DEF EndInv, ExitTellsWhy
<1>7. CASE RunTurn
  <2>1. phase = "run" /\ phase' = "run" /\ call = "run"
    BY <1>7 DEF RunTurn, VM!RunTurn
  <2>2. CASE halted
    <3>1. HasHalted /\ answer' = "ok" /\ call' = "none" /\ UNCHANGED << cpu, storage, halted >>
      BY <1>7, <2>1, <2>2 DEF RunTurn, VM!RunTurn, VM!machine, EndInv
    <3>2. HasHalted'
      BY <3>1 DEF HasHalted, VM!Fetched, VM!read
    <3> QED BY <2>1, <3>1, <3>2 DEF EndInv, ExitTellsWhy
  <2>3. CASE ~halted
    <3>1. VM!step /\ call' = IF answer' = "ok" THEN "run" ELSE "none"
      BY <1>7, <2>3 DEF RunTurn, VM!RunTurn
    <3>2. halted = FALSE /\ Compared(cpu)
      BY <2>3 DEF RunInv
    <3>3. /\ answer' = "ok" => halted' = FALSE \/ HasHalted'
          /\ answer' # "ok" => HasThrown'
      BY <3>1, <3>2, StepEnds
    <3> QED BY <2>1, <3>1, <3>3 DEF EndInv, ExitTellsWhy
  <2> QED BY <2>2, <2>3
<1>8. CASE TvmExit
  <2>1. /\ call = "none" /\ phase \in {"run", "load"} /\ (phase = "load" => answer # "ok")
        /\ phase' = "done" /\ exit' = IF answer = "ok" THEN 0 ELSE 1
        /\ Same
    BY <1>8 DEF TvmExit, tvm
  <2>2. phase = "run"
    BY <2>1 DEF StartsAsLaidOut
  <2>3. loaded.sections # << >>
    BY <2>2 DEF ToolInv
  <2>4. IF answer = "ok" THEN HasHalted ELSE HasThrown
    BY <2>1, <2>2 DEF EndInv
  <2>5. CASE answer = "ok"
    <3>1. exit' = 0 /\ HasHalted'
      BY <1>1, <2>1, <2>4, <2>5
    <3> QED BY <2>1, <2>3, <3>1 DEF EndInv, ExitTellsWhy, HasHalted
  <2>6. CASE answer # "ok"
    <3>1. exit' = 1 /\ HasThrown'
      BY <1>1, <2>1, <2>4, <2>6
    <3> QED BY <2>1, <3>1 DEF EndInv, ExitTellsWhy, HasThrown
  <2> QED BY <2>5, <2>6
<1>9. CASE UNCHANGED allvars
  <2>1. Same /\ UNCHANGED << phase, exit, call >>
    BY <1>9 DEF allvars, tvm
  <2>2. VM!Fetched' = VM!Fetched
    BY <2>1 DEF VM!Fetched, VM!read
  <2> QED BY <1>1, <2>1, <2>2 DEF EndInv, ExitTellsWhy
<1> QED BY <1>2, <1>3, <1>4, <1>5, <1>6, <1>7, <1>8, <1>9 DEF ToolStep

\* The exit status of tvm tells how the program ended, for every program, width and file
\* that tasm writes.
THEOREM ToolsExit == ToolSpec => []ExitTellsWhy
<1> DEFINE I == AsmInv /\ ToolInv /\ RunInv /\ EndInv
<1>1. StartTools => I
  <2> SUFFICES ASSUME StartTools PROVE I
    OBVIOUS
  <2>1. AsmInv /\ ToolInv /\ RunInv
    BY ToolInvInit, RunInvInit
  <2>2. EndInv
    BY DEF StartTools, EndInv, ExitTellsWhy
  <2> QED BY <2>1, <2>2
<1>2. I /\ StartsAsLaidOut /\ [ToolStep]_allvars => I'
  <2> SUFFICES ASSUME I, StartsAsLaidOut, [ToolStep]_allvars PROVE I'
    OBVIOUS
  <2>1. AsmInv' /\ ToolInv'
    BY ToolInvStep
  <2>2. RunInv'
    BY RunInvStep
  <2>3. EndInv'
    BY <2>1, EndInvStep
  <2> QED BY <2>1, <2>2, <2>3
<1>3. I => ExitTellsWhy
  BY DEF EndInv
<1> HIDE DEF I
<1> QED BY <1>1, <1>2, <1>3, ToolsStart, PTL DEF ToolSpec
=============================================================================
