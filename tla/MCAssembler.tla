---------------------------- MODULE MCAssembler ----------------------------
(***************************************************************************)
(* Words of 11 trits, a cargo of two: numbers up to 4 fit an instruction.  *)
(***************************************************************************)
EXTENDS Assembler, SourceText

Alphabet == {
    Section("text"), Section("data"), Section("bss"), Section("code"),
    Label("_start"), Label("a"), Global("a"),
    Ins("HLT", << >>), Ins("JMP", << Sym("a") >>), Ins("CALL", << Sym("_start") >>),
    Ins("ST", << Mem(2, 4), Reg(7) >>), Ins("LDI", << Reg(1), Imm(5) >>),
    Ins("LDI", << Reg(1), Sym("a") >>) }

Programs(lengths) == UNION {[1 .. n -> Alphabet] : n \in lengths}

\* the other shapes of instruction, and one statement the analysis rejects
Instructions1 == {
    Ins("ADD", << Reg(0), Reg(4), Reg(8) >>), Ins("CMP", << Reg(3), Reg(8) >>),
    Ins("MOV", << Reg(6), Reg(1) >>), Ins("LD", << Reg(0), Mem(8, -4) >>),
    Ins("OUT", << Reg(5), Imm(-4) >>), Ins("NOP", << Reg(0) >>), Ins("INC", << Reg(0) >>) }

Opening == << Section("text"), Label("_start") >>

Halts(n) == [k \in 1 .. n |-> Ins("HLT", << >>)]

\* branches over n words, forward and backward; all four sections, in an
\* order of their own
Distant == {Opening \o << Ins("JMP", << Sym("a") >>) >> \o Halts(n) \o << Label("a") >> :
                n \in 2 .. 5}
           \cup {Opening \o Halts(n) \o << Ins("CALL", << Sym("_start") >>) >> : n \in 3 .. 5}
Scattered == {<< Section("rodata"), Section("bss"), Label("a"), Section("text") >> \o p
                 \o << Section("data"), Label("b"), Global("_start") >> :
                     p \in {<< Label("_start"), Ins("HLT", << >>) >>,
                            << Ins("HLT", << >>), Label("_start"), Ins("BEQ", << Sym("b") >>) >>}}

AllPrograms == Programs(0 .. 2) \cup {Opening \o p : p \in Programs(0 .. 3)}
               \cup {Opening \o << i >> : i \in Instructions1} \cup Distant \cup Scattered

-----------------------------------------------------------------------------
\* beginnings of lines with every continuation by up to three pieces
Pieces == {Name("a"), Name("section"), Name("global"), Name("R1"), Digits(5), Digits(LLONG_MAX + 1)}
          \cup {Char(c) : c \in Punctuation \cup {" ", "newline", ";", "other"}}

Beginnings == {<< >>, << Name("ADD"), Blank, Name("R1"), Char(",") >>,
               << Name("LD"), Blank, Name("r1"), Char(","), Char("["), Name("R2") >>,
               << Name("LD"), Blank, Name("r1"), Char(","), Char("["), Name("R2"), Char("-"), Blank >>}

Continued == {text \in {b \o c : b \in Beginnings, c \in UNION {[1 .. n -> Pieces] : n \in 0 .. 3}} :
                  Maximal(text)}

\* the least number behind a minus sign
LeastOffset == << Name("LEA"), Blank, Name("R1"), Char(","), Char("["), Name("R2"), Char("-"), Blank,
                  Char("-"), Digits(LLONG_MAX + 1), Char("]") >>

\* a program that would assemble, and a last line that is none
BadEnding == {Text(Opening \o << Ins("HLT", << >>) >>) \o ending :
                  ending \in {<< Digits(1) >>, << Name("HLT"), Char(":"), Char(":") >>,
                              << Name("ADD"), Blank, Name("R1"), Char(",") >>}}

Names == << "HLT", "_start", "a", "b", "global", "section" >>

\* The parser puts no limit on a list of operands.
LongList == Text(Opening \o << Ins("ADD", [k \in 1 .. 6 |-> IF k = 3 THEN Mem(k, -k) ELSE Reg(k)]) >>)

MCInputs == {Text(p) : p \in AllPrograms} \X {MIN_VALUE, 0, MAX_VALUE - 1}
            \cup (Continued \cup BadEnding \cup {LeastOffset, LongList}) \X {0}
=============================================================================
