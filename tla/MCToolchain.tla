---------------------------- MODULE MCToolchain ----------------------------
(***************************************************************************)
(* Words of 11 trits, a cargo of two: numbers up to 4 fit an instruction.  *)
(***************************************************************************)
EXTENDS Toolchain, SourceText

Halt == Ins("HLT", << >>)

Opening == << Section("text"), Label("_start"), Ins("LDI", << Reg(1), Imm(3) >>),
              Ins("LDI", << Reg(2), Imm(-4) >>) >>
Closing == << Label("a"), Halt >>

Straight ==
    {Ins(m, << Reg(3), Reg(2), Reg(1) >>) : m \in ThreeRegister}
    \cup {Ins(m, << Reg(1), Reg(2) >>) : m \in TwoRegister \cup {"CMP"}}
    \cup {Ins("CMP", << Reg(2), Reg(1) >>), Ins("CMP", << Reg(3), Reg(8) >>),
           Ins("LD", << Reg(3), Mem(2, 4) >>), Ins("LEA", << Reg(5), Mem(1, -2) >>),
           Ins("ST", << Mem(1, 4), Reg(2) >>), Ins("ST", << Mem(2, 3), Reg(1) >>),
           Ins("NOP", << >>), Halt, Ins("SYS", << >>), Ins("OUT", << Reg(1), Imm(2) >>)}

Forward == {Ins(m, << Sym("a") >>) : m \in Branches}

Ending ==
    {Opening \o << i, j >> \o Closing : i, j \in Straight \cup Forward}
    \cup {
    \* a loop that counts R1 down from 3
    Opening \o << Ins("LDI", << Reg(2), Imm(1) >>), Label("a"), Ins("SUB", << Reg(1), Reg(1), Reg(2) >>),
                  Ins("CMP", << Reg(1), Reg(3) >>), Ins("BGT", << Sym("a") >>), Halt >>,
    \* a subroutine called twice, which calls another one
    << Section("text"), Label("_start"), Ins("CALL", << Sym("a") >>), Ins("CALL", << Sym("a") >>), Halt,
       Label("a"), Ins("CALL", << Sym("b") >>), Ins("RET", << >>),
       Label("b"), Ins("INC", << >>) >>,
    << Section("text"), Label("_start"), Ins("CALL", << Sym("a") >>), Ins("CALL", << Sym("a") >>), Halt,
       Label("a"), Ins("CALL", << Sym("b") >>), Ins("RET", << >>),
       Label("b"), Ins("CMP", << Reg(1), Reg(2) >>), Ins("RET", << >>) >>}

\* programs that jump in circles, return from nowhere, run past their end or
\* overwrite themselves
Circles ==
    {<< Section("text"), Label("_start"), Label("a") >> \o code :
        code \in {<< Ins("JMP", << Sym("a") >>) >>, << Ins("RET", << >>) >>, << Ins("NOP", << >>) >>,
                  << Ins("LDI", << Reg(1), Imm(1) >>), Ins("ST", << Mem(1, 2), Reg(1) >>), Halt, Halt >>}}

\* where labels, code and directives may stand
Placings ==
    LET parts == {Section("text"), Section("data"), Section("bss"), Label("_start"), Label("a"), Halt}
    IN  UNION {[1 .. n -> parts] : n \in 2 .. 4}

Layouts == {p \in Placings : p[1].kind = "section" /\ Label("_start") \in {p[k] : k \in DOMAIN p}}

MCEndless == {Text(p) : p \in Circles}
MCInputs  == {Text(p) : p \in Ending \cup Circles \cup Layouts} \X {0}

Names == << "_start", "a", "b" >>
=============================================================================
