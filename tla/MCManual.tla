------------------------------ MODULE MCManual -----------------------------
(* A program in the spelling of the assembler, of which every variant differs. *)
EXTENDS Manual

Program ==
    << Name("section"), Blank, Char("."), Name("text"), Newline,
       Name("_start"), Char(":"), Newline,
       Name("LD"), Blank, Name("R1"), Char(","), Char("["), Name("R2"), Blank,
       Char("-"), Blank, Digits(1), Char("]"), Newline,
       Name("HLT"), Newline >>

Programs == {<< Program, 0 >>}

Names == << "_start" >>
=============================================================================
