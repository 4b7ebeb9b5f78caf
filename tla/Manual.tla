------------------------------- MODULE Manual ------------------------------
(***************************************************************************)
(* What the programmer's manual (src/docs/TASM_MANUAL.md, 3.1 and 3.3)     *)
(* says about the texts TASM accepts, as a property of the assembler. Its  *)
(* language is that of Grammar, which is narrower.                         *)
(***************************************************************************)
EXTENDS Assembler

\* the passes up to the analysis take the text
Accepts(text) ==
    LET t == tokenize(text)
    IN  \A p \in Starts(t) : Grammatical(t, p) /\ analyze(parse_statement(t, p).value)

Respelled(text, old, new) == [i \in DOMAIN text |-> IF text[i] = old THEN new ELSE text[i]]

\* a blank for the line break behind a label
OnOneLine(text) ==
    [i \in DOMAIN text |->
        IF text[i] = Newline /\ i > 1 /\ text[i - 1] = Char(":") THEN Blank ELSE text[i]]

\* no blank between a minus and its number
Tightened(text) ==
    LET kept == SelectSeq([i \in DOMAIN text |-> i],
                    LAMBDA i : ~(i > 1 /\ text[i] = Blank /\ text[i - 1] = Char("-")))
    IN  [k \in DOMAIN kept |-> text[kept[k]]]

\* the text with a directive in upper case, a mnemonic in lower case, a label
\* on the line of its instruction, and a blank less: the same program
Variants(text) ==
    << Respelled(text, Name("section"), Name("SECTION")),
       Respelled(text, Name("HLT"), Name("hlt")), OnOneLine(text), Tightened(text) >>

\* "Instruction mnemonics, register names, and directives are case-insensitive"
\* and "Spaces, tabs, and line breaks separate tokens and have no semantic
\* meaning", says the manual, so that every variant of an accepted text is
\* accepted.  Here one of them is enough: the property fails only where each of
\* the four is rejected.
VariantsAreAccepted ==
    LET variants == Variants(source)
    IN  outcome = "ok" /\ (\A k \in DOMAIN variants : variants[k] # source)
            => \E k \in DOMAIN variants : Accepts(variants[k])
=============================================================================
