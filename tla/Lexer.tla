------------------------------- MODULE Lexer -------------------------------
(***************************************************************************)
(* Lexer::tokenize (src/src/assembler/lexer.hpp).  A text is a sequence of *)
(* pieces, the runs of characters the lexer takes at once: names, digits,  *)
(* blanks, and single characters.  Lines and columns serve messages only   *)
(* and are left out.                                                       *)
(***************************************************************************)
EXTENDS Integers, Sequences

CONSTANT LLONG_MAX   \* where std::stoll throws std::out_of_range

ASSUME LexerAssumption == LLONG_MAX \in Nat

Name(text) == [piece |-> "name", text |-> text]
Digits(n)  == [piece |-> "digits", number |-> n]
Char(c)    == [piece |-> c]

Blank   == Char(" ")
Newline == Char("newline")
Other   == Char("other")   \* a character no token starts with

Punctuation == {":", ",", "[", "]", "+", "-", "."}

PieceKind == Punctuation \cup {"name", "digits", " ", "newline", ";", "other"}

\* a sequence of pieces; digits denote natural numbers
IsText(s) ==
    /\ s \in Seq({s[i] : i \in DOMAIN s})
    /\ \A i \in DOMAIN s :
          s[i].piece \in PieceKind /\ (s[i].piece = "digits" => s[i].number \in Nat)

\* no run of name characters or of digits is cut in two
Maximal(text) ==
    \A i \in 1 .. Len(text) - 1 :
        /\ text[i].piece = "name" => text[i + 1].piece \notin {"name", "digits"}
        /\ text[i].piece = "digits" => text[i + 1].piece # "digits"

\* Digits directly behind '-' belong to it
Negative(text, i) == i > 1 /\ text[i - 1].piece = "-"

\* a semicolon hides the rest of its line
Commented(text, i) ==
    \E j \in 1 .. i : text[j].piece = ";" /\ \A k \in j .. i : text[k].piece # "newline"

NumberOf(text, i) == IF Negative(text, i) THEN -text[i].number ELSE text[i].number

RegisterName ==
    [R0 |-> 0, R1 |-> 1, R2 |-> 2, R3 |-> 3, R4 |-> 4, R5 |-> 5, R6 |-> 6, R7 |-> 7, R8 |-> 8,
     r0 |-> 0, r1 |-> 1, r2 |-> 2, r3 |-> 3, r4 |-> 4, r5 |-> 5, r6 |-> 6, r7 |-> 7, r8 |-> 8]

NameToken(text) ==
    IF text \in DOMAIN RegisterName THEN [kind |-> "Register", index |-> RegisterName[text]]
                                    ELSE [kind |-> "Identifier", text |-> text]

\* the tokens that start at a piece: one or none
TokensOf(text, i) ==
    LET piece == text[i].piece
        sign  == piece = "-" /\ i < Len(text) /\ text[i + 1].piece = "digits"
    IN  IF Commented(text, i) \/ piece \in {" ", "other"} \/ sign THEN << >>
        ELSE CASE piece = "newline" -> << [kind |-> "Newline"] >>
               [] piece = "name"    -> << NameToken(text[i].text) >>
               [] piece = "digits"  -> << [kind |-> "Number", number |-> NumberOf(text, i)] >>
               [] OTHER             -> << [kind |-> piece] >>

tokenize(text) ==
    LET made[i \in 0 .. Len(text)] == IF i = 0 THEN << >> ELSE made[i - 1] \o TokensOf(text, i)
    IN  Append(made[Len(text)], [kind |-> "EndOfFile"])

\* tokenize does not throw LexError
Lexes(text) ==
    \A i \in DOMAIN text :
        ~Commented(text, i) =>
            /\ text[i].piece # "other"
            /\ text[i].piece = "digits" => NumberOf(text, i) \in -LLONG_MAX - 1 .. LLONG_MAX
=============================================================================
