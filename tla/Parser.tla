------------------------------- MODULE Parser ------------------------------
(***************************************************************************)
(* The functions of the parser (src/src/assembler/parser.hpp), a recursive *)
(* descent over the tokens t.  Each starts at a token p and either throws  *)
(* ParseError, Failed, or returns its value and the token behind it.  The  *)
(* loop that calls them, parse, is a pass of Assembler.                    *)
(***************************************************************************)
EXTENDS Lexer, Statements

Failed               == [ok |-> FALSE]
Returns(value, next) == [ok |-> TRUE, value |-> value, next |-> next]

\* the tokens from p on have these kinds, which are consumed one by one
Consumes(t, p, kinds) ==
    /\ p + Len(kinds) - 1 <= Len(t)
    /\ \A k \in DOMAIN kinds : t[p + k - 1].kind = kinds[k]

EndsStatement(t, p) == t[p].kind \in {"Newline", "EndOfFile"}

\* consume_statement_end behind what was read; the newline is skipped by parse
Ended(t, read) == IF read.ok /\ EndsStatement(t, read.next) THEN read ELSE Failed

\* the negation of the least std::int64_t is undefined; the build leaves it
\* as it is
Negated(n) == IF n = -LLONG_MAX - 1 THEN n ELSE -n

parse_memory_operand(t, p) ==
    CASE Consumes(t, p, << "Register", "]" >>) -> Returns(Mem(t[p].index, 0), p + 2)
      [] Consumes(t, p, << "Register", "+", "Number", "]" >>) ->
             Returns(Mem(t[p].index, t[p + 2].number), p + 4)
      [] Consumes(t, p, << "Register", "-", "Number", "]" >>) ->
             Returns(Mem(t[p].index, Negated(t[p + 2].number)), p + 4)
      [] OTHER -> Failed

parse_operand(t, p) ==
    CASE t[p].kind = "Register"   -> Returns(Reg(t[p].index), p + 1)
      [] t[p].kind = "Number"     -> Returns(Imm(t[p].number), p + 1)
      [] t[p].kind = "Identifier" -> Returns(Sym(t[p].text), p + 1)
      [] t[p].kind = "["          -> parse_memory_operand(t, p + 1)
      [] OTHER                    -> Failed

\* the value of the first, if there is one, in front of those of the rest
Joined(first, rest) == IF rest.ok THEN Returns(<< first >> \o rest.value, rest.next) ELSE Failed

\* one operand or more, with commas between
OperandList(t, start) ==
    LET from[p \in DOMAIN t] ==
            LET operand == parse_operand(t, p)
            IN  CASE ~operand.ok -> Failed
                  [] operand.ok /\ t[operand.next].kind # "," ->
                         Returns(<< operand.value >>, operand.next)
                  [] OTHER -> Joined(operand.value, from[operand.next + 1])
    IN  from[start]

\* mutant: an instruction may follow its label on the same line
parse_label_unended(t, p) == Returns(Label(t[p].text), p + 2)

parse_label(t, p) == Ended(t, Returns(Label(t[p].text), p + 2))

parse_section(t, p) ==
    IF Consumes(t, p + 1, << ".", "Identifier" >>)
    THEN Ended(t, Returns(Section(t[p + 2].text), p + 3)) ELSE Failed

parse_global(t, p) ==
    IF Consumes(t, p + 1, << "Identifier" >>)
    THEN Ended(t, Returns(Global(t[p + 1].text), p + 2)) ELSE Failed

parse_instruction(t, p) ==
    LET list == IF EndsStatement(t, p + 1) THEN Returns(<< >>, p + 1) ELSE OperandList(t, p + 1)
    IN  IF list.ok THEN Ended(t, Returns(Ins(t[p].text, list.value), list.next)) ELSE Failed

parse_statement(t, p) ==
    CASE t[p].kind # "Identifier"                -> Failed
      [] Consumes(t, p, << "Identifier", ":" >>) -> parse_label(t, p)
      [] OTHER -> CASE t[p].text = "section" -> parse_section(t, p)
                    [] t[p].text = "global"  -> parse_global(t, p)
                    [] OTHER                 -> parse_instruction(t, p)
=============================================================================
