----------------------------- MODULE SourceText ----------------------------
(***************************************************************************)
(* One way to write each program: upper and lower case registers, blanks,  *)
(* a comment behind each instruction.                                      *)
(***************************************************************************)
EXTENDS Parser

RegisterNames == << "R0", "r1", "R2", "r3", "R4", "r5", "R6", "r7", "R8" >>

NumberText(n) == IF n < 0 THEN << Char("-"), Digits(-n) >> ELSE << Digits(n) >>

OperandText(operand) ==
    CASE operand.kind = "register"  -> << Name(RegisterNames[operand.index + 1]) >>
      [] operand.kind = "immediate" -> NumberText(operand.value)
      [] operand.kind = "symbol"    -> << Name(operand.name) >>
      [] operand.kind = "memory"    ->
             << Char("["), Name(RegisterNames[operand.base + 1]), Blank >>
                 \o (IF operand.offset < 0 THEN << Char("-"), Blank, Digits(-operand.offset) >>
                                           ELSE << Char("+"), Digits(operand.offset) >>)
                 \o << Char("]") >>

\* n parts one behind the other
Chain(n, Part(_)) ==
    LET upto[k \in 0 .. n] == IF k = 0 THEN << >> ELSE upto[k - 1] \o Part(k)
    IN  upto[n]

StatementText(statement) ==
    CASE statement.kind = "label"   -> << Name(statement.name), Char(":"), Newline >>
      [] statement.kind = "section" ->
             << Name("section"), Blank, Char("."), Name(statement.name), Newline >>
      [] statement.kind = "global"  -> << Name("global"), Blank, Name(statement.name), Newline >>
      [] statement.kind = "instruction" ->
             << Name(statement.mnemonic) >>
                 \o Chain(Len(statement.operands),
                          LAMBDA k : << (IF k = 1 THEN Blank ELSE Char(",")) >>
                                         \o OperandText(statement.operands[k]))
                 \o << Blank, Char(";"), Other, Char(":"), Newline >>

Text(statements) == Chain(Len(statements), LAMBDA k : StatementText(statements[k]))
=============================================================================
