------------------------------ MODULE Grammar ------------------------------
(***************************************************************************)
(* The language the parser accepts, without a parser: what lies between    *)
(* two line ends of the tokens t, and how each statement is written.       *)
(* Nothing here reads from left to right; a line is named by the position  *)
(* of its first token, a list of operands by where its commas are.         *)
(***************************************************************************)
EXTENDS Parser, FiniteSets

Ends(t)   == {p \in DOMAIN t : t[p].kind \in {"Newline", "EndOfFile"}}
Starts(t) == {p \in DOMAIN t \ Ends(t) : p = 1 \/ p - 1 \in Ends(t)}

\* the end of the line that starts at p
EndOf(t, p) == CHOOSE e \in Ends(t) : e > p /\ \A f \in Ends(t) : f > p => e <= f

\* which line that is, empty ones not counted
LineNumber(t, p) == Cardinality({s \in Starts(t) : s <= p})

\* the tokens from a on, without b
Between(t, a, b) == [k \in 1 .. b - a |-> t[a + k - 1]]
Shape(line)      == [k \in DOMAIN line |-> line[k].kind]

-----------------------------------------------------------------------------
OperandShapes ==
    {<< "Register" >>, << "Number" >>, << "Identifier" >>, << "[", "Register", "]" >>}
    \cup {<< "[", "Register", sign, "Number", "]" >> : sign \in {"+", "-"}}

Commas(t, q, e) == {c \in q .. e - 1 : t[c].kind = ","}

\* What follows q - 1 and each comma is an operand, up to another comma or e.
IsOperandList(t, q, e) ==
    \A a \in {q - 1} \cup Commas(t, q, e) : \E b \in {e} \cup Commas(t, q, e) :
        a < b /\ Shape(Between(t, a + 1, b)) \in OperandShapes

Grammatical(t, p) ==
    LET e    == EndOf(t, p)
        line == Shape(Between(t, p, e))
    IN  /\ t[p].kind = "Identifier"
        /\ \/ line = << "Identifier", ":" >>
           \/ t[p].text = "section" /\ line = << "Identifier", ".", "Identifier" >>
           \/ t[p].text = "global"  /\ line = << "Identifier", "Identifier" >>
           \/ /\ t[p].text \notin {"section", "global"}
              /\ e = p + 1 \/ IsOperandList(t, p + 1, e)

-----------------------------------------------------------------------------
Id(text)  == [kind |-> "Identifier", text |-> text]
Rn(index) == [kind |-> "Register", index |-> index]
Num(n)    == [kind |-> "Number", number |-> n]
Mark(c)   == [kind |-> c]

MemorySpellings(base, offset) ==
    {<< Mark("["), Rn(base), Mark("+"), Num(offset), Mark("]") >>,
     << Mark("["), Rn(base), Mark("-"), Num(Negated(offset)), Mark("]") >>}
    \cup (IF offset = 0 THEN {<< Mark("["), Rn(base), Mark("]") >>} ELSE {})

OperandSpellings(operand) ==
    CASE operand.kind = "register"  -> {<< Rn(operand.index) >>}
      [] operand.kind = "immediate" -> {<< Num(operand.value) >>}
      [] operand.kind = "symbol"    -> {<< Id(operand.name) >>}
      [] operand.kind = "memory"    -> MemorySpellings(operand.base, operand.offset)

\* the operand behind a, where commas are in C
Nth(C, a) == Cardinality({c \in C : c <= a}) + 1

SpellsOperands(t, q, e, operands) ==
    /\ Len(operands) = Cardinality(Commas(t, q, e)) + 1
    /\ \A a \in {q - 1} \cup Commas(t, q, e) : \E b \in {e} \cup Commas(t, q, e) :
           a < b /\ Between(t, a + 1, b) \in OperandSpellings(operands[Nth(Commas(t, q, e), a)])

\* The line that starts at p says this statement.
Spells(t, p, statement) ==
    LET e    == EndOf(t, p)
        line == Between(t, p, e)
    IN  CASE statement.kind = "label"   -> line = << Id(statement.name), Mark(":") >>
          [] statement.kind = "section" ->
                 line = << Id("section"), Mark("."), Id(statement.name) >>
          [] statement.kind = "global"  -> line = << Id("global"), Id(statement.name) >>
          [] statement.kind = "instruction" ->
                 /\ t[p] = Id(statement.mnemonic)
                 /\ \/ statement.operands = << >> /\ e = p + 1
                    \/ SpellsOperands(t, p + 1, e, statement.operands)
=============================================================================
