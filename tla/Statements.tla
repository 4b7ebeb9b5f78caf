----------------------------- MODULE Statements -----------------------------
(***************************************************************************)
(* What the parser hands to the passes of the assembler                    *)
(* (src/src/assembler/ir.hpp), and what the semantic analysis asks of it   *)
(* (semantic.hpp). Names are values: the lexer only makes identifiers that *)
(* is_valid_identifier accepts, and register operands R0 to R8, so the     *)
(* checks of both always pass and are left out.                            *)
(***************************************************************************)
EXTENDS Integers, Sequences

\* the members of the variant Operand
Reg(index)        == [kind |-> "register", index |-> index]
Imm(value)        == [kind |-> "immediate", value |-> value]
Sym(name)         == [kind |-> "symbol", name |-> name]
Mem(base, offset) == [kind |-> "memory", base |-> base, offset |-> offset]

\* the members of the variant Statement
Section(name) == [kind |-> "section", name |-> name]
Global(name)  == [kind |-> "global", name |-> name]
Label(name)   == [kind |-> "label", name |-> name]
Ins(mnemonic, operands) ==
    [kind |-> "instruction", mnemonic |-> mnemonic, operands |-> operands]

ZeroOperand   == {"NOP", "RET", "SYS", "IRET", "SWAP", "HLT"}
TwoRegister   == {"TNOT", "MOV"}
ThreeRegister == {"ADD", "SUB", "MUL", "TAND", "TOR", "TXOR", "SHF"}
InOut         == {"IN", "OUT"}
Branches      == {"JMP", "BEQ", "BGT", "BLT", "CALL"}

\* the mnemonics of the table
Mnemonic == ZeroOperand \cup ThreeRegister \cup TwoRegister \cup InOut \cup Branches
                \cup {"CMP", "LDI", "LD", "LEA", "ST"}

\* the table of operand kinds, by mnemonic
INSTRUCTION_SIGNATURES ==
    [m \in Mnemonic |->
        CASE m \in ZeroOperand           -> << >>
          [] m \in ThreeRegister         -> << "register", "register", "register" >>
          [] m \in TwoRegister \cup {"CMP"} -> << "register", "register" >>
          [] m \in InOut \cup {"LDI"}     -> << "register", "immediate" >>
          [] m \in {"LD", "LEA"}         -> << "register", "memory" >>
          [] m = "ST"                    -> << "memory", "register" >>
          [] m \in Branches              -> << "symbol" >>]

\* analyze_value of an instruction; the other statements always pass
analyze(statement) ==
    statement.kind = "instruction" =>
        /\ statement.mnemonic \in Mnemonic
        /\ [k \in DOMAIN statement.operands |-> statement.operands[k].kind]
                = INSTRUCTION_SIGNATURES[statement.mnemonic]
=============================================================================
