---------------------------- MODULE Instruction ----------------------------
(***************************************************************************)
(* The instruction format of src/src/ternary/instruction.hpp: three trits  *)
(* of opcode, three two-trit registers, and the rest of the word as cargo. *)
(* Opcodes are written by name; Mnemonics gives the enum's order.          *)
(***************************************************************************)
EXTENDS TernaryWord, Sequences

RD_OFFSET    == 3
RS1_OFFSET   == 5
RS2_OFFSET   == 7
CARGO_OFFSET == 9

\* 18 in the code
CARGO_WIDTH == WIDTH - CARGO_OFFSET

ASSUME FormatAssumption == WIDTH >= CARGO_OFFSET

\* enum class Opcode from NOP = -13 to HLT = 13
Mnemonics == << "NOP", "ADD", "SUB", "MUL", "CMP", "TAND", "TOR", "TXOR", "TNOT",
                "SHF", "LDI", "MOV", "LD", "ST", "LEA", "JMP", "BEQ", "BGT",
                "BLT", "CALL", "RET", "IN", "OUT", "SYS", "IRET", "SWAP", "HLT" >>

Opcode   == {Mnemonics[k] : k \in 1 .. 27}
Register == 0 .. 8
CargoIndex == 0 .. CARGO_WIDTH - 1

REGISTER_ENCODING == [reg \in Register |-> << (reg \div 3) - 1, (reg % 3) - 1 >>]

\* mutant: the two trits are read in the wrong order
DecodeRegisterSwapped(t, offset) ==
    CHOOSE reg \in Register : REGISTER_ENCODING[reg] = << t[offset + 1], t[offset] >>

\* decode_register: the row of the table that holds the two trits
decode_register(t, offset) ==
    CHOOSE reg \in Register : REGISTER_ENCODING[reg] = << t[offset], t[offset + 1] >>

\* decode_balanced over the three opcode trits
opcode(t) == Mnemonics[9 * t[0] + 3 * t[1] + t[2] + 14]

\* the cargo trits as a signed number, the loop of to_integer from CARGO_OFFSET on
immediate(t) == to_integer([i \in TritIndex |-> IF i < CARGO_OFFSET THEN 0 ELSE t[i]])

\* decode and the accessors the executor calls on its result
decode(word) ==
    LET t == from_integer(word)
    IN  [opcode    |-> opcode(t),
         rd        |-> decode_register(t, RD_OFFSET),
         rs1       |-> decode_register(t, RS1_OFFSET),
         rs2       |-> decode_register(t, RS2_OFFSET),
         immediate |-> immediate(t)]

\* set_opcode: the loop of from_integer on three trits
OpcodeTrits(op) ==
    LET value == (CHOOSE k \in 1 .. 27 : Mnemonics[k] = op) - 14
    IN  << LowTrit(Shifted(Shifted(value))), LowTrit(Shifted(value)), LowTrit(value) >>

\* encode: the four fields and the cargo, laid out most significant trit first
encode(op, rd, rs1, rs2, cargo) ==
    LET head == OpcodeTrits(op) \o REGISTER_ENCODING[rd]
                    \o REGISTER_ENCODING[rs1] \o REGISTER_ENCODING[rs2]
    IN  to_integer([i \in TritIndex |-> IF i < CARGO_OFFSET THEN head[i + 1]
                                        ELSE cargo[i - CARGO_OFFSET]])
=============================================================================
