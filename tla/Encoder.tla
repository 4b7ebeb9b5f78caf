------------------------------ MODULE Encoder ------------------------------
(***************************************************************************)
(* The encoder of src/src/assembler/encoder.hpp: an analysed instruction,  *)
(* whose branch target is already an immediate, becomes a word.            *)
(***************************************************************************)
EXTENDS Statements, Instruction

\* mutant: an immediate too wide for the cargo is cut off
CargoFitsAlways(value) == TRUE

\* make_cargo does not throw: nothing is left after the loop
CargoFits(value) == Remaining(value)[CARGO_WIDTH] = 0

\* make_cargo, when it does not throw
make_cargo(value) ==
    [i \in CargoIndex |-> LowTrit(Remaining(value)[CARGO_WIDTH - 1 - i])]

Fields(rd, rs1, rs2, cargo) == [rd |-> rd, rs1 |-> rs1, rs2 |-> rs2, cargo |-> cargo]

\* the register fields and the number for the cargo, by the shape of the
\* instruction: encode_zero_operand to encode_io
FieldsOf(mnemonic, operands) ==
    CASE mnemonic \in ZeroOperand      -> Fields(0, 0, 0, 0)
      [] mnemonic \in InOut \cup {"LDI"} -> Fields(operands[1].index, 0, 0, operands[2].value)
      [] mnemonic = "CMP"              -> Fields(0, operands[1].index, operands[2].index, 0)
      [] mnemonic \in TwoRegister      -> Fields(operands[1].index, operands[2].index, 0, 0)
      [] mnemonic \in ThreeRegister    ->
             Fields(operands[1].index, operands[2].index, operands[3].index, 0)
      [] mnemonic = "ST"               ->
             Fields(0, operands[2].index, operands[1].base, operands[1].offset)
      [] mnemonic \in {"LD", "LEA"}    ->
             Fields(operands[1].index, operands[2].base, 0, operands[2].offset)
      [] mnemonic \in Branches         -> Fields(0, 0, 0, operands[1].value)

\* FALSE is EncodingError
Encodable(mnemonic, operands) == CargoFits(FieldsOf(mnemonic, operands).cargo)

encode_instruction(mnemonic, operands) ==
    LET f == FieldsOf(mnemonic, operands)
    IN  encode(mnemonic, f.rd, f.rs1, f.rs2, make_cargo(f.cargo))
=============================================================================
