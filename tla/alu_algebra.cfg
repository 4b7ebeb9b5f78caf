SPECIFICATION AlgebraSpec
CONSTANT WIDTH = 4
INVARIANTS ArithmeticIsModular TritwiseLaws ShiftIsScaling
