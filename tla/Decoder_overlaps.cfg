CONSTANT Opcodes <- MCOpcodes
SPECIFICATION Spec
CHECK_DEADLOCK FALSE
INVARIANTS LengthMatchesFirstHalfword NextHalfwordIrrelevant SpecialCasesFirst ImmediatesReadBack
