CONSTANT Opcodes <- MCOpcodes
SPECIFICATION Spec
CHECK_DEADLOCK FALSE
INVARIANT CallsAreDecoded
