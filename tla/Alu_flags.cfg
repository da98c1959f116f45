CONSTANTS
  Half = 4
  Factors = {1, 2, 4}
SPECIFICATION Spec
INVARIANTS TypeOK UnsignedComparisonsDecided SumsDecided
PROPERTY LongAddition
