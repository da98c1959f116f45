CONSTANTS
  Half = 4
  Factors = {1, 2, 4}
SPECIFICATION Spec
INVARIANT SignedComparisonsDecided
