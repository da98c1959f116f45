CONSTANTS
  PcMod = 4
  CtrMod = 2
  FlagValues <- TwoFlags
  Insns <- AllInsns
  Program <- AnyProgram
  NestedIt = TRUE
  HostMayReset = TRUE
  ItConds = {0, 1, 14, 15}
  ItMasks = {0, 1, 4, 6, 8, 11, 13}
  BranchConds = {0, 14}
SPECIFICATION Spec
INVARIANTS TypeOK ItStateWellFormed
PROPERTIES OddPcOnlyByDataWrites UndecodableIsTrap ImplementsItBlock
