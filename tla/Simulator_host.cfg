CONSTANTS
  rom = rom
  ram = ram
  PcMod = 14
  CtrMod = 3
  FlagValues <- OnlyZ
  Insns <- Guest
  Program <- AnyGuest
  NestedIt = FALSE
  HostMayReset = FALSE
  Machine <- RomAndRam
  Calls <- SomeCalls
  Strings = {1, 3, 5}
  PairLength = 2
  Tired = 2
SPECIFICATION SimSpec
CHECK_DEADLOCK FALSE
INVARIANTS SimTypeOK HostTouchesGuestMemoryOnly
PROPERTIES NoStepAfterEnd EndReturns
