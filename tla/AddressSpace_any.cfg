CONSTANTS
  rom = rom
  ram = ram
  dev = dev
  AddrMod = 6
  MAX_ADDRESS_SLICES = 3
  Buffers = {rom, ram, dev}
  Bytes = {0, 1}
  Lengths = {1, 2, 4}
  Regions <- AnyRegions
  Images <- OneImage
SPECIFICATION Spec
CHECK_DEADLOCK FALSE
INVARIANTS TypeOK GrantedInBuffer WideAgreesWithBytes RegionsReachable
PROPERTIES ResolutionStable 
VIEW WithoutAnswer
