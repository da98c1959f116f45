CONSTANTS
  rom = rom
  ram = ram
  Radix = 4
  AddrMod = 256
  Machine <- RomAndRam
  Registers = {0, 1, 4, 13, 14, 15}
  Insns <- EveryTransfer
  DataInsns <- SomeTransfers
  Pushes <- SomePushes
  Pops <- SomePops
  Globals = {64, 65, 66, 67}
  StackTop = 88
  CodeEnd = 2
  Pointer = 64
  Values = {0}
  MaxDepth = 2
  MaxData = 1
SPECIFICATION Spec
INVARIANT IndexedBytesAsListed
CONSTRAINT StackFits
