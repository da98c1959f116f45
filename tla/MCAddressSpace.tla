--------------------------- MODULE MCAddressSpace ---------------------------
(* AddressSpace with six addresses and three buffers. *)
EXTENDS AddressSpace

CONSTANTS rom, ram, dev

Region(start, len, data, ro) ==
  [start_addr |-> start, length |-> len, data |-> data, read_only |-> ro]

(* A ROM, a RAM right behind it, as init_cortexm adds them, and a device behind
   both; address 5 stays unmapped.  Then a region that overlaps two others, one
   that reaches the top of the address space, one that runs past it, and an
   empty one. *)
AnyRegions == {Region(0, 2, rom, TRUE), Region(2, 2, ram, FALSE), Region(4, 1, dev, FALSE),
               Region(1, 2, dev, FALSE), Region(4, 2, dev, FALSE), Region(4, 4, ram, FALSE),
               Region(1, 0, ram, FALSE)}

Contents(d) ==
  [o \in Address |-> IF d = rom /\ o # 0 THEN 1 ELSE 0]

OneImage == {[d \in {rom, ram, dev} |-> Contents(d)]}

(* The answer to the last access; the invariants do not look at it. *)
WithoutAnswer == <<slices, mem, status>>
==============================================================================
