---------------------------- MODULE AddressSpace ----------------------------
(***************************************************************************)
(* The guest's address space (address_space.c): an array of at most        *)
(* MAX_ADDRESS_SLICES slices, each a window of the guest's addresses onto  *)
(* a buffer of the host.  A region is added by the host; the emulated      *)
(* instructions read and write 1, 2 or 4 bytes; the host may ask for a     *)
(* pointer to a range.  Every lookup takes the FIRST slice that matches.   *)
(*                                                                         *)
(* Addresses are uint32_t: all address arithmetic is modulo AddrMod (2^32  *)
(* in the program).  A value is the sequence of its bytes, lowest first.   *)
(* The field shadow_mapping, which only the memory dump looks at, and the  *)
(* name of a slice, which is only printed, are left out.                   *)
(***************************************************************************)
EXTENDS Slices

CONSTANTS
  MAX_ADDRESS_SLICES,  (* The size of the slices array.                     *)
  Lengths,             (* The lengths of an access: 1, 2 and 4 bytes.       *)
  Buffers,             (* The host's buffers.                               *)
  Regions,             (* The regions the host may add.                     *)
  Bytes,               (* The values of a byte; 0 is one of them.           *)
  Images               (* What the host's buffers may hold at the start.    *)

ASSUME LengthsAssumption == Lengths \subseteq 1 .. AddrMod
ASSUME MaxSlicesAssumption == MAX_ADDRESS_SLICES \in Nat \ {0}
ASSUME BytesAssumption == 0 \in Bytes
ASSUME ImagesAssumption == Images \subseteq [Buffers -> [Address -> Bytes]]
ASSUME RegionsAssumption ==
  Regions \subseteq [start_addr : Address, length : Address,
                     data : Buffers, read_only : BOOLEAN]

VARIABLES
  slices,  (* the slices in use, in the order they were added; Len is slice_cnt *)
  mem,     (* the bytes of each buffer                                          *)
  status,  (* "running", "exit" after exit(EXIT_FAILURE), "fault" after a       *)
           (* dereference outside a buffer that the host's kernel refused       *)
  resp     (* what the last operation returned                                  *)

vars == <<slices, mem, status, resp>>

Slice == [begin : Address, end : Address, data : Buffers, read_only : BOOLEAN]

(* Every offset a buffer could have; what lies past the regions mapped onto it
   is never looked at. *)
BufferOffsets == Address

Memory == [Buffers -> [BufferOffsets -> Bytes]]

------------------------------------------------------------------------------
(* Where in its buffer an access through slice i starts. *)
Offset(i, address) == SliceOffset(slices[i], address)

(* The access lies wholly inside the memory the region was added with. *)
InBuffer(i, address, length) == InSlice(slices[i], address, length)

Zero(length) == [k \in 1 .. length |-> 0]

------------------------------------------------------------------------------
Init ==
  /\ slices = <<>>
  /\ mem \in Images
  /\ status = "running"
  /\ resp = [op |-> "init"]

add_region_Unchecked(r) ==   (* no look at slice_cnt *)
  /\ status = "running"
  /\ slices' = Append(slices, NewSlice(r.start_addr, r.length, r.data, r.read_only))
  /\ resp' = [op |-> "add"]
  /\ UNCHANGED <<mem, status>>

(* addrspace_add_region: no check of the range, only of the room in the array. *)
add_region(r) ==
  /\ status = "running"
  /\ IF Len(slices) = MAX_ADDRESS_SLICES
       THEN /\ status' = "exit"
            /\ UNCHANGED slices
       ELSE /\ slices' = Append(slices,
                 NewSlice(r.start_addr, r.length, r.data, r.read_only))
            /\ UNCHANGED status
  /\ resp' = [op |-> "add"]
  /\ UNCHANGED mem

(* addrspace_read_n: an unmapped read reports and yields 0.  A granted access
   that leaves its buffer is undefined: any bytes, or a fault of the host. *)
read_n(address, length) ==
  LET i == getslice(slices, address, length)
      Reply(v) == resp' = [op |-> "read", address |-> address, value |-> v]
  IN /\ status = "running"
     /\ \/ i = 0 /\ Reply(Zero(length)) /\ UNCHANGED status
        \/ /\ i # 0 /\ InBuffer(i, address, length)
           /\ Reply([k \in 1 .. length |->
                       mem[slices[i].data][Offset(i, address) + k - 1]])
           /\ UNCHANGED status
        \/ /\ i # 0 /\ ~InBuffer(i, address, length)
           /\ \/ (\E v \in [1 .. length -> Bytes] : Reply(v)) /\ UNCHANGED status
              \/ status' = "fault" /\ UNCHANGED resp
     /\ UNCHANGED <<slices, mem>>

write_n_Unprotected(address, value) ==   (* read_only is not looked at *)
  LET i == getslice(slices, address, Len(value))
      o == Offset(i, address)
      Store == [k \in BufferOffsets |->
                  IF k \in o .. o + Len(value) - 1 THEN value[k - o + 1]
                                                    ELSE mem[slices[i].data][k]]
  IN /\ status = "running"
     /\ mem' = IF i # 0 /\ InBuffer(i, address, Len(value))
                 THEN [mem EXCEPT ![slices[i].data] = Store] ELSE mem
     /\ resp' = [op |-> "write", address |-> address, value |-> value]
     /\ UNCHANGED <<slices, status>>

(* addrspace_write_n: ignored, with a message, when the slice is read-only or
   there is none.  A write that leaves its buffer lands in memory of the host
   that is no part of the model, or faults. *)
write_n(address, value) ==
  LET length == Len(value)
      i == getslice(slices, address, length)
      o == Offset(i, address)
      Store == [k \in BufferOffsets |->
                  IF k \in o .. o + length - 1 THEN value[k - o + 1]
                                               ELSE mem[slices[i].data][k]]
  IN /\ status = "running"
     /\ \/ i = 0 /\ UNCHANGED <<mem, status>>
        \/ i # 0 /\ slices[i].read_only /\ UNCHANGED <<mem, status>>
        \/ /\ i # 0 /\ ~slices[i].read_only /\ InBuffer(i, address, length)
           /\ mem' = [mem EXCEPT ![slices[i].data] = Store]
           /\ UNCHANGED status
        \/ /\ i # 0 /\ ~slices[i].read_only /\ ~InBuffer(i, address, length)
           /\ status' \in {"running", "fault"}
           /\ UNCHANGED mem
     /\ resp' = [op |-> "write", address |-> address, value |-> value]
     /\ UNCHANGED slices

(* addrspace_memptr: a pointer into a buffer, or NULL, whatever the slice's
   read_only says. *)
memptr(address, length) ==
  LET i == getslice(slices, address, length)
  IN /\ status = "running"
     /\ resp' = IF i = 0
                  THEN [op |-> "null", address |-> address, length |-> length]
                  ELSE [op |-> "ptr", address |-> address, length |-> length,
                        data |-> slices[i].data,
                        offset |-> Offset(i, address)]
     /\ UNCHANGED <<slices, mem, status>>

AddRegion == \E r \in Regions : add_region(r)
Read == \E a \in Address, n \in Lengths : read_n(a, n)
Write == \E a \in Address, n \in Lengths : \E v \in [1 .. n -> Bytes] : write_n(a, v)
MemPtr == \E a \in Address, n \in Address : memptr(a, n)

Next == AddRegion \/ Read \/ Write \/ MemPtr

Spec == Init /\ [][Next]_vars

------------------------------------------------------------------------------
(* Type correctness; with it, the slices array is never overrun
   (addrspace_add_region checks for room before it stores). *)
TypeOK ==
  /\ slices \in Seq(Slice)
  /\ Len(slices) <= MAX_ADDRESS_SLICES
  /\ mem \in Memory
  /\ status \in {"running", "exit", "fault"}

(* Memory safety of the lookup in addrspace_getslice: whatever regions were
   added, also ones that run past the top of the address space, an access that
   is granted lies inside the buffer of the slice it is granted from, unless
   the access itself runs past the top of the address space. *)
GrantedInBuffer ==
  \A a, n \in Address :
    (getslice(slices, a, n) # 0 /\ a + n <= AddrMod) => InBuffer(getslice(slices, a, n), a, n)

(* Slice s covers address a. *)
Covers(s, a) == s.begin <= a /\ a < s.end

Disjoint ==
  \A i, j \in DOMAIN slices :
    i # j => \A a \in Address : ~(Covers(slices[i], a) /\ Covers(slices[j], a))

(* Coherence of wide and narrow accesses: as long as no two slices overlap, an
   access of several bytes is granted from the slice that a byte access to each
   of its addresses is granted from.  Nothing in address_space.c looks at two
   slices together, so this is what the first-match loop has to give. *)
WideAgreesWithBytes ==
  Disjoint =>
    \A a, n \in Address :
      (getslice(slices, a, n) # 0 /\ n > 0 /\ a + n <= AddrMod)
        => \A k \in 0 .. n - 1 : getslice(slices, a + k, 1) = getslice(slices, a, n)

EndsBelowTop(s) == s.begin + SliceLength(s) < AddrMod

(* What becomes of every byte of every region, by the start and the length the region
   was added with.  Of a region that ends below the top of the address space each one
   is readable from the moment it was added, from this region or an earlier one that
   shadows it.  A region that reaches the top or runs past it has an end of 0 or less
   than its begin: not one of its bytes, the first included, is ever found in it. *)
RegionsReachable ==
  \A i \in DOMAIN slices : \A k \in 0 .. SliceLength(slices[i]) - 1 :
    LET found == getslice(slices, (slices[i].begin + k) % AddrMod, 1)
    IN IF EndsBelowTop(slices[i]) THEN found \in 1 .. i ELSE found # i

(* Adding a region never changes what an address resolves to once it resolves:
   earlier slices keep precedence over later ones. *)
ResolutionStable ==
  [][\A a, n \in Address : getslice(slices, a, n) # 0 => getslice(slices, a, n)' = getslice(slices, a, n)]_vars

(* The byte that each address names. *)
Where ==
  [a \in Address |->
     LET i == getslice(slices, a, 1)
     IN IF i = 0
          THEN [bank |-> "unmapped"]
          ELSE [bank |-> slices[i].data, offset |-> Offset(i, a),
                read_only |-> slices[i].read_only]]

Proper == Disjoint /\ \A i \in DOMAIN slices : slices[i].begin <= slices[i].end

(* What the address space implements. *)
Flat == INSTANCE FlatMemory WITH
  Banks <- Buffers, where <- Where, store <- mem, proper <- Proper

(* As long as the regions do not overlap or run past the top, the slices behave
   as the flat memory of FlatMemory: nothing an instruction or the host can
   observe tells the first-match lookup, the window arithmetic and the separate
   buffers apart from it. *)
ImplementsFlatMemory == Flat!Spec
==============================================================================
