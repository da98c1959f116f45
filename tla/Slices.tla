------------------------------- MODULE Slices -------------------------------
(***************************************************************************)
(* The lookup of address_space.c: which slice of an array of slices an     *)
(* access of a given length is granted from.  A slice is a record with the *)
(* fields begin and end of struct address_slice_t, its buffer (data) and   *)
(* read_only.  Addresses are uint32_t: all address arithmetic is modulo    *)
(* AddrMod (2^32 in the program).                                          *)
(***************************************************************************)
EXTENDS Integers, Sequences

CONSTANT AddrMod   (* How many addresses there are. *)

ASSUME AddrModAssumption == AddrMod \in Nat \ {0}

Address == 0 .. AddrMod - 1

(* The fields addrspace_add_region stores. *)
NewSlice(start_addr, length, data, read_only) ==
  [begin |-> start_addr, end |-> (start_addr + length) % AddrMod,
   data |-> data, read_only |-> read_only]

(* The length a slice was added with. *)
SliceLength(s) == (s.end - s.begin) % AddrMod

Matches_PastEnd(s, address, length) ==   (* <= for < *)
  address >= s.begin /\ (address + length - 1) % AddrMod <= s.end
Matches_FirstByte(s, address, length) ==   (* the length is not looked at *)
  address >= s.begin /\ address < s.end
Matches_Inside(s, address, length) ==   (* > for >= *)
  address > s.begin /\ (address + length - 1) % AddrMod < s.end

(* The condition of the loop in addrspace_getslice; address + length - 1 is
   computed in uint32_t. *)
Matches(s, address, length) ==
  /\ address >= s.begin
  /\ (address + length - 1) % AddrMod < s.end

Hits(ss, address, length) == {i \in DOMAIN ss : Matches(ss[i], address, length)}

getslice_Last(ss, address, length) ==   (* the loop runs on after a hit *)
  LET hits == Hits(ss, address, length)
  IN IF hits = {} THEN 0 ELSE CHOOSE i \in hits : \A j \in hits : i >= j

(* The index of the first slice that matches, 0 when there is none. *)
getslice(ss, address, length) ==
  LET hits == Hits(ss, address, length)
  IN IF hits = {} THEN 0 ELSE CHOOSE i \in hits : \A j \in hits : i <= j

(* Where in its buffer an access through slice s starts. *)
SliceOffset(s, address) == address - s.begin

(* The access lies wholly inside the memory the region was added with. *)
InSlice(s, address, length) == SliceOffset(s, address) + length <= SliceLength(s)
=============================================================================
