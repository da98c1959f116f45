----------------------------- MODULE MCSimulator -----------------------------
(* Simulator with fourteen addresses, a ROM and a RAM, and a guest that is any
   sequence of a few instructions. *)
EXTENDS Simulator

CONSTANTS rom, ram

Rom == Space!NewSlice(2, 4, rom, TRUE)
Ram == Space!NewSlice(8, 4, ram, FALSE)
RomAndRam == <<Rom, Ram>>

Insn(op, len) == [op |-> op, length |-> len, flags |-> "keep", writes_lr |-> FALSE]
Guest ==
  {[imm |-> n, op |-> "bkpt", length |-> 2, flags |-> "keep", writes_lr |-> FALSE] : n \in {1, 255}}
    \cup {[firstcond |-> CONDITION_EQ, mask |-> m, op |-> "it", length |-> 2, flags |-> "keep",
           writes_lr |-> FALSE] : m \in {4, 8}}
    \cup {[Insn("plain", 4) EXCEPT !.flags = "set"], Insn("undecodable", 0)}

AnyGuest == [a \in Address |-> Guest]

(* Each call with pointers below, in, across the end of and above the regions,
   and at the top of the address space; lengths around the pair of integers; a
   number the emulator does not know. *)
SomeCalls ==
  [no : {SYSCALL_GUEST_READ, SYSCALL_GUEST_WRITE}, ptr : {1, 3, 5, 10, 13}, len : {1, 2}]
    \cup [no : {SYSCALL_GUEST_PUTS}, ptr : {2, 6, 13}, len : {0, 2}]
    \cup [no : {SYSCALL_GUEST_EXIT, 4}, ptr : {0}, len : {0}]

OnlyZ == {NoFlags, [NoFlags EXCEPT !.z = TRUE]}
==============================================================================
