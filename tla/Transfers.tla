------------------------------ MODULE Transfers ------------------------------
(***************************************************************************)
(* The loads and stores of impl_emulation.c by value: single, dual and     *)
(* block transfers between the registers and the memory behind the slices, *)
(* with the instructions that compiled code needs around them (bl, bx, b,  *)
(* mov, and moving the stack pointer).                                     *)
(*                                                                         *)
(* A word has four bytes of Radix values each (256 in the program), and    *)
(* there are as many addresses as words.  An instruction is a record: its  *)
(* handler family (op), the encoding (T), and the operands decode_insn     *)
(* passes; the bits P and M of block transfers are 15 and 14 in            *)
(* register_list, and the base of the SP-relative forms is in Rn.  It is   *)
(* decoded, and no IT block skips it: CpuCm3 has both.  Accesses past the  *)
(* top of the address space are in AddressSpace.                           *)
(***************************************************************************)
EXTENDS Slices, FiniteSets

CONSTANTS
  Radix,     (* The number of values of a byte.                              *)
  Machine,   (* The slices; each of them has a buffer of its own.            *)
  Registers  (* The registers in use, by number.                             *)

REG_SP == 13
REG_LR == 14
REG_PC == 15

ASSUME RadixAssumption == Radix \in Nat \ {0} /\ AddrMod = Radix * Radix * Radix * Radix
ASSUME RegistersAssumption ==
  {REG_SP, REG_LR, REG_PC} \subseteq Registers /\ Registers \subseteq 0 .. 15

ASSUME MachineAssumption ==
  /\ Len(Machine) \in Nat /\ DOMAIN Machine = 1 .. Len(Machine)
  /\ \A s \in 1 .. Len(Machine) :
       {Machine[s].begin, Machine[s].end} \subseteq Address /\ Machine[s].read_only \in BOOLEAN

VARIABLES
  reg,  (* cpu.reg                                                            *)
  mem   (* the bytes of the buffer behind each slice                          *)

transfer_vars == <<reg, mem>>

Word(v) == v % AddrMod
Even(v) == v - (v % 2)

------------------------------------------------------------------------------
(* A little-endian value of 1, 2 or 4 bytes, and the bytes of a value. *)
ValueOf(byte, n) ==
  CASE n = 1 -> byte[0]
    [] n = 2 -> byte[1] * Radix + byte[0]
    [] n = 4 -> ((byte[3] * Radix + byte[2]) * Radix + byte[1]) * Radix + byte[0]

ByteOf(v, k) ==
  (v \div CASE k = 0 -> 1 [] k = 1 -> Radix [] k = 2 -> Radix * Radix [] k = 3 -> Radix * Radix * Radix) % Radix

(* addrspace_read8, read16 and read32: n is 1, 2 or 4. *)
read_n(address, n) ==
  LET s == getslice(Machine, address, n)
  IN IF s = 0 THEN 0
     ELSE ValueOf([k \in 0 .. n - 1 |-> mem[s][SliceOffset(Machine[s], address) + k]], n)

PutBytes_Unmasked(buffer, o, n, v) ==   (* a byte keeps the bits above it *)
  [k \in DOMAIN buffer |-> IF k = o THEN v ELSE IF k \in o + 1 .. o + n - 1 THEN ByteOf(v, k - o) ELSE buffer[k]]

(* The n low bytes of v, from offset o on. *)
PutBytes(buffer, o, n, v) ==
  [k \in DOMAIN buffer |-> IF k \in o .. o + n - 1 THEN ByteOf(v, k - o) ELSE buffer[k]]

(* addrspace_write8, write16 and write32 on the memory m. *)
write_n(m, address, n, v) ==
  LET s == getslice(Machine, address, n)
  IN IF s # 0 /\ ~Machine[s].read_only
       THEN [m EXCEPT ![s] = PutBytes(@, SliceOffset(Machine[s], address), n, v)]
       ELSE m

(* What a step leaves behind: advance_pc says whether the pc still moves on by
   the length of the instruction. *)
Outcome(r, m, advance_pc, length) ==
  [reg |-> IF advance_pc THEN [r EXCEPT ![REG_PC] = Word(@ + length)] ELSE r, mem |-> m]

------------------------------------------------------------------------------
(* The local variable addr of the loops over register_list: what it is after each
   round, upwards from r0 or downwards from r15. *)
addresses(base, list, up) ==
  LET addr[i \in 0 .. 16] ==
        IF i = 0 THEN reg[base]
        ELSE IF (IF up THEN i - 1 ELSE 16 - i) \in list THEN Word(addr[i - 1] + (IF up THEN 4 ELSE -4))
        ELSE addr[i - 1]
  IN addr

storeRegisters_PostDecrement(base, list, increment_after, writeback, length) ==
  LET regNo(i) == IF increment_after THEN i ELSE 15 - i
      addr == addresses(base, list, increment_after)
      after[i \in 0 .. 16] ==
        IF i = 0 THEN mem
        ELSE IF regNo(i - 1) \in list
          THEN write_n(after[i - 1], addr[i - 1], 4, reg[regNo(i - 1)])
        ELSE after[i - 1]
  IN Outcome(IF writeback THEN [reg EXCEPT ![base] = addr[16]] ELSE reg, after[16], TRUE, length)

(* storeRegisters: upwards from the lowest register, or downwards from the
   highest one.  The address moves behind a store upwards, before it downwards. *)
storeRegisters(base, list, increment_after, writeback, length) ==
  LET regNo(i) == IF increment_after THEN i ELSE 15 - i
      addr == addresses(base, list, increment_after)
      after[i \in 0 .. 16] ==
        IF i = 0 THEN mem
        ELSE IF regNo(i - 1) \in list
          THEN write_n(after[i - 1], addr[IF increment_after THEN i - 1 ELSE i], 4, reg[regNo(i - 1)])
        ELSE after[i - 1]
  IN Outcome(IF writeback THEN [reg EXCEPT ![base] = addr[16]] ELSE reg, after[16], TRUE, length)

LoadedInto(r, value) == IF r = REG_PC THEN Even(value) ELSE value

(* loadRegisters: always upwards; bit 0 of a pc is dropped.  The writeback comes
   last, also over a base that was loaded. *)
loadRegisters(base, list, writeback, length) ==
  LET addr == addresses(base, list, TRUE)
      after[i \in 0 .. 16] ==
        IF i = 0 THEN reg
        ELSE IF i - 1 \in list
          THEN [after[i - 1] EXCEPT ![i - 1] = LoadedInto(i - 1, read_n(addr[i - 1], 4))]
        ELSE after[i - 1]
  IN Outcome(IF writeback THEN [after[16] EXCEPT ![base] = addr[16]] ELSE after[16],
             mem, REG_PC \notin list, length)

ldm(i) ==
  IF i.T = 1 THEN loadRegisters(i.Rn, i.register_list, i.Rn \notin i.register_list, 2)
             ELSE loadRegisters(i.Rn, i.register_list, i.W, 4)

pop_OneKept(i) ==   (* pop_T3 leaves the stack pointer *)
  loadRegisters(REG_SP, i.register_list, i.T # 3, IF i.T = 1 THEN 2 ELSE 4)

pop(i) ==   (* pop_T1, pop_T2, and pop_T3 with one register *)
  loadRegisters(REG_SP, i.register_list, TRUE, IF i.T = 1 THEN 2 ELSE 4)

push(i) == storeRegisters(REG_SP, i.register_list, FALSE, TRUE, IF i.T = 1 THEN 2 ELSE 4)

stm(i) == storeRegisters(i.Rn, i.register_list, TRUE, i.T = 1 \/ i.W, IF i.T = 1 THEN 2 ELSE 4)

stmdb(i) == storeRegisters(i.Rn, i.register_list, FALSE, i.W, 4)

------------------------------------------------------------------------------
(* Single transfers.  Offset is what a writeback adds to the base, Indexed what
   the address has of it: nothing when P is clear.  In an encoding without P, U
   and W they are TRUE, TRUE and FALSE. *)
Offset(i, scale) == IF i.U THEN scale * i.imm ELSE -scale * i.imm
Indexed_Always(i, scale) == Offset(i, scale)   (* P not looked at *)
Indexed(i, scale) == IF i.P THEN Offset(i, scale) ELSE 0

Writeback(r, i, scale) == IF i.W THEN [r EXCEPT ![i.Rn] = Word(@ + Offset(i, scale))] ELSE r

Length(i) == IF i.wide THEN 4 ELSE 2

(* One register to or from memory at target, then the writeback: it reads the
   base again, which a load may just have replaced. *)
Load(i, target, n, scale) ==
  Outcome(Writeback([reg EXCEPT ![i.Rt] = read_n(Word(target), n)], i, scale), mem, TRUE, Length(i))
Store(i, target, n, scale) ==
  Outcome(Writeback(reg, i, scale), write_n(mem, Word(target), n, reg[i.Rt]), TRUE, Length(i))

(* The 16-bit encodings scale their immediate by the size of the access. *)
ldr_imm(i) ==
  IF i.T \in {1, 2} THEN Load(i, reg[i.Rn] + 4 * i.imm, 4, 4)
                    ELSE Load(i, reg[i.Rn] + Indexed(i, 1), 4, 1)

(* The literal loads leave a pc they have loaded as it is. *)
ldr_lit(i) ==
  LET target == (reg[REG_PC] - (reg[REG_PC] % 4)) + Offset(i, IF i.T = 1 THEN 4 ELSE 1) + 4
  IN Outcome([reg EXCEPT ![i.Rt] = read_n(Word(target), 4)], mem, i.Rt # REG_PC, Length(i))

ldr_reg(i) == Load(i, reg[i.Rn] + reg[i.Rm] * 2 ^ i.imm, 4, 1)

ldrb_imm(i) == Load(i, reg[i.Rn] + Indexed(i, 1), 1, 1)

(* ldrb_reg_T2 shifts the byte it has read, not the index. *)
ldrb_reg(i) ==
  Outcome([reg EXCEPT ![i.Rt] = Word(read_n(Word(reg[i.Rn] + reg[i.Rm]), 1) * 2 ^ i.imm)],
          mem, TRUE, Length(i))

ldrd_imm(i) ==
  LET target == reg[i.Rn] + Indexed(i, 4)
      first == [reg EXCEPT ![i.Rt] = read_n(Word(target), 4)]
      both == [first EXCEPT ![i.Rtx] = read_n(Word(target + 4), 4)]
  IN Outcome(Writeback(both, i, 4), mem, TRUE, 4)

ldrh_imm(i) == Load(i, reg[i.Rn] + (IF i.T = 1 THEN 2 ELSE 1) * i.imm, 2, 1)

str_imm(i) ==
  IF i.T \in {1, 2} THEN Store(i, reg[i.Rn] + 4 * i.imm, 4, 4)
                    ELSE Store(i, reg[i.Rn] + Indexed(i, 1), 4, 1)

str_reg(i) == Store(i, reg[i.Rn] + reg[i.Rm] * 2 ^ i.imm, 4, 1)

strb_imm(i) == Store(i, reg[i.Rn] + Indexed(i, 1), 1, 1)

(* strb_reg_T2 adds the shift to the address. *)
strb_reg(i) == Store(i, reg[i.Rn] + reg[i.Rm] + i.imm, 1, 1)

strd_imm(i) ==
  LET target == reg[i.Rn] + Indexed(i, 4)
  IN Outcome(Writeback(reg, i, 4),
             write_n(write_n(mem, Word(target), 4, reg[i.Rt]), Word(target + 4), 4, reg[i.Rtx]),
             TRUE, 4)

strh_imm(i) == Store(i, reg[i.Rn] + (IF i.T = 1 THEN 2 ELSE 1) * i.imm, 2, 1)

------------------------------------------------------------------------------
(* What stands between them in compiled code. *)
mov_imm(i) == Outcome([reg EXCEPT ![i.Rt] = i.imm], mem, TRUE, Length(i))
add_SP(i) == Outcome([reg EXCEPT ![REG_SP] = Word(@ + 4 * i.imm)], mem, TRUE, 2)
sub_SP(i) == Outcome([reg EXCEPT ![REG_SP] = Word(@ - 4 * i.imm)], mem, TRUE, 2)
bl(i) ==
  Outcome([reg EXCEPT ![REG_LR] = Even(Word(reg[REG_PC] + 4)) + 1,
                      ![REG_PC] = Word(@ + 2 * i.imm + 4)], mem, FALSE, 4)
b(i) == Outcome([reg EXCEPT ![REG_PC] = Word(@ + 2 * i.imm + 4)], mem, FALSE, 4)
bx(i) == Outcome([reg EXCEPT ![REG_PC] = Even(reg[i.Rm])], mem, FALSE, 2)

(* The handler of instruction i and the end of its step. *)
Executed(i) ==
  CASE i.op = "ldm" -> ldm(i) [] i.op = "pop" -> pop(i) [] i.op = "push" -> push(i)
    [] i.op = "stm" -> stm(i) [] i.op = "stmdb" -> stmdb(i)
    [] i.op = "ldr_imm" -> ldr_imm(i) [] i.op = "ldr_lit" -> ldr_lit(i)
    [] i.op = "ldr_reg" -> ldr_reg(i) [] i.op = "ldrb_imm" -> ldrb_imm(i)
    [] i.op = "ldrb_reg" -> ldrb_reg(i) [] i.op = "ldrd_imm" -> ldrd_imm(i)
    [] i.op = "ldrh_imm" -> ldrh_imm(i) [] i.op = "str_imm" -> str_imm(i)
    [] i.op = "str_reg" -> str_reg(i) [] i.op = "strb_imm" -> strb_imm(i)
    [] i.op = "strb_reg" -> strb_reg(i) [] i.op = "strd_imm" -> strd_imm(i)
    [] i.op = "strh_imm" -> strh_imm(i) [] i.op = "mov_imm" -> mov_imm(i)
    [] i.op = "add_SP" -> add_SP(i) [] i.op = "sub_SP" -> sub_SP(i)
    [] i.op = "bl" -> bl(i) [] i.op = "b" -> b(i) [] i.op = "bx" -> bx(i)

Execute(i) == \E after \in {Executed(i)} : reg' = after.reg /\ mem' = after.mem
==============================================================================
