------------------------------- MODULE Listing -------------------------------
(***************************************************************************)
(* What a reader of the disassembled program expects of its loads and      *)
(* stores.  Listed is what impl_disassembly.c prints of an instruction's   *)
(* operands: [rn, #o], [rn, #o]!, [rn], #o, [rn, rm, lsl #s], or a base    *)
(* and a list of registers.  AsListed is the usual reading of that         *)
(* notation: which address is accessed, which registers move, and what     *)
(* becomes of the base; it knows nothing of loops and encodings.           *)
(***************************************************************************)
EXTENDS Transfers

(* The operand notations. *)
Offsetted(base, offset) == [base |-> base, offset |-> offset, index |-> -1, lsl |-> 0, mode |-> "offset"]
PreIndexed(base, offset) == [Offsetted(base, offset) EXCEPT !.mode = "pre"]
PostIndexed(base, offset) == [Offsetted(base, offset) EXCEPT !.mode = "post"]
ByRegister(base, index, lsl) == [Offsetted(base, 0) EXCEPT !.index = index, !.lsl = lsl]
RegList(base, list, down, update) == [base |-> base, list |-> list, down |-> down, update |-> update]

(* imm with P, U and W, as the disassembler spells it for one register. *)
ListedIndexed(i) ==
  LET offset == IF i.U THEN i.imm ELSE -i.imm
  IN IF ~i.P THEN PostIndexed(i.Rn, offset)
     ELSE IF i.W THEN PreIndexed(i.Rn, offset)
     ELSE Offsetted(i.Rn, offset)

ListedLdm(i) ==
  RegList(i.Rn, i.register_list, FALSE, IF i.T = 1 THEN i.Rn \notin i.register_list ELSE i.W)

ListedLdr(i) ==
  CASE i.op = "ldr_imm" /\ i.T \in {1, 2} -> Offsetted(i.Rn, 4 * i.imm)
    [] i.op = "ldr_imm" /\ i.T \in {3, 4} -> ListedIndexed(i)
    [] i.op = "ldr_lit" /\ i.T = 1 -> Offsetted(REG_PC, 4 * i.imm)
    [] i.op = "ldr_lit" /\ i.T = 2 -> Offsetted(REG_PC, IF i.U THEN i.imm ELSE -i.imm)
    [] i.op = "ldr_reg" -> ByRegister(i.Rn, i.Rm, i.imm)

ListedLdrb(i) == IF i.op = "ldrb_imm" THEN ListedIndexed(i) ELSE ByRegister(i.Rn, i.Rm, i.imm)

(* No "!" is printed. *)
ListedLdrd(i) ==
  LET offset == IF i.U THEN 4 * i.imm ELSE -4 * i.imm
  IN IF i.P THEN Offsetted(i.Rn, offset) ELSE PostIndexed(i.Rn, offset)

ListedLdrh(i) == Offsetted(i.Rn, (IF i.T = 1 THEN 2 ELSE 1) * i.imm)

ListedStack(i) == RegList(REG_SP, i.register_list, i.op = "push", TRUE)

(* stmdb has a "!" always. *)
ListedStm(i) == RegList(i.Rn, i.register_list, i.op = "stmdb", i.op = "stmdb" \/ i.T = 1 \/ i.W)

ListedStr(i) ==
  CASE i.op = "str_imm" /\ i.T \in {1, 2} -> Offsetted(i.Rn, 4 * i.imm)
    [] i.op = "str_imm" /\ i.T \in {3, 4} -> ListedIndexed(i)
    [] i.op = "str_reg" -> ByRegister(i.Rn, i.Rm, i.imm)
    [] i.op = "strb_imm" -> ListedIndexed(i)
    [] i.op = "strb_reg" -> ByRegister(i.Rn, i.Rm, i.imm)
    [] i.op = "strh_imm" -> Offsetted(i.Rn, (IF i.T = 1 THEN 2 ELSE 1) * i.imm)

(* P, U and W are not printed. *)
ListedStrd(i) == Offsetted(i.Rn, 4 * i.imm)

Listed(i) ==
  CASE i.op = "ldm" -> ListedLdm(i)
    [] i.op \in {"ldr_imm", "ldr_lit", "ldr_reg"} -> ListedLdr(i)
    [] i.op \in {"ldrb_imm", "ldrb_reg"} -> ListedLdrb(i)
    [] i.op = "ldrd_imm" -> ListedLdrd(i)
    [] i.op = "ldrh_imm" -> ListedLdrh(i)
    [] i.op \in {"push", "pop"} -> ListedStack(i)
    [] i.op \in {"stm", "stmdb"} -> ListedStm(i)
    [] i.op = "strd_imm" -> ListedStrd(i)
    [] OTHER -> ListedStr(i)

Blocks == {"ldm", "pop", "push", "stm", "stmdb"}
Loads == {"ldm", "pop", "ldr_imm", "ldr_lit", "ldr_reg", "ldrb_imm", "ldrb_reg", "ldrd_imm", "ldrh_imm"}
Stores == {"push", "stm", "stmdb", "str_imm", "str_reg", "strb_imm", "strb_reg", "strd_imm", "strh_imm"}

(* The operands decode_insn passes.  The handlers that have fewer get them filled up:
   P, U and W are TRUE, TRUE and FALSE where the encoding has none.  A load by
   the pc has an encoding of its own. *)
HasPUW(i) ==
  \/ i.op \in {"ldrb_imm", "ldrd_imm", "strb_imm", "strd_imm"}
  \/ i.op \in {"ldr_imm", "str_imm"} /\ i.T \in {3, 4}
Decoded(i) ==
  /\ i.op \in Loads \cup Stores /\ i.T \in 1 .. 4
  /\ {i.Rt, i.Rtx, i.Rn, i.Rm} \cup i.register_list \subseteq Registers
  /\ i.imm \in Nat /\ {i.wide, i.P, i.U, i.W} \subseteq BOOLEAN
  /\ i.op \in Blocks => (i.wide <=> i.T # 1 \/ i.op = "stmdb")
  /\ i.op \in {"ldrd_imm", "strd_imm"} => i.wide
  /\ i.op \in {"ldrh_imm", "strh_imm"} => i.T \in {1, 2}   (* T3 is not implemented *)
  /\ i.op = "ldr_lit" => i.T = 2 \/ (i.T = 1 /\ i.U)
  /\ i.op \in {"ldr_reg", "ldrb_reg", "str_reg", "strb_reg"} => i.imm \in 0 .. 3
  /\ i.op \notin Blocks \cup {"ldr_lit"} => i.Rn # REG_PC /\ (HasPUW(i) \/ (i.P /\ i.U /\ ~i.W))

(* The mnemonic tells the width: ldrb, ldrh, everything else. *)
Width(i) ==
  IF i.op \in {"ldrb_imm", "ldrb_reg", "strb_imm", "strb_reg"} THEN 1
  ELSE IF i.op \in {"ldrh_imm", "strh_imm"} THEN 2
  ELSE 4

------------------------------------------------------------------------------
(* The reading of the notations. *)

(* pc stands for the aligned address of the instruction after the next. *)
Base(l) == IF l.base = REG_PC THEN reg[REG_PC] - (reg[REG_PC] % 4) + 4 ELSE reg[l.base]
Named(l) == Base(l) + IF l.index = -1 THEN l.offset ELSE reg[l.index] * 2 ^ l.lsl
Accessed(l) == Word(IF l.mode = "post" THEN Base(l) ELSE Named(l))

(* The lowest register of a list is at the lowest address; "ia" starts at the
   base, "db" ends below it. *)
Lowest(l) == Word(IF l.down THEN reg[l.base] - 4 * Cardinality(l.list) ELSE reg[l.base])
Slot(l, r) == Word(Lowest(l) + 4 * Cardinality({q \in l.list : q < r}))
Beyond(l) == Word(IF l.down THEN Lowest(l) ELSE reg[l.base] + 4 * Cardinality(l.list))

BlockAsListed(i, l) ==
  LET loads == i.op \in {"ldm", "pop"}
      loaded(r) == IF r = REG_PC THEN Even(read_n(Slot(l, r), 4)) ELSE read_n(Slot(l, r), 4)
      covers(r, s, k) ==   (* the word for r is granted, and byte k of slice s is in it *)
        /\ Machine[s].begin + k - Slot(l, r) \in 0 .. 3
        /\ getslice(Machine, Slot(l, r), 4) = s /\ ~Machine[s].read_only
      stored(s, k) ==
        LET by == {r \in l.list : covers(r, s, k)}
        IN IF by = {} THEN mem[s][k]
           ELSE LET r == CHOOSE r \in by : TRUE IN ByteOf(reg[r], Machine[s].begin + k - Slot(l, r))
      next == [r \in Registers |->
                 IF loads /\ r \in l.list THEN loaded(r)
                 ELSE IF l.update /\ r = l.base THEN Beyond(l)
                 ELSE reg[r]]
  IN Outcome(next,
             IF loads THEN mem ELSE [s \in DOMAIN mem |-> [k \in DOMAIN mem[s] |-> stored(s, k)]],
             ~(loads /\ REG_PC \in l.list), Length(i))

SingleAsListed(i, l) ==
  LET a == Accessed(l)
      dual == i.op \in {"ldrd_imm", "strd_imm"}
      next == [r \in Registers |->
                 IF i.op \in Loads /\ r = i.Rt THEN read_n(a, Width(i))
                 ELSE IF i.op \in Loads /\ dual /\ r = i.Rtx THEN read_n(Word(a + 4), 4)
                 ELSE IF l.mode # "offset" /\ r = l.base THEN Word(Named(l))
                 ELSE reg[r]]
      first == write_n(mem, a, Width(i), reg[i.Rt])
  IN Outcome(next,
             IF i.op \in Loads THEN mem
             ELSE IF dual THEN write_n(first, Word(a + 4), 4, reg[i.Rtx])
             ELSE first,
             TRUE, Length(i))

AsListed(i) ==
  IF i.op \in Blocks THEN BlockAsListed(i, Listed(i)) ELSE SingleAsListed(i, Listed(i))

(* The addresses a reader sees i access. *)
Start(i) == IF i.op \in Blocks THEN Lowest(Listed(i)) ELSE Accessed(Listed(i))
Extent(i) ==
  IF i.op \in Blocks THEN 4 * Cardinality(i.register_list)
  ELSE IF i.op \in {"ldrd_imm", "strd_imm"} THEN 8
  ELSE Width(i)
Footprint(i) == {Word(Start(i) + k) : k \in 0 .. Extent(i) - 1}

(* What the architecture manual leaves open, so that no listing means anything:
   a base that is updated and also transferred, two loads into one register,
   loads into the pc that are not in a list, accesses past the top of memory. *)
Lawful(i) ==
  /\ Start(i) + Extent(i) <= AddrMod
  /\ IF i.op \in Blocks
     THEN LET l == Listed(i)
          IN l.update /\ l.base \in l.list
               => (i.op \in {"stm", "push"} /\ \A r \in l.list : l.base <= r)
     ELSE /\ i.Rt # REG_PC
          /\ i.W => i.Rn \notin {i.Rt, i.Rtx}
          /\ ~i.P => i.W
          /\ i.op = "ldrd_imm" => i.Rt # i.Rtx

(* What the disassembler leaves out or adds: the "!" of ldrd, the direction and
   the writeback of strd, the "!" that stmdb has not. *)
Misprinted(i) ==
  \/ i.op = "ldrd_imm" /\ i.P /\ i.W
  \/ i.op = "strd_imm" /\ ~(i.P /\ i.U /\ ~i.W)
  \/ i.op = "stmdb" /\ ~i.W

ByteByRegister(i) == i.op \in {"ldrb_reg", "strb_reg"} /\ i.imm # 0
==============================================================================
