---------------------------- MODULE MCProcedures ----------------------------
(* Procedures with words of four two-bit bytes: 256 addresses, a ROM of eight
   bytes, and a RAM with a word of global data below five words of stack. *)
EXTENDS Procedures

CONSTANTS rom, ram

RomAndRam == <<NewSlice(0, 8, rom, TRUE), NewSlice(64, 24, ram, FALSE)>>

Narrow(op, T) == [Plain EXCEPT !.op = op, !.T = T]
Wide(op, T) == [Narrow(op, T) EXCEPT !.wide = TRUE]
List(i, base, list) == [i EXCEPT !.Rn = base, !.register_list = list]

(* r1 and r4 to and from [r0 ...] in every encoding. *)
Scaled == {"ldr_imm", "str_imm"}   (* T2 of these is one more with a scaled offset *)
Immediates ==
  LET ops == {"ldr_imm", "str_imm", "ldrb_imm", "strb_imm", "ldrh_imm", "strh_imm"}
  IN {[Narrow(op, 1) EXCEPT !.Rt = 1, !.imm = 1] : op \in ops}
       \cup {[Wide(op, IF op \in Scaled THEN 3 ELSE 2) EXCEPT !.Rt = 4, !.imm = 2] : op \in ops}

Indexeds ==
  {[Wide(op, 4) EXCEPT !.Rt = 1, !.imm = 1, !.P = p, !.U = u, !.W = w] :
     op \in {"ldr_imm", "str_imm", "ldrb_imm", "strb_imm", "ldrd_imm", "strd_imm"},
     p \in BOOLEAN, u \in BOOLEAN, w \in BOOLEAN}

Duals == {[i EXCEPT !.Rtx = 4] : i \in {j \in Indexeds : j.op \in {"ldrd_imm", "strd_imm"}}}

Others == Indexeds \ {i \in Indexeds : i.op \in {"ldrd_imm", "strd_imm"}}

ByIndex ==
  {[Wide(op, 2) EXCEPT !.Rt = 1, !.Rm = 4, !.imm = n] :
     op \in {"ldr_reg", "str_reg", "ldrb_reg", "strb_reg"}, n \in {0, 1}}

Literals == {[Wide("ldr_lit", 2) EXCEPT !.Rt = 1, !.imm = 2, !.U = u] : u \in BOOLEAN}
              \cup {[Narrow("ldr_lit", 1) EXCEPT !.Rt = 1, !.imm = 0]}

Lists ==
  {List(Narrow(op, 1), 0, {1}) : op \in {"ldm", "stm"}}
    \cup {[List(Wide(op, 2), 0, list) EXCEPT !.W = w] :
            op \in {"ldm", "stm", "stmdb"}, list \in {{0}, {1, 4}}, w \in BOOLEAN}
    \cup {List(Narrow(op, 1), 0, {0, 1, 4}) : op \in {"ldm", "stm"}}

(* The transfers that procedures make: a word to and from a moving pointer. *)
SomeTransfers ==
  {[i EXCEPT !.Rt = 4] : i \in {j \in Indexeds : j.op \in {"str_imm", "ldr_imm"} /\ ~j.P /\ j.W /\ j.U}}

EveryTransfer == Immediates \cup Others \cup Duals \cup ByIndex \cup Literals \cup Lists \cup SomeTransfers

(* The bound on overflown stacks: nothing is promised from there on. *)
StackFits == fits

SomePushes ==
  {List(Narrow("push", 1), REG_SP, {4, 14}), List(Wide("push", 2), REG_SP, {14}),
   [List(Wide("stmdb", 1), REG_SP, {4, 14}) EXCEPT !.W = TRUE]}

SomePops ==
  {List(Narrow("pop", 1), REG_SP, {4, 15}), List(Wide("pop", 2), REG_SP, {4, 14}),
   List(Wide("pop", 3), REG_SP, {15}),
   [List(Wide("ldm", 2), REG_SP, {4, 15}) EXCEPT !.W = TRUE]}
=============================================================================
