------------------------------ MODULE MCCpuCm3 ------------------------------
(* CpuCm3 for TLC: the memory may hold any of the instructions at any address,
   so that a behaviour is any sequence of instructions. *)
EXTENDS CpuCm3

CONSTANTS ItConds, ItMasks, BranchConds

Insn(op, len) == [op |-> op, length |-> len, flags |-> "keep", writes_lr |-> FALSE]

PlainInsns ==
  {[Insn("plain", 4) EXCEPT !.flags = f, !.writes_lr = w] : f \in FlagUses, w \in BOOLEAN}
    \cup {Insn("plain", 2), Insn("bkpt", 2), Insn("undecodable", 0)}

ItInsns ==
  {[firstcond |-> c, mask |-> m, op |-> "it", length |-> 2, flags |-> "keep",
    writes_lr |-> FALSE] : c \in ItConds, m \in ItMasks}

Relative(op, len, imm, bits) ==
  [imm |-> imm, bits |-> bits, cond |-> CONDITION_EQ, op |-> op, length |-> len,
   flags |-> "keep", writes_lr |-> FALSE]

BranchInsns ==
  {[Relative("b_cond", 2, imm, 8) EXCEPT !.cond = c] : imm \in {1, 254}, c \in BranchConds}
    \cup {[Relative("b_cond_wide", 4, imm, 1) EXCEPT !.cond = c] : imm \in {1, -2}, c \in BranchConds}
    \cup {Relative("b", 2, 2047, 11), Relative("cbnz", 2, 1, 7), Relative("bl", 4, -3, 1)}
    \cup {Insn("bx_lr", 2), Insn("bx", 2), Insn("tbb", 4), Insn("ldr_lit_pc", 4)}
    \cup {[Insn("load_pc", 2) EXCEPT !.writes_lr = w] : w \in BOOLEAN}
    \cup {[Insn("write_pc", 2) EXCEPT !.flags = f] : f \in {"keep", "set"}}

AllInsns == PlainInsns \cup ItInsns \cup BranchInsns

AnyProgram == [a \in Address |-> AllInsns]

TwoFlags == {NoFlags, [NoFlags EXCEPT !.z = TRUE]}
=============================================================================
