------------------------------- MODULE CpuCm3 -------------------------------
(***************************************************************************)
(* One emulated core (cpu_cm3.c with the control part of                   *)
(* impl_emulation.c): fetching by program counter, IT blocks and the flags *)
(* that decide them, the instructions that write the program counter, the  *)
(* instruction counter and the execution bits of the PSR.                  *)
(*                                                                         *)
(* Data is abstract: what an instruction computes, and what memory or a    *)
(* general register holds, is any word.  An instruction is a record with   *)
(* the handler family it belongs to (op), its length, and the operands     *)
(* control depends on.  What the memory holds at an address is a set of    *)
(* instructions, because a program may write its own code.                 *)
(***************************************************************************)
EXTENDS Conditions, Sequences

CONSTANTS
  PcMod,         (* How many addresses there are; 2^32 in the program.        *)
  CtrMod,        (* insn_ctr is a uint32_t: it counts modulo 2^32.            *)
  FlagValues,    (* The flags an instruction may produce.                     *)
  Insns,         (* The instructions.                                         *)
  Program,       (* Which of them the memory may hold at each address.        *)
  NestedIt,      (* Whether programs put an IT inside an IT block, which the  *)
                 (* manual forbids and the emulator does not notice.          *)
  HostMayReset   (* Whether the host calls cpu_reset again later.             *)

Address == 0 .. PcMod - 1

PlainOps == {"plain", "bkpt", "undecodable"}
BranchOps == {"b_cond", "b", "cbnz", "b_cond_wide", "bl", "bx_lr", "bx", "tbb",
              "load_pc", "ldr_lit_pc", "write_pc"}
Ops == PlainOps \cup BranchOps \cup {"it"}

(* What an instruction does to the flags: nothing; sets them; sets them only
   when it is not in an IT block (the 16-bit forms). *)
FlagUses == {"keep", "set", "set_alone"}

ASSUME PcModAssumption == PcMod \in Nat \ {0} /\ PcMod % 2 = 0
ASSUME CtrModAssumption == CtrMod \in Nat \ {0}
ASSUME FlagValuesAssumption == FlagValues \subseteq Flags
ASSUME EnvironmentAssumption == NestedIt \in BOOLEAN /\ HostMayReset \in BOOLEAN
ASSUME InsnsAssumption ==
  \A i \in Insns :
    /\ i.op \in Ops /\ i.flags \in FlagUses /\ i.writes_lr \in BOOLEAN
    /\ (i.op \in {"undecodable", "it"}) => (i.flags = "keep" /\ i.writes_lr = FALSE)
    /\ i.length \in (IF i.op = "undecodable" THEN {0} ELSE {2, 4})
    /\ (i.op = "it") => (i.firstcond \in Conditions /\ i.mask \in 0 .. 15)
    /\ (i.op \in {"b_cond", "b_cond_wide"}) => (i.cond \in Conditions)
    /\ (i.op \in {"b_cond", "b", "cbnz"}) => (i.imm \in Nat /\ i.bits \in {7, 8, 11})
    /\ (i.op \in {"b_cond_wide", "bl"}) => (i.imm \in Int)
ASSUME ProgramAssumption == Program \in [Address -> SUBSET Insns]

VARIABLES
  reg_pc,     (* reg[REG_PC]                                                  *)
  reg_lr,     (* reg[REG_LR]                                                  *)
  flags,      (* the N, Z, C and V of psr                                     *)
  psr_exec,   (* bits 15..8 of psr                                            *)
  it_cond,    (* the condition of the current IT block                        *)
  it_state,   (* a uint8_t with two bits per instruction still due            *)
  insn_ctr,
  last        (* the last instruction, by its op and flags, and whether it ran   *)

cpu_vars == <<reg_pc, reg_lr, flags, psr_exec, it_cond, it_state, insn_ctr, last>>

IT_NONE == 0
IT_THEN == 1
IT_ELSE == 2

------------------------------------------------------------------------------
(* Words. *)
Even(v) == v - (v % 2)
Odd(v) == Even(v) + 1
Word_Wide(x) == x   (* no uint32_t *)
Word(x) == x % PcMod

relative_branch_target(aPC, aImmediate, aImmBits) ==
  IF aImmediate >= 2 ^ (aImmBits - 1)
    THEN Word(aPC - (4 + 2 * (2 ^ aImmBits - aImmediate)) + 8)
    ELSE Word(aPC + 2 * aImmediate + 4)

(* The IT state. *)
Current(state) == state % 4
Shifted(state) == state \div 4
Push_Unbounded(state, entry) == state * 4 + entry   (* no uint8_t *)
Push_OneBit(state, entry) == ((state * 2) % 256) + entry
Push(state, entry) == ((state * 4) % 256) + entry

(* How many further instructions the mask of an IT instruction names: the loop
   stops at the lowest bit set among bits 0 to 2. *)
ItLength(mask) ==
  IF mask % 2 = 1 THEN 3
  ELSE IF (mask \div 2) % 2 = 1 THEN 2
  ELSE IF (mask \div 4) % 2 = 1 THEN 1
  ELSE 0

(* The entry for bit b of mask. *)
ItEntry(firstcond, mask, b) ==
  IF (mask \div <<1, 2, 4, 8>>[b + 1]) % 2 = firstcond % 2 THEN IT_THEN ELSE IT_ELSE

(* emulation_i16_it_T1: the loop pushes the entries last to first, on top of
   whatever it_state still holds, and then the entry of the first one. *)
it_T1(state, firstcond, mask) ==
  LET third  == IF ItLength(mask) >= 3 THEN Push(state, ItEntry(firstcond, mask, 1)) ELSE state
      second == IF ItLength(mask) >= 2 THEN Push(third, ItEntry(firstcond, mask, 2)) ELSE third
      first  == IF ItLength(mask) >= 1 THEN Push(second, ItEntry(firstcond, mask, 3)) ELSE second
  IN Push(first, IT_THEN)

ShouldExec_ElseIsThen ==   (* without the ^ 1 *)
  Current(it_state) # IT_NONE => cond_satisfied(flags, it_cond)

emulator_should_exec_next_insn ==
  \/ Current(it_state) = IT_NONE
  \/ Current(it_state) = IT_THEN /\ cond_satisfied(flags, it_cond)
  \/ Current(it_state) = IT_ELSE /\ cond_satisfied(flags, Negated(it_cond))

emulator_execution_unconditionally == Current(it_state) = IT_NONE

(* Bits 15..8 of psr as cpu_single_step sets them at its end. *)
ExecBits(state, cond) ==
  IF state = 0 THEN 1 ELSE 9 + 16 * cond + (IF state = 5 THEN 4 ELSE 0)

------------------------------------------------------------------------------
(* cpu_reset, with lr all ones and the pc any even word; it leaves the IT state
   alone. *)
ResetRegisters ==
  /\ reg_pc' \in {Even(v) : v \in Address}
  /\ reg_lr' = PcMod - 1
  /\ flags' = NoFlags
  /\ psr_exec' = 1
  /\ insn_ctr' = 0
  /\ last' = [op |-> "reset"]

cpu_reset == HostMayReset /\ ResetRegisters /\ UNCHANGED <<it_cond, it_state>>

(* A context fresh from init_cortexm. *)
Init ==
  /\ reg_pc \in {Even(v) : v \in Address}
  /\ reg_lr = PcMod - 1
  /\ flags = NoFlags
  /\ psr_exec = 1
  /\ insn_ctr = 0
  /\ it_cond = 0 /\ it_state = 0
  /\ last = [op |-> "reset"]

(* The end of cpu_single_step, after the handler has left the pc at next_pc and
   the IT block at state and cond. *)
Retire(insn, ran, next_pc, state, cond) ==
  /\ reg_pc' = next_pc
  /\ insn_ctr' = (insn_ctr + 1) % CtrMod
  /\ it_state' = state /\ it_cond' = cond
  /\ psr_exec' = ExecBits(state, cond)
  /\ last' = [op |-> insn.op, flags |-> insn.flags, ran |-> ran]

Advanced_Past(insn) == Word(reg_pc + IF insn.length = 0 THEN 2 ELSE insn.length)

(* advance_pc stays true: decode_insn returned the length, 0 when it found no
   encoding. *)
Advanced(insn) == Word(reg_pc + insn.length)

(* The condition of the IT block does not hold: decoded, but no handler runs. *)
Skip(insn) ==
  /\ ~emulator_should_exec_next_insn
  /\ Retire(insn, FALSE, Advanced(insn), Shifted(it_state), it_cond)
  /\ UNCHANGED <<reg_lr, flags>>

(* The flags after insn: set*CondCode with its always_set. *)
FlagResults(insn) ==
  IF \/ insn.flags = "set"
     \/ insn.flags = "set_alone" /\ emulator_execution_unconditionally
    THEN FlagValues
    ELSE {flags}

(* lr is a general register for most instructions; bl puts the address behind
   it there, with bit 0 set. *)
LrResults(insn) ==
  IF insn.op = "bl" THEN {Word(Odd(reg_pc + 4))}
  ELSE IF insn.writes_lr THEN Address
  ELSE {reg_lr}

(* Everything that neither branches nor opens an IT block: data processing,
   loads and stores, the instructions that are not implemented, breakpoints,
   and words that decode to nothing. *)
ExecPlain(insn) ==
  /\ insn.op \in PlainOps
  /\ emulator_should_exec_next_insn
  /\ flags' \in FlagResults(insn)
  /\ reg_lr' \in LrResults(insn)
  /\ Retire(insn, TRUE, Advanced(insn), Shifted(it_state), it_cond)

(* shift_insn_it_state is false: the first verdict is for the next
   instruction. *)
ExecIt(insn) ==
  /\ insn.op = "it"
  /\ emulator_should_exec_next_insn
  /\ Retire(insn, TRUE, Advanced(insn), it_T1(it_state, insn.firstcond, insn.mask),
            insn.firstcond)
  /\ UNCHANGED <<reg_lr, flags>>

(* Whether a branch is taken; cbz and cbnz look at a register. *)
Taken(insn) ==
  CASE insn.op \in {"b_cond", "b_cond_wide"} -> {cond_satisfied(flags, insn.cond)}
    [] insn.op = "cbnz"                      -> BOOLEAN
    [] OTHER                                 -> {TRUE}

Targets_Unmasked(insn) ==   (* no & ~1 anywhere *)
  IF insn.op \in {"bx", "load_pc", "ldr_lit_pc", "write_pc"}
    THEN Address
    ELSE {Word(reg_pc + 4)}

(* Where a taken branch goes.  "load_pc": ldm and pop with pc in the list, which
   clear bit 0; "ldr_lit_pc": a literal load into pc, which does not;
   "write_pc": mov, add and the other loads into pc, after which the pc is still
   advanced by the length of the instruction. *)
Targets(insn) ==
  CASE insn.op \in {"b_cond", "b", "cbnz"} ->
         {relative_branch_target(reg_pc, insn.imm, insn.bits)}
    [] insn.op \in {"b_cond_wide", "bl"}   -> {Word(reg_pc + 2 * insn.imm + 4)}
    [] insn.op = "bx_lr"                   -> {Even(reg_lr)}
    [] insn.op = "tbb"                     -> {Word(reg_pc + 4 + 2 * h) : h \in Address}
    [] insn.op \in {"bx", "load_pc"}       -> {Even(v) : v \in Address}
    [] insn.op = "ldr_lit_pc"              -> Address
    [] OTHER                               -> {Word(v + insn.length) : v \in Address}

ExecBranch(insn) ==
  /\ insn.op \in BranchOps
  /\ emulator_should_exec_next_insn
  /\ \E taken \in Taken(insn) : \E target \in Targets(insn) :
       Retire(insn, TRUE, IF taken THEN target ELSE Advanced(insn), Shifted(it_state), it_cond)
  /\ flags' \in FlagResults(insn)
  /\ reg_lr' \in LrResults(insn)

Step(insn) ==
  /\ (insn.op = "it") => (NestedIt \/ it_state = 0)
  /\ \/ Skip(insn)
     \/ ExecPlain(insn)
     \/ ExecIt(insn)
     \/ ExecBranch(insn)

cpu_single_step == \E insn \in Program[reg_pc] : Step(insn)

Next == cpu_single_step \/ cpu_reset

Spec == Init /\ [][Next]_cpu_vars

------------------------------------------------------------------------------
TypeOK ==
  /\ reg_pc \in Address /\ reg_lr \in Address
  /\ flags \in Flags
  /\ psr_exec \in 0 .. 255
  /\ it_cond \in Conditions /\ it_state \in 0 .. 255
  /\ insn_ctr \in 0 .. CtrMod - 1
  /\ last.op \in Ops \cup {"reset"}

(* The two bits due after k further instructions. *)
Entry(state, k) == (state \div <<1, 4, 16, 64>>[k + 1]) % 4

WellFormed(state) ==
  \A k \in 0 .. 3 :
    /\ Entry(state, k) \in {IT_NONE, IT_THEN, IT_ELSE}
    /\ Entry(state, k) = IT_NONE => \A j \in k .. 3 : Entry(state, j) = IT_NONE

(* The verdicts in it_state are contiguous from the bottom and each of them is
   "then" or "else": no block, nested blocks and branches out of blocks
   included, leaves a gap (instructions that would run unconditionally inside a
   block) or the value 3 (an instruction that could never run, see
   emulator_should_exec_next_insn). *)
ItStateWellFormed == WellFormed(it_state)

(* The program counter turns odd only by a literal load into it or by one of
   the instructions that treat it as a general register; every other way to
   write it masks bit 0 or keeps its parity. *)
OddPcOnlyByDataWrites ==
  [][reg_pc % 2 = 0 /\ reg_pc' % 2 = 1 => last'.op \in {"ldr_lit_pc", "write_pc"}]_cpu_vars

(* A word that decodes to nothing is a trap: decode_insn returns 0 for it, so
   the pc never leaves it (only a reset does), while insn_ctr counts on.  Only
   the IT state can change, and only by draining. *)
UndecodableIsTrap ==
  [][(last'.op = "undecodable") =>
       /\ reg_pc' = reg_pc /\ flags' = flags /\ reg_lr' = reg_lr
       /\ insn_ctr' = (insn_ctr + 1) % CtrMod
       /\ it_state' <= it_state /\ (it_state' = it_state => it_state = 0)]_cpu_vars

------------------------------------------------------------------------------
(* How many verdicts are due, and the list of them that an IT state encodes. *)
Verdicts(state) ==
  CHOOSE k \in 0 .. 4 :
    /\ \A j \in 0 .. k - 1 : Entry(state, j) # IT_NONE
    /\ k < 4 => Entry(state, k) = IT_NONE

Pending(state, cond) ==
  [k \in 1 .. Verdicts(state) |-> [cond |-> cond, then |-> Entry(state, k - 1) = IT_THEN]]

Block == INSTANCE ItBlock WITH pending <- Pending(it_state, it_cond)

(* What the manual asks of the operands of IT: no condition 15, and no "else"
   of "always". *)
LawfulBlock ==
  /\ it_cond <= CONDITION_AL
  /\ it_cond = CONDITION_AL => \A k \in 0 .. 3 : Entry(it_state, k) # IT_ELSE

(* In lawful blocks that were not opened inside another one, instructions run
   and set the flags exactly as the letters of the disassembled IT instruction
   say, whatever nested blocks, branches and resets came before. *)
ImplementsItBlock ==
  /\ Block!Init
  /\ [][(last'.op # "reset" /\ (last'.op = "it" => it_state = 0) /\ LawfulBlock /\ LawfulBlock')
          => [Block!Next]_(Block!vars)]_cpu_vars
=============================================================================
