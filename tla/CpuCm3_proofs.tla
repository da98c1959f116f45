---------------------------- MODULE CpuCm3_proofs ----------------------------
(* Proofs about CpuCm3, for any program, any width of the addresses and of the
   instruction counter, nested IT blocks and resets by the host included; and at
   the end about Simulator, which runs it, for any guest, any machine and any
   registers at its system calls. *)
EXTENDS Simulator, WellFoundedInduction, TLAPS

(* A word is an address. *)
LEMMA WordIsAddress == ASSUME NEW x \in Int PROVE Word(x) \in Address
BY PcModAssumption DEF Word, Address

(* Clearing bit 0 of an address gives an even address. *)
LEMMA EvenIsAddress ==
  ASSUME NEW v \in Address PROVE Even(v) \in Address /\ Even(v) % 2 = 0
BY PcModAssumption DEF Even, Address

(* The entry that the loop of it_T1 pushes is "then" or "else". *)
LEMMA EntryThenOrElse ==
  ASSUME NEW c, NEW m, NEW b PROVE ItEntry(c, m, b) \in {IT_THEN, IT_ELSE}
BY DEF ItEntry

(* it_state <<= 2, |= entry, in a uint8_t: a fifth verdict falls off the top, a gap
   never opens. *)
LEMMA PushKeepsForm ==
  ASSUME NEW state \in 0 .. 255, WellFormed(state), NEW e \in {IT_THEN, IT_ELSE}
  PROVE  Push(state, e) \in 0 .. 255 /\ WellFormed(Push(state, e))
<1>1. Push(state, e) \in 0 .. 255
  BY DEF Push, IT_THEN, IT_ELSE
<1>2. /\ Entry(Push(state, e), 0) = e
      /\ Entry(Push(state, e), 1) = Entry(state, 0)
      /\ Entry(Push(state, e), 2) = Entry(state, 1)
      /\ Entry(Push(state, e), 3) = Entry(state, 2)
  BY SMTT(60) DEF Push, Entry, IT_THEN, IT_ELSE
<1>3. QED
  BY <1>1, <1>2 DEF WellFormed, IT_NONE, IT_THEN, IT_ELSE

(* it_state >>= 2 *)
LEMMA ShiftKeepsForm ==
  ASSUME NEW state \in 0 .. 255, WellFormed(state)
  PROVE  Shifted(state) \in 0 .. 255 /\ WellFormed(Shifted(state))
<1>1. Shifted(state) \in 0 .. 255
  BY DEF Shifted
<1>2. /\ Entry(Shifted(state), 0) = Entry(state, 1)
      /\ Entry(Shifted(state), 1) = Entry(state, 2)
      /\ Entry(Shifted(state), 2) = Entry(state, 3)
      /\ Entry(Shifted(state), 3) = 0
  BY DEF Shifted, Entry
<1>3. QED
  BY <1>1, <1>2 DEF WellFormed, IT_NONE, IT_THEN, IT_ELSE

(* emulation_i16_it_T1, whatever block it is executed in. *)
LEMMA ItKeepsForm ==
  ASSUME NEW state \in 0 .. 255, WellFormed(state), NEW c, NEW m
  PROVE  it_T1(state, c, m) \in 0 .. 255 /\ WellFormed(it_T1(state, c, m))
<1> DEFINE third == IF ItLength(m) >= 3 THEN Push(state, ItEntry(c, m, 1)) ELSE state
           second == IF ItLength(m) >= 2 THEN Push(third, ItEntry(c, m, 2)) ELSE third
           first == IF ItLength(m) >= 1 THEN Push(second, ItEntry(c, m, 3)) ELSE second
<1>1. third \in 0 .. 255 /\ WellFormed(third)
  BY PushKeepsForm, EntryThenOrElse
<1> HIDE DEF third
<1>2. second \in 0 .. 255 /\ WellFormed(second)
  BY <1>1, PushKeepsForm, EntryThenOrElse
<1> HIDE DEF second
<1>3. first \in 0 .. 255 /\ WellFormed(first)
  BY <1>2, PushKeepsForm, EntryThenOrElse
<1> HIDE DEF first
<1>4. IT_THEN \in {IT_THEN, IT_ELSE}
  OBVIOUS
<1>5. Push(first, IT_THEN) \in 0 .. 255 /\ WellFormed(Push(first, IT_THEN))
  BY <1>3, <1>4, PushKeepsForm
<1>6. QED
  BY <1>5 DEF it_T1, first, second, third

------------------------------------------------------------------------------
(* What a step needs to know of an instruction. *)
LEMMA Instruction ==
  ASSUME TypeOK, NEW insn \in Program[reg_pc]
  PROVE  /\ insn \in Insns
         /\ insn.op \in Ops
         /\ insn.length \in {0, 2, 4}
         /\ insn.op = "undecodable" => insn.length = 0
         /\ insn.op = "it" => insn.firstcond \in Conditions
BY InsnsAssumption, ProgramAssumption DEF TypeOK

(* The targets of a taken branch are addresses. *)
LEMMA TargetIsAddress ==
  ASSUME TypeOK, NEW insn \in Program[reg_pc], NEW target \in Targets(insn)
  PROVE  target \in Address
<1> USE PcModAssumption
<1>1. reg_pc \in Address /\ reg_pc \in Int /\ reg_lr \in Address /\ insn \in Insns
  BY Instruction DEF TypeOK, Address
<1>2. CASE insn.op \in {"b_cond", "b", "cbnz"}
  <2>1. insn.imm \in Nat /\ 2 ^ insn.bits \in Int
    BY <1>1, <1>2, InsnsAssumption
  <2>2. target = relative_branch_target(reg_pc, insn.imm, insn.bits)
    BY <1>2 DEF Targets
  <2>3. QED
    BY <1>1, <2>1, <2>2, WordIsAddress DEF relative_branch_target
<1>3. CASE insn.op \in {"b_cond_wide", "bl"}
  BY <1>1, <1>3, InsnsAssumption, WordIsAddress DEF Targets
<1>4. CASE insn.op = "bx_lr"
  BY <1>1, <1>4, EvenIsAddress DEF Targets
<1>5. CASE insn.op = "tbb"
  <2>1. \A h \in Address : Word(reg_pc + 4 + 2 * h) \in Address
    BY <1>1, WordIsAddress DEF Address
  <2>2. QED
    BY <1>5, <2>1 DEF Targets
<1>6. CASE insn.op \in {"bx", "load_pc"}
  BY <1>6, EvenIsAddress DEF Targets
<1>7. CASE insn.op = "ldr_lit_pc"
  BY <1>7 DEF Targets
<1>8. CASE insn.op \notin {"b_cond", "b", "cbnz", "b_cond_wide", "bl", "bx_lr", "tbb",
                          "bx", "load_pc", "ldr_lit_pc"}
  <2>1. \A v \in Address : Word(v + insn.length) \in Address
    BY Instruction, WordIsAddress DEF Address
  <2>2. target \in {Word(v + insn.length) : v \in Address}
    BY <1>8 DEF Targets
  <2>3. QED
    BY <2>1, <2>2
<1>9. QED
  BY <1>2, <1>3, <1>4, <1>5, <1>6, <1>7, <1>8

(* lr and the flags after an instruction. *)
LEMMA ResultsAreWords ==
  ASSUME TypeOK, NEW insn \in Program[reg_pc]
  PROVE  LrResults(insn) \subseteq Address /\ FlagResults(insn) \subseteq Flags
<1>1. Word(Odd(reg_pc + 4)) \in Address
  BY PcModAssumption, WordIsAddress DEF TypeOK, Address, Odd, Even
<1>2. QED
  BY <1>1, FlagValuesAssumption DEF TypeOK, LrResults, FlagResults

------------------------------------------------------------------------------
(* The induction needs both: a push keeps the shape of a uint8_t only. *)
IInv == TypeOK /\ ItStateWellFormed

(* Every handler ends in Retire; what is left to show of one is the values it
   passes. *)
LEMMA RetireKeepsIInv ==
  ASSUME IInv, NEW insn \in Program[reg_pc], NEW ran,
         NEW next_pc \in Address,
         NEW state \in 0 .. 255, WellFormed(state),
         NEW cond \in Conditions,
         Retire(insn, ran, next_pc, state, cond),
         flags' \in Flags, reg_lr' \in Address
  PROVE  IInv'
<1>1. psr_exec' \in 0 .. 255
  BY DEF Retire, ExecBits, Conditions
<1>2. insn_ctr' \in 0 .. CtrMod - 1
  BY CtrModAssumption DEF Retire, IInv, TypeOK
<1>3. last'.op \in Ops
  BY Instruction DEF Retire, IInv
<1>4. TypeOK'
  BY <1>1, <1>2, <1>3 DEF Retire, TypeOK
<1>5. ItStateWellFormed'
  BY DEF Retire, ItStateWellFormed
<1>6. QED
  BY <1>4, <1>5 DEF IInv

LEMMA InitIInv == Init => IInv
<1> SUFFICES ASSUME Init PROVE IInv
  OBVIOUS
<1>1. TypeOK
  BY EvenIsAddress, PcModAssumption, CtrModAssumption
     DEF Init, TypeOK, Address, Flags, NoFlags, Conditions
<1>2. \A k \in 0 .. 3 : Entry(0, k) = 0
  BY DEF Entry
<1>3. ItStateWellFormed
  BY <1>2 DEF Init, ItStateWellFormed, WellFormed, IT_NONE
<1>4. QED
  BY <1>1, <1>3 DEF IInv

LEMMA NextIInv == IInv /\ [Next]_cpu_vars => IInv'
<1> SUFFICES ASSUME IInv, [Next]_cpu_vars PROVE IInv'
  OBVIOUS
<1> USE DEF IInv
<1>1. ASSUME NEW insn \in Program[reg_pc] PROVE Advanced(insn) \in Address
  BY Instruction, WordIsAddress DEF TypeOK, Advanced, Address
<1>2. ASSUME NEW insn \in Program[reg_pc], Skip(insn) PROVE IInv'
  <2>1. Shifted(it_state) \in 0 .. 255 /\ WellFormed(Shifted(it_state))
    BY ShiftKeepsForm DEF TypeOK, ItStateWellFormed
  <2>2. Retire(insn, FALSE, Advanced(insn), Shifted(it_state), it_cond)
    BY <1>2 DEF Skip
  <2>3. flags' \in Flags /\ reg_lr' \in Address /\ it_cond \in Conditions
    BY <1>2 DEF Skip, TypeOK
  <2>4. QED
    BY <1>1, <2>1, <2>2, <2>3, RetireKeepsIInv
<1>3. ASSUME NEW insn \in Program[reg_pc], ExecPlain(insn) PROVE IInv'
  <2>1. Shifted(it_state) \in 0 .. 255 /\ WellFormed(Shifted(it_state))
    BY ShiftKeepsForm DEF TypeOK, ItStateWellFormed
  <2>2. Retire(insn, TRUE, Advanced(insn), Shifted(it_state), it_cond)
    BY <1>3 DEF ExecPlain
  <2>3. flags' \in Flags /\ reg_lr' \in Address
    BY <1>3, ResultsAreWords DEF ExecPlain
  <2>4. it_cond \in Conditions
    BY DEF TypeOK
  <2>5. QED
    BY <1>1, <2>1, <2>2, <2>3, <2>4, RetireKeepsIInv
<1>4. ASSUME NEW insn \in Program[reg_pc], ExecIt(insn) PROVE IInv'
  <2> DEFINE state == it_T1(it_state, insn.firstcond, insn.mask)
  <2>1. state \in 0 .. 255 /\ WellFormed(state)
    BY ItKeepsForm DEF TypeOK, ItStateWellFormed
  <2>2. Retire(insn, TRUE, Advanced(insn), state, insn.firstcond)
    BY <1>4 DEF ExecIt
  <2>3. flags' \in Flags /\ reg_lr' \in Address /\ insn.firstcond \in Conditions
    BY <1>4, Instruction DEF ExecIt, TypeOK
  <2> HIDE DEF state
  <2>4. QED
    BY <1>1, <2>1, <2>2, <2>3, RetireKeepsIInv
<1>5. ASSUME NEW insn \in Program[reg_pc], ExecBranch(insn) PROVE IInv'
  <2>1. Shifted(it_state) \in 0 .. 255 /\ WellFormed(Shifted(it_state))
    BY ShiftKeepsForm DEF TypeOK, ItStateWellFormed
  <2>2. PICK next_pc \in Address : Retire(insn, TRUE, next_pc, Shifted(it_state), it_cond)
    BY <1>1, <1>5, TargetIsAddress DEF ExecBranch
  <2>3. flags' \in Flags /\ reg_lr' \in Address
    BY <1>5, ResultsAreWords DEF ExecBranch
  <2>4. it_cond \in Conditions
    BY DEF TypeOK
  <2>5. QED
    BY <2>1, <2>2, <2>3, <2>4, RetireKeepsIInv
<1>6. ASSUME cpu_reset PROVE IInv'
  <2>1. TypeOK'
    BY <1>6, EvenIsAddress, PcModAssumption, CtrModAssumption
       DEF cpu_reset, ResetRegisters, TypeOK, Address, Flags, NoFlags
  <2>2. ItStateWellFormed'
    BY <1>6 DEF cpu_reset, ItStateWellFormed
  <2>3. QED
    BY <2>1, <2>2
<1>7. CASE UNCHANGED cpu_vars
  BY <1>7 DEF cpu_vars, TypeOK, ItStateWellFormed
<1>8. QED
  BY <1>2, <1>3, <1>4, <1>5, <1>6, <1>7 DEF Next, cpu_single_step, Step

(* Both are an invariant of every behaviour. *)
LEMMA SpecIInv == Spec => []IInv
BY InitIInv, NextIInv, PTL DEF Spec

(* Type correctness: whatever the program, the registers of the core keep to
   their ranges; it_cond keeps to four bits, which cpu_single_step relies on
   when it ors it_cond << 12 into psr. *)
THEOREM TypeCorrect == Spec => []TypeOK
BY SpecIInv, PTL DEF IInv

(* Whatever the program, nested IT blocks included, it_state holds no gap and
   no value that is neither "then" nor "else". *)
THEOREM ItStateStaysWellFormed == Spec => []ItStateWellFormed
BY SpecIInv, PTL DEF IInv

------------------------------------------------------------------------------
(* There is an even number of addresses, so wrapping around keeps parity. *)
LEMMA WordKeepsParity == ASSUME NEW x \in Int PROVE Word(x) % 2 = x % 2
<1>1. PICK h \in Nat : PcMod = 2 * h /\ h # 0
  <2>1. PcMod = 2 * (PcMod \div 2) /\ PcMod \div 2 \in Nat /\ PcMod \div 2 # 0
    BY PcModAssumption
  <2>2. QED
    BY <2>1
<1> DEFINE q == x \div PcMod
           w == x % PcMod
<1>2. q \in Int /\ w \in Int /\ x = PcMod * q + w
  BY PcModAssumption
<1> HIDE DEF q, w
<1>3. PcMod * q = 2 * (h * q) /\ h * q \in Int
  BY <1>1, <1>2
<1> DEFINE p == h * q
<1>4. p \in Int /\ x = 2 * p + w
  BY <1>2, <1>3
<1> HIDE DEF p
<1>5. x % 2 = w % 2
  BY <1>2, <1>4
<1>6. QED
  BY <1>5 DEF w, Word

(* An even pc stays even unless a literal load or a data instruction writes it:
   every other handler masks bit 0 or adds an even number. *)
THEOREM PcStaysEven == Spec => OddPcOnlyByDataWrites
<1> DEFINE Keeps == reg_pc % 2 = 0 /\ reg_pc' % 2 = 1 => last'.op \in {"ldr_lit_pc", "write_pc"}
<1>1. IInv /\ [Next]_cpu_vars => [Keeps]_cpu_vars
  <2> SUFFICES ASSUME IInv, Next, reg_pc % 2 = 0
               PROVE  reg_pc' % 2 = 0 \/ last'.op \in {"ldr_lit_pc", "write_pc"}
    BY DEF cpu_vars
  <2> USE DEF IInv
  <2>1. reg_pc \in Int /\ reg_lr \in Address
    BY DEF TypeOK, Address
  <2>2. ASSUME NEW insn \in Program[reg_pc] PROVE Advanced(insn) % 2 = 0
    <3>1. insn.length \in {0, 2, 4}
      BY Instruction
    <3>2. (reg_pc + insn.length) \in Int /\ (reg_pc + insn.length) % 2 = 0
      BY <2>1, <3>1
    <3>3. QED
      BY <3>2, WordKeepsParity DEF Advanced
  <2>3. ASSUME NEW insn \in Program[reg_pc], Skip(insn) \/ ExecPlain(insn) \/ ExecIt(insn)
        PROVE  reg_pc' % 2 = 0
    BY <2>2, <2>3 DEF Skip, ExecPlain, ExecIt, Retire
  <2>4. ASSUME NEW insn \in Program[reg_pc], NEW target \in Targets(insn),
               insn.op \notin {"ldr_lit_pc", "write_pc"}, insn.op \in BranchOps
        PROVE  target % 2 = 0
    <3>1. insn \in Insns
      BY Instruction
    <3>2. CASE insn.op \in {"b_cond", "b", "cbnz"}
      <4>1. insn.imm \in Nat /\ insn.bits \in {7, 8, 11}
        BY <3>1, <3>2, InsnsAssumption
      <4>2. target = relative_branch_target(reg_pc, insn.imm, insn.bits)
        BY <3>2 DEF Targets
      <4>3. 2 ^ insn.bits \in Int
        BY <4>1
      <4>4. /\ (reg_pc - (4 + 2 * (2 ^ insn.bits - insn.imm)) + 8) % 2 = 0
            /\ (reg_pc + 2 * insn.imm + 4) % 2 = 0
        BY <2>1, <4>1, <4>3
      <4>5. QED
        BY <2>1, <4>1, <4>2, <4>3, <4>4, WordKeepsParity DEF relative_branch_target
    <3>3. CASE insn.op \in {"b_cond_wide", "bl"}
      <4>1. insn.imm \in Int
        BY <3>1, <3>3, InsnsAssumption
      <4>2. (reg_pc + 2 * insn.imm + 4) % 2 = 0
        BY <2>1, <4>1
      <4>3. QED
        BY <2>1, <3>3, <4>1, <4>2, WordKeepsParity DEF Targets
    <3>4. CASE insn.op = "bx_lr"
      BY <2>1, <3>4, EvenIsAddress DEF Targets
    <3>5. CASE insn.op = "tbb"
      <4>1. \A h \in Address : Word(reg_pc + 4 + 2 * h) % 2 = 0
        <5> TAKE h \in Address
        <5>1. (reg_pc + 4 + 2 * h) \in Int /\ (reg_pc + 4 + 2 * h) % 2 = 0
          BY <2>1 DEF Address
        <5>2. QED
          BY <5>1, WordKeepsParity
      <4>2. QED
        BY <3>5, <4>1 DEF Targets
    <3>6. CASE insn.op \in {"bx", "load_pc"}
      BY <3>6, EvenIsAddress DEF Targets
    <3>7. QED
      BY <2>4, <3>2, <3>3, <3>4, <3>5, <3>6 DEF BranchOps
  <2>5. ASSUME NEW insn \in Program[reg_pc], ExecBranch(insn)
        PROVE  reg_pc' % 2 = 0 \/ last'.op \in {"ldr_lit_pc", "write_pc"}
    BY <2>2, <2>4, <2>5 DEF ExecBranch, Retire
  <2>6. ASSUME cpu_reset PROVE reg_pc' % 2 = 0
    BY <2>6, EvenIsAddress DEF cpu_reset, ResetRegisters
  <2>7. QED
    BY <2>3, <2>5, <2>6 DEF Next, cpu_single_step, Step
<1>2. QED
  BY <1>1, SpecIInv, PTL DEF Spec, OddPcOnlyByDataWrites

(* A word without an encoding holds the pc and leaves flags and lr alone,
   executed or skipped. *)
THEOREM UndecodableWordTraps == Spec => UndecodableIsTrap
<1> DEFINE Trapped ==
      (last'.op = "undecodable") =>
        /\ reg_pc' = reg_pc /\ flags' = flags /\ reg_lr' = reg_lr
        /\ insn_ctr' = (insn_ctr + 1) % CtrMod
        /\ it_state' <= it_state /\ (it_state' = it_state => it_state = 0)
<1>1. IInv /\ [Next]_cpu_vars => [Trapped]_cpu_vars
  <2> SUFFICES ASSUME IInv, Next, last'.op = "undecodable" PROVE Trapped
    BY DEF cpu_vars
  <2> USE DEF IInv
  <2>1. PICK insn \in Program[reg_pc] :
          Skip(insn) \/ ExecPlain(insn) \/ ExecIt(insn) \/ ExecBranch(insn)
    BY DEF Next, cpu_single_step, Step, cpu_reset, ResetRegisters
  <2>2. insn.op = "undecodable"
    BY <2>1 DEF Skip, ExecPlain, ExecIt, ExecBranch, Retire
  <2>3. insn.length = 0 /\ insn.flags = "keep" /\ insn.writes_lr = FALSE
    BY <2>2, InsnsAssumption, Instruction
  <2>4. Skip(insn) \/ ExecPlain(insn)
    BY <2>1, <2>2 DEF ExecIt, ExecBranch, BranchOps
  <2>5. reg_pc' = reg_pc /\ flags' = flags /\ reg_lr' = reg_lr
    <3>1. Advanced(insn) = reg_pc
      <4>1. reg_pc \in 0 .. PcMod - 1 /\ PcMod \in Nat
        BY PcModAssumption DEF TypeOK, Address
      <4>2. Advanced(insn) = (reg_pc + 0) % PcMod
        BY ONLY <2>3 DEF Advanced, Word
      <4>3. QED
        BY ONLY <4>1, <4>2
    <3>2. QED
      BY <2>2, <2>3, <2>4, <3>1 DEF Skip, ExecPlain, Retire, FlagResults, LrResults
  <2>6. insn_ctr' = (insn_ctr + 1) % CtrMod /\ it_state' = it_state \div 4
    BY <2>4 DEF Skip, ExecPlain, Retire, Shifted
  <2>7. it_state \in 0 .. 255
    BY DEF TypeOK
  <2>8. QED
    BY <2>5, <2>6, <2>7
<1>2. QED
  BY <1>1, SpecIInv, PTL DEF Spec, UndecodableIsTrap

------------------------------------------------------------------------------
(* Which n the list of verdicts has: the entries below n are verdicts, the next
   one, if there is one, is none. *)
LEMMA VerdictsAre ==
  ASSUME NEW state \in 0 .. 255, NEW n \in 0 .. 4,
         \A j \in 0 .. n - 1 : Entry(state, j) # IT_NONE,
         n < 4 => Entry(state, n) = IT_NONE
  PROVE  Verdicts(state) = n
<1> DEFINE P(k) == /\ \A j \in 0 .. k - 1 : Entry(state, j) # IT_NONE
                   /\ k < 4 => Entry(state, k) = IT_NONE
<1>1. P(n)
  OBVIOUS
<1>2. ASSUME NEW k \in 0 .. 4, P(k) PROVE k = n
  <2>1. ~(k < n)
    BY <1>2
  <2>2. ~(n < k)
    BY <1>2
  <2>3. QED
    BY <2>1, <2>2
<1>3. Verdicts(state) = CHOOSE k \in 0 .. 4 : P(k)
  BY Zenon DEF Verdicts
<1> HIDE DEF P
<1>4. QED
  BY <1>1, <1>2, <1>3

(* A list of verdicts has four at the most. *)
LEMMA VerdictsOf ==
  ASSUME NEW state \in 0 .. 255
  PROVE  /\ Verdicts(state) \in 0 .. 4
         /\ \A j \in 0 .. Verdicts(state) - 1 : Entry(state, j) # IT_NONE
         /\ Verdicts(state) < 4 => Entry(state, Verdicts(state)) = IT_NONE
<1> DEFINE P(k) == /\ \A j \in 0 .. k - 1 : Entry(state, j) # IT_NONE
                   /\ k < 4 => Entry(state, k) = IT_NONE
<1>1. \E k \in 0 .. 4 : P(k)
  <2>1. CASE Entry(state, 0) = IT_NONE
    <3>1. P(0)
      BY <2>1
    <3>2. QED
      BY <3>1
  <2>2. CASE Entry(state, 0) # IT_NONE /\ Entry(state, 1) = IT_NONE
    <3>1. P(1)
      BY <2>2
    <3>2. QED
      BY <3>1
  <2>3. CASE Entry(state, 0) # IT_NONE /\ Entry(state, 1) # IT_NONE /\ Entry(state, 2) = IT_NONE
    <3>1. P(2)
      BY <2>3
    <3>2. QED
      BY <3>1
  <2>4. CASE /\ Entry(state, 0) # IT_NONE /\ Entry(state, 1) # IT_NONE
             /\ Entry(state, 2) # IT_NONE /\ Entry(state, 3) = IT_NONE
    <3>1. P(3)
      BY <2>4
    <3>2. QED
      BY <3>1
  <2>5. CASE /\ Entry(state, 0) # IT_NONE /\ Entry(state, 1) # IT_NONE
             /\ Entry(state, 2) # IT_NONE /\ Entry(state, 3) # IT_NONE
    <3>1. P(4)
      BY <2>5
    <3>2. QED
      BY <3>1
  <2>6. QED
    BY <2>1, <2>2, <2>3, <2>4, <2>5
<1>2. Verdicts(state) = CHOOSE k \in 0 .. 4 : P(k)
  BY Zenon DEF Verdicts
<1>3. Verdicts(state) \in 0 .. 4 /\ P(Verdicts(state))
  <2> HIDE DEF P
  <2> QED  BY <1>1, <1>2
<1>4. QED
  BY <1>3

(* An empty IT state encodes the empty list. *)
LEMMA NothingPending ==
  ASSUME NEW c PROVE Verdicts(0) = 0 /\ Pending(0, c) = <<>>
<1>1. Entry(0, 0) = IT_NONE
  BY DEF Entry, IT_NONE
<1>2. Verdicts(0) = 0
  BY <1>1, VerdictsAre
<1>3. QED
  BY <1>2 DEF Pending

(* it_state >>= 2 takes the first verdict off the list. *)
LEMMA ShiftIsTail ==
  ASSUME NEW state \in 0 .. 255, WellFormed(state), NEW c
  PROVE  /\ Pending(state, c) = <<>> <=> Current(state) = IT_NONE
         /\ Pending(state, c) = <<>> => Pending(Shifted(state), c) = <<>>
         /\ Pending(state, c) # <<>> =>
              /\ Pending(Shifted(state), c) = Tail(Pending(state, c))
              /\ Head(Pending(state, c)) = [cond |-> c, then |-> Current(state) = IT_THEN]
<1> DEFINE n == Verdicts(state)
<1>1. /\ Entry(Shifted(state), 0) = Entry(state, 1)
      /\ Entry(Shifted(state), 1) = Entry(state, 2)
      /\ Entry(Shifted(state), 2) = Entry(state, 3)
      /\ Entry(Shifted(state), 3) = IT_NONE
      /\ Entry(state, 0) = Current(state)
  BY DEF Shifted, Entry, Current, IT_NONE
<1>2. Shifted(state) \in 0 .. 255
  BY ShiftKeepsForm
<1>3. /\ n \in 0 .. 4
      /\ \A j \in 0 .. n - 1 : Entry(state, j) # IT_NONE
      /\ n < 4 => Entry(state, n) = IT_NONE
  BY VerdictsOf
<1>4. Pending(state, c) = <<>> <=> n = 0
  <2>1. DOMAIN Pending(state, c) = 1 .. n
    BY DEF Pending
  <2>2. n = 0 => Pending(state, c) = <<>>
    BY DEF Pending
  <2>3. n # 0 => 1 \in 1 .. n
    BY <1>3
  <2>4. DOMAIN <<>> = {}
    OBVIOUS
  <2> HIDE DEF n
  <2>5. QED
    BY <2>1, <2>2, <2>3, <2>4
<1> HIDE DEF n
<1>5. n = 0 <=> Current(state) = IT_NONE
  BY <1>1, <1>3
<1>6. CASE n = 0
  <2>1. Entry(state, 1) = IT_NONE
    BY <1>1, <1>5, <1>6 DEF WellFormed
  <2>2. Verdicts(Shifted(state)) = 0
    BY <1>1, <1>2, <2>1, VerdictsAre
  <2>3. Pending(Shifted(state), c) = <<>>
    BY <2>2 DEF Pending
  <2>4. QED
    BY <1>4, <1>5, <1>6, <2>3
<1>7. CASE n # 0
  <2>1. n - 1 \in 0 .. 4 /\ n - 1 < 4
    BY <1>3, <1>7
  <2>2. \A j \in 0 .. n - 2 : Entry(Shifted(state), j) = Entry(state, j + 1)
    BY <1>1, <1>3
  <2>3. \A j \in 0 .. (n - 1) - 1 : Entry(Shifted(state), j) # IT_NONE
    BY <1>3, <2>2
  <2>4. Entry(Shifted(state), n - 1) = IT_NONE
    BY <1>1, <1>3, <1>7
  <2>5. Verdicts(Shifted(state)) = n - 1
    BY <1>2, <2>1, <2>3, <2>4, VerdictsAre
  <2> DEFINE V(k) == [cond |-> c, then |-> Entry(state, k - 1) = IT_THEN]
  <2>6. Pending(state, c) = [k \in 1 .. n |-> V(k)]
    BY DEF Pending, n
  <2>7. Pending(Shifted(state), c) = [k \in 1 .. n - 1 |-> V(k + 1)]
    <3>1. \A k \in 1 .. n - 1 : Entry(Shifted(state), k - 1) = Entry(state, (k + 1) - 1)
      BY <1>3, <2>2
    <3>2. QED
      BY <2>5, <3>1 DEF Pending
  <2>8. V(1) = [cond |-> c, then |-> Current(state) = IT_THEN]
    BY <1>1
  <2> HIDE DEF V
  <2>9. Head(Pending(state, c)) = V(1) /\ Tail(Pending(state, c)) = [k \in 1 .. n - 1 |-> V(k + 1)]
    BY <1>3, <1>7, <2>6
  <2>10. QED
    BY <1>4, <1>5, <1>7, <2>7, <2>8, <2>9
<1>8. QED
  BY <1>6, <1>7

(* The four entries after a push. *)
LEMMA EntriesOfPush ==
  ASSUME NEW state \in 0 .. 255, NEW e \in {IT_THEN, IT_ELSE}
  PROVE  /\ Push(state, e) \in 0 .. 255
         /\ Entry(Push(state, e), 0) = e
         /\ Entry(Push(state, e), 1) = Entry(state, 0)
         /\ Entry(Push(state, e), 2) = Entry(state, 1)
         /\ Entry(Push(state, e), 3) = Entry(state, 2)
<1>1. Push(state, e) \in 0 .. 255
  BY DEF Push, IT_THEN, IT_ELSE
<1>2. PICK q \in 0 .. 3, r \in 0 .. 63 : state = 64 * q + r
  <2>1. state \div 64 \in 0 .. 3
    OBVIOUS
  <2>2. state % 64 \in 0 .. 63
    OBVIOUS
  <2>3. state = 64 * (state \div 64) + (state % 64)
    OBVIOUS
  <2>4. QED
    BY <2>1, <2>2, <2>3
<1>3. Push(state, e) = 4 * r + e
  BY <1>2 DEF Push
<1>4. e \in 0 .. 3
  BY DEF IT_THEN, IT_ELSE
<1>5. Entry(Push(state, e), 0) = e
  BY <1>2, <1>3, <1>4 DEF Entry
<1>6. Entry(Push(state, e), 1) = Entry(state, 0)
  BY <1>2, <1>3, <1>4 DEF Entry
<1>7. Entry(Push(state, e), 2) = Entry(state, 1)
  <2>1. PICK a \in 0 .. 15, b \in 0 .. 3 : r = 4 * a + b
    <3>1. r \div 4 \in 0 .. 15 /\ r % 4 \in 0 .. 3
      OBVIOUS
    <3>2. r = 4 * (r \div 4) + (r % 4)
      OBVIOUS
    <3>3. QED
      BY <3>1, <3>2
  <2>2. Push(state, e) \div 16 = a
    BY <1>3, <1>4, <2>1
  <2>3. state \div 4 = 16 * q + a
    BY <1>2, <2>1
  <2>4. (16 * q + a) % 4 = a % 4
    OBVIOUS
  <2>5. QED
    BY <2>2, <2>3, <2>4 DEF Entry
<1>8. Entry(Push(state, e), 3) = Entry(state, 2)
  <2>1. PICK a \in 0 .. 3, b \in 0 .. 15 : r = 16 * a + b
    <3>1. r \div 16 \in 0 .. 3 /\ r % 16 \in 0 .. 15
      OBVIOUS
    <3>2. r = 16 * (r \div 16) + (r % 16)
      OBVIOUS
    <3>3. QED
      BY <3>1, <3>2
  <2>2. Push(state, e) \div 64 = a
    BY <1>3, <1>4, <2>1
  <2>3. state \div 16 = 4 * q + a
    BY <1>2, <2>1
  <2>4. (4 * q + a) % 4 = a % 4
    OBVIOUS
  <2>5. QED
    BY <2>2, <2>3, <2>4 DEF Entry
<1>9. QED
  BY <1>1, <1>5, <1>6, <1>7, <1>8

(* The loop of it_T1, outside of any block, leaves the verdicts in the order of
   the letters of the disassembled instruction. *)
LEMMA ItOpensBlock ==
  ASSUME NEW c \in Conditions, NEW m \in 0 .. 15
  PROVE  Pending(it_T1(0, c, m), c) = Block!Block(c, m)
<1> DEFINE s == it_T1(0, c, m)
           L == ItLength(m)
           E(b) == ItEntry(c, m, b)
<1>1. L \in 0 .. 3
  BY DEF ItLength
<1>2. E(1) \in {IT_THEN, IT_ELSE} /\ E(2) \in {IT_THEN, IT_ELSE} /\ E(3) \in {IT_THEN, IT_ELSE}
  BY EntryThenOrElse
<1>3. /\ s \in 0 .. 255
      /\ Entry(s, 0) = IT_THEN
      /\ L >= 1 => Entry(s, 1) = E(3)
      /\ L >= 2 => Entry(s, 2) = E(2)
      /\ L >= 3 => Entry(s, 3) = E(1)
      /\ L = 0 => Entry(s, 1) = IT_NONE
      /\ L = 1 => Entry(s, 2) = IT_NONE
      /\ L = 2 => Entry(s, 3) = IT_NONE
  <2> DEFINE third == IF L >= 3 THEN Push(0, E(1)) ELSE 0
             second == IF L >= 2 THEN Push(third, E(2)) ELSE third
             first == IF L >= 1 THEN Push(second, E(3)) ELSE second
  <2>1. s = Push(first, IT_THEN)
    BY DEF it_T1
  <2>2. Entry(0, 0) = 0 /\ Entry(0, 1) = 0 /\ Entry(0, 2) = 0 /\ Entry(0, 3) = 0
    BY DEF Entry
  <2> HIDE DEF s, L, E
  <2>3. /\ third \in 0 .. 255
        /\ L >= 3 => Entry(third, 0) = E(1)
        /\ L < 3 => Entry(third, 0) = 0
        /\ Entry(third, 1) = 0 /\ Entry(third, 2) = 0
    <3>1. CASE L >= 3
      <4>1. third = Push(0, E(1))
        BY <3>1
      <4>2. /\ Push(0, E(1)) \in 0 .. 255
            /\ Entry(Push(0, E(1)), 0) = E(1)
            /\ Entry(Push(0, E(1)), 1) = Entry(0, 0)
            /\ Entry(Push(0, E(1)), 2) = Entry(0, 1)
        <5>1. PICK z \in 0 .. 255 : z = 0
          OBVIOUS
        <5>2. /\ Push(z, E(1)) \in 0 .. 255
              /\ Entry(Push(z, E(1)), 0) = E(1)
              /\ Entry(Push(z, E(1)), 1) = Entry(z, 0)
              /\ Entry(Push(z, E(1)), 2) = Entry(z, 1)
          BY <1>2, EntriesOfPush, ZenonT(60)
        <5>3. QED
          BY <5>1, <5>2
      <4> HIDE DEF third
      <4>3. /\ third \in 0 .. 255 /\ Entry(third, 0) = E(1)
            /\ Entry(third, 1) = 0 /\ Entry(third, 2) = 0
        BY <2>2, <4>1, <4>2, Zenon
      <4>4. ~(L < 3)
        BY <1>1, <3>1
      <4>5. QED
        BY <4>3, <4>4
    <3>2. CASE L < 3
      <4>1. third = 0
        BY <1>1, <3>2
      <4> HIDE DEF third
      <4>2. QED
        BY <1>1, <2>2, <3>2, <4>1
    <3>3. QED
      BY <1>1, <3>1, <3>2
  <2> HIDE DEF third
  <2>4. /\ second \in 0 .. 255
        /\ L >= 2 => Entry(second, 0) = E(2)
        /\ L >= 3 => Entry(second, 1) = E(1)
        /\ L < 2 => Entry(second, 0) = 0
        /\ L < 3 => Entry(second, 1) = 0
    <3>1. CASE L >= 2
      <4>1. second = Push(third, E(2))
        BY <3>1
      <4>2. /\ Push(third, E(2)) \in 0 .. 255
            /\ Entry(Push(third, E(2)), 0) = E(2)
            /\ Entry(Push(third, E(2)), 1) = Entry(third, 0)
        BY <1>2, <2>3, EntriesOfPush, ZenonT(60)
      <4> HIDE DEF second
      <4>3. QED
        BY <1>1, <2>3, <3>1, <4>1, <4>2
    <3>2. CASE L < 2
      <4>1. second = third
        BY <1>1, <3>2
      <4> HIDE DEF second
      <4>2. QED
        BY <1>1, <2>3, <3>2, <4>1
    <3>3. QED
      BY <1>1, <3>1, <3>2
  <2> HIDE DEF second
  <2>5. /\ first \in 0 .. 255
        /\ L >= 1 => Entry(first, 0) = E(3)
        /\ L >= 2 => Entry(first, 1) = E(2)
        /\ L >= 3 => Entry(first, 2) = E(1)
        /\ L = 0 => Entry(first, 0) = 0
        /\ L = 1 => Entry(first, 1) = 0
        /\ L = 2 => Entry(first, 2) = 0
    <3>1. CASE L >= 1
      <4>1. first = Push(second, E(3))
        BY <3>1
      <4>2. /\ Push(second, E(3)) \in 0 .. 255
            /\ Entry(Push(second, E(3)), 0) = E(3)
            /\ Entry(Push(second, E(3)), 1) = Entry(second, 0)
            /\ Entry(Push(second, E(3)), 2) = Entry(second, 1)
        BY <1>2, <2>4, EntriesOfPush, ZenonT(60)
      <4> HIDE DEF first
      <4>3. QED
        BY <1>1, <2>4, <3>1, <4>1, <4>2
    <3>2. CASE L = 0
      <4>1. first = second /\ L < 2
        BY <3>2
      <4> HIDE DEF first
      <4>2. QED
        BY <2>4, <3>2, <4>1
    <3>3. QED
      BY <1>1, <3>1, <3>2
  <2> HIDE DEF first
  <2>6. /\ s \in 0 .. 255
        /\ Entry(s, 0) = IT_THEN
        /\ Entry(s, 1) = Entry(first, 0)
        /\ Entry(s, 2) = Entry(first, 1)
        /\ Entry(s, 3) = Entry(first, 2)
    BY <2>1, <2>5, EntriesOfPush
  <2>7. QED
    BY <1>1, <2>5, <2>6 DEF IT_NONE
<1>4. /\ E(3) = IT_THEN <=> Block!IsThen(c, m, 0)
      /\ E(2) = IT_THEN <=> Block!IsThen(c, m, 1)
      /\ E(1) = IT_THEN <=> Block!IsThen(c, m, 2)
  BY DEF ItEntry, Block!IsThen, IT_THEN, IT_ELSE
<1>5. Block!Letters(m) = L
  BY DEF Block!Letters, ItLength
<1> HIDE DEF s, L, E
<1>6. Verdicts(s) = L + 1
  <2>1. \A j \in 0 .. L : Entry(s, j) # IT_NONE
    BY <1>1, <1>2, <1>3 DEF IT_NONE, IT_THEN, IT_ELSE
  <2>2. L + 1 < 4 => Entry(s, L + 1) = IT_NONE
    BY <1>1, <1>3
  <2>3. L + 1 \in 0 .. 4 /\ (L + 1) - 1 = L
    BY <1>1
  <2>4. QED
    BY <1>3, <2>1, <2>2, <2>3, VerdictsAre
<1>7. ASSUME NEW k \in 1 .. L + 1
      PROVE  (Entry(s, k - 1) = IT_THEN) = (k = 1 \/ Block!IsThen(c, m, k - 2))
  BY <1>1, <1>3, <1>4
<1>8. Pending(s, c)
        = [k \in 1 .. L + 1 |-> [cond |-> c, then |-> k = 1 \/ Block!IsThen(c, m, k - 2)]]
  BY <1>6, <1>7 DEF Pending
<1>9. QED
  BY <1>5, <1>8 DEF s, Block!Block

(* aCond ^ 1 decides the opposite, "always" and the code behind it apart. *)
LEMMA NegationDecides ==
  ASSUME NEW f \in Flags, NEW c \in 0 .. 13
  PROVE  cond_satisfied(f, Negated(c)) <=> ~cond_satisfied(f, c)
<1>1. f.n \in BOOLEAN /\ f.z \in BOOLEAN /\ f.c \in BOOLEAN /\ f.v \in BOOLEAN
  BY DEF Flags
<1>2. /\ c \in {0, 2, 4, 6, 8, 10, 12} => Negated(c) = c + 1
      /\ c \in {1, 3, 5, 7, 9, 11, 13} => Negated(c) = c - 1
  BY DEF Negated
<1>3. CASE c \in {0, 2, 4, 6, 8, 10, 12}
  BY <1>1, <1>2, <1>3 DEF cond_satisfied
<1>4. CASE c \in {1, 3, 5, 7, 9, 11, 13}
  BY <1>1, <1>2, <1>4 DEF cond_satisfied
<1>5. QED
  BY <1>3, <1>4

(* ItBlock takes its conditions from the same module. *)
LEMMA SameConditions ==
  /\ Block!Conditions = Conditions /\ Block!NoFlags = NoFlags
  /\ \A f, c : Block!cond_satisfied(f, c) = cond_satisfied(f, c)
BY DEF Block!Conditions, Block!NoFlags, Block!cond_satisfied,
       Conditions, NoFlags, cond_satisfied

(* In a lawful block the two bits and the condition decide as the first verdict
   of the list does. *)
LEMMA BlockDecides ==
  ASSUME IInv, LawfulBlock
  PROVE  Block!Due <=> emulator_should_exec_next_insn
<1> DEFINE pending == Pending(it_state, it_cond)
<1>1. /\ it_state \in 0 .. 255 /\ WellFormed(it_state) /\ flags \in Flags /\ it_cond \in 0 .. 14
  BY DEF IInv, TypeOK, ItStateWellFormed, LawfulBlock, Conditions, CONDITION_AL
<1>2. Current(it_state) = Entry(it_state, 0) /\ Current(it_state) \in {IT_NONE, IT_THEN, IT_ELSE}
  BY <1>1 DEF WellFormed, Entry, Current
<1>3. /\ pending = <<>> <=> Current(it_state) = IT_NONE
      /\ pending # <<>> => Head(pending) = [cond |-> it_cond, then |-> Current(it_state) = IT_THEN]
  BY <1>1, ShiftIsTail
<1>4. Block!Due <=> \/ pending = <<>>
                    \/ pending # <<>>
                         /\ (Head(pending).then <=> cond_satisfied(flags, Head(pending).cond))
  BY SameConditions DEF Block!Due
<1>5. pending # <<>> => /\ Head(pending).cond = it_cond
                        /\ Head(pending).then <=> Current(it_state) = IT_THEN
  <2>1. PICK t \in BOOLEAN : t <=> Current(it_state) = IT_THEN
    OBVIOUS
  <2>2. (Current(it_state) = IT_THEN) = t
    BY <2>1
  <2>3. pending # <<>> => Head(pending) = [cond |-> it_cond, then |-> t]
    BY <1>3, <2>2
  <2> HIDE DEF pending
  <2>4. pending # <<>> => Head(pending).cond = it_cond /\ Head(pending).then = t
    BY <2>3
  <2>5. QED
    BY <2>1, <2>4
<1>6. CASE Current(it_state) = IT_NONE
  BY <1>3, <1>4, <1>6 DEF emulator_should_exec_next_insn
<1>7. CASE Current(it_state) = IT_THEN
  <2>1. pending # <<>>
    BY <1>3, <1>7 DEF IT_NONE, IT_THEN
  <2>2. Block!Due <=> cond_satisfied(flags, it_cond)
    BY <1>4, <1>5, <1>7, <2>1
  <2>3. QED
    BY <1>7, <2>2 DEF emulator_should_exec_next_insn, IT_NONE, IT_THEN, IT_ELSE
<1>8. CASE Current(it_state) = IT_ELSE
  <2>1. pending # <<>>
    BY <1>3, <1>8 DEF IT_NONE, IT_ELSE
  <2>2. ~(Current(it_state) = IT_THEN)
    BY <1>8 DEF IT_THEN, IT_ELSE
  <2>3. Block!Due <=> ~cond_satisfied(flags, it_cond)
    BY <1>4, <1>5, <2>1, <2>2
  <2>4. it_cond \in 0 .. 13
    BY <1>1, <1>2, <1>8 DEF LawfulBlock, CONDITION_AL
  <2>5. QED
    BY <1>1, <1>8, <2>3, <2>4, NegationDecides
       DEF emulator_should_exec_next_insn, IT_NONE, IT_THEN, IT_ELSE
<1>9. QED
  BY <1>2, <1>6, <1>7, <1>8

(* Every handler but that of IT uses up one verdict. *)
LEMMA RetireRunsVerdict ==
  ASSUME IInv, LawfulBlock, NEW insn, NEW ran \in BOOLEAN, NEW next_pc,
         Retire(insn, ran, next_pc, Shifted(it_state), it_cond),
         ran <=> emulator_should_exec_next_insn,
         flags' = flags \/ (ran /\ flags' \in FlagResults(insn))
  PROVE  Block!Run(insn.op, insn.flags)
<1> DEFINE pending == Pending(it_state, it_cond)
<1>1. it_state \in 0 .. 255 /\ WellFormed(it_state)
  BY DEF IInv, TypeOK, ItStateWellFormed
<1>2. Block!Due <=> ran
  BY BlockDecides
<1>3. last' = [op |-> insn.op, flags |-> insn.flags, ran |-> Block!Due]
  <2>1. last' = [op |-> insn.op, flags |-> insn.flags, ran |-> ran]
    BY DEF Retire
  <2>2. Block!Due = ran
    <3>1. Block!Due \in BOOLEAN
      BY Zenon DEF Block!Due
    <3> QED  BY <1>2, <3>1
  <2>3. QED
    BY <2>1, <2>2
<1>4. Pending(it_state', it_cond') = IF pending = <<>> THEN <<>> ELSE Tail(pending)
  BY <1>1, ShiftIsTail DEF Retire
<1>5. \/ flags' = flags
      \/ Block!Due /\ insn.flags = "set"
      \/ Block!Due /\ insn.flags = "set_alone" /\ pending = <<>>
  <2>1. pending = <<>> <=> emulator_execution_unconditionally
    BY <1>1, ShiftIsTail DEF emulator_execution_unconditionally
  <2>2. QED
    BY <1>2, <2>1 DEF FlagResults
<1>6. QED
  BY <1>3, <1>4, <1>5 DEF Block!Run

(* Refinement: in lawful blocks that were not opened inside another one, the
   bits of it_state and the condition next to them run every instruction as the
   letters of the disassembled IT instruction say, for any program. *)
THEOREM ItBlocksRunAsListed == Spec => ImplementsItBlock
<1> DEFINE Listed == (last'.op # "reset" /\ (last'.op = "it" => it_state = 0)
                        /\ LawfulBlock /\ LawfulBlock') => [Block!Next]_(Block!vars)
<1>1. Init => Block!Init
  BY NothingPending, SameConditions DEF Init, Block!Init
<1>2. IInv /\ [Next]_cpu_vars => [Listed]_cpu_vars
  <2> SUFFICES ASSUME IInv, Next, last'.op # "reset", last'.op = "it" => it_state = 0,
                      LawfulBlock
               PROVE  Block!Next
    OBVIOUS
  <2>1. PICK insn \in Program[reg_pc] : Step(insn)
    BY DEF Next, cpu_reset, ResetRegisters, cpu_single_step
  <2>2. last'.op = insn.op /\ last'.flags = insn.flags
    BY <2>1 DEF Step, Skip, ExecPlain, ExecIt, ExecBranch, Retire
  <2>3. CASE Skip(insn)
    <3>1. insn.op # "it"
      BY <2>2, <2>3 DEF Skip, emulator_should_exec_next_insn, Current, IT_NONE
    <3>2. Block!Run(insn.op, insn.flags)
      BY <2>3, RetireRunsVerdict DEF Skip
    <3>3. QED
      BY <2>2, <3>1, <3>2 DEF Block!Next
  <2>4. CASE ExecPlain(insn)
    <3>1. insn.op # "it"
      BY <2>4 DEF ExecPlain, PlainOps
    <3>2. Block!Run(insn.op, insn.flags)
      BY <2>4, RetireRunsVerdict DEF ExecPlain
    <3>3. QED
      BY <2>2, <3>1, <3>2 DEF Block!Next
  <2>5. CASE ExecBranch(insn)
    <3>1. insn.op # "it"
      BY <2>5 DEF ExecBranch, BranchOps
    <3>2. PICK next_pc : Retire(insn, TRUE, next_pc, Shifted(it_state), it_cond)
      BY <2>5 DEF ExecBranch
    <3>3. Block!Run(insn.op, insn.flags)
      BY <2>5, <3>2, RetireRunsVerdict DEF ExecBranch
    <3>4. QED
      BY <2>2, <3>1, <3>3 DEF Block!Next
  <2>6. CASE ExecIt(insn)
    <3>1. insn.op = "it" /\ it_state = 0
      BY <2>2, <2>6 DEF ExecIt
    <3>2. insn.firstcond \in Conditions /\ insn.mask \in 0 .. 15 /\ insn.flags = "keep"
      BY <3>1, Instruction, InsnsAssumption DEF IInv
    <3>3. /\ it_state' = it_T1(0, insn.firstcond, insn.mask)
          /\ it_cond' = insn.firstcond
          /\ last' = [op |-> "it", flags |-> "keep", ran |-> TRUE]
      BY <2>6, <3>1, <3>2 DEF ExecIt, Retire
    <3>4. Pending(it_state, it_cond) = <<>>
      BY <3>1, NothingPending
    <3>5. Pending(it_state', it_cond') = Block!Block(insn.firstcond, insn.mask)
      BY <3>2, <3>3, ItOpensBlock
    <3>6. Block!Open(insn.firstcond, insn.mask)
      BY <2>6, <3>3, <3>4, <3>5 DEF Block!Open, ExecIt
    <3>7. QED
      BY <2>2, <3>1, <3>2, <3>6, SameConditions DEF Block!Next
  <2>7. QED
    BY <2>1, <2>3, <2>4, <2>5, <2>6 DEF Step
<1>3. QED
  BY <1>1, <1>2, SpecIInv, PTL DEF Spec, ImplementsItBlock

------------------------------------------------------------------------------
(* The host. *)

(* A non-empty set of natural numbers has a least element. *)
LEMMA LeastNatural ==
  ASSUME NEW S \in SUBSET Nat, S # {}
  PROVE  \E m \in S : \A k \in S : m <= k
<1> DEFINE R == {ss \in Nat \X Nat : ss[1] < ss[2]}
<1>1. IsWellFoundedOn(R, Nat)
  BY NatLessThanWellFounded DEF OpToRel
<1>2. PICK m \in S : \A k \in S : <<k, m>> \notin R
  BY <1>1, WFMin
<1>3. \A k \in S : ~(k < m)
  BY <1>2
<1> QED
  BY <1>3

(* addrspace_getslice returns NULL or a slice of the machine that matches. *)
LEMMA GrantedSliceMatches ==
  ASSUME NEW a, NEW n
  PROVE  LET i == Space!getslice(Machine, a, n)
         IN /\ i \in 0 .. Len(Machine)
            /\ i # 0 => i \in 1 .. Len(Machine) /\ Space!Matches(Machine[i], a, n)
<1> DEFINE H == Space!Hits(Machine, a, n)
<1>1. H \subseteq 1 .. Len(Machine) /\ Len(Machine) \in Nat
  BY MachineAssumption DEF Space!Hits
<1>2. CASE H = {}
  BY <1>1, <1>2 DEF Space!getslice
<1>3. CASE H # {}
  <2>1. H \in SUBSET Nat
    BY <1>1
  <2>2. \E i \in H : \A j \in H : i <= j
    BY <1>3, <2>1, LeastNatural
  <2>3. Space!getslice(Machine, a, n) \in H
    BY <1>3, <2>2 DEF Space!getslice
  <2>4. QED
    BY <1>1, <2>3 DEF Space!Hits
<1>4. QED
  BY <1>2, <1>3

(* A slice that matches an access that does not pass the top of the address space has
   every part of it from its first byte on. *)
LEMMA MatchHoldsAccess ==
  ASSUME NEW s, s.begin \in Address, s.end \in Address,
         NEW a \in Address, NEW len \in Address, a + len <= PcMod,
         Space!Matches(s, a, len), NEW n \in 0 .. len
  PROVE  Space!InSlice(s, a, n)
<1>1. s.begin <= a /\ a + len <= s.end
  <2>1. CASE a + len = 0
    <3>1. -1 % PcMod = PcMod - 1
      BY PcModAssumption
    <3>2. (a + len - 1) % PcMod = PcMod - 1
      BY <2>1, <3>1 DEF Address
    <3>3. QED
      BY <3>2, PcModAssumption DEF Space!Matches, Address
  <2>2. CASE a + len # 0
    <3>1. (a + len - 1) % PcMod = a + len - 1
      BY <2>2, PcModAssumption DEF Address
    <3>2. QED
      BY <3>1, PcModAssumption DEF Space!Matches, Address
  <2>3. QED
    BY <2>1, <2>2
<1>2. (s.end - s.begin) % PcMod = s.end - s.begin
  BY <1>1, PcModAssumption DEF Address
<1>3. QED
  BY <1>1, <1>2 DEF Space!InSlice, Space!SliceOffset, Space!SliceLength, Address

------------------------------------------------------------------------------
(* The host only watches: every behaviour of the simulator is one of the core,
   so whatever is proved of the core holds in the simulator. *)
LEMMA SimulatorRunsTheCore == SimSpec => Spec
<1>1. SimInit => Init
  BY DEF SimInit
<1>2. [SimNext]_vars => [Next]_cpu_vars
  BY DEF SimNext, Run, Execute, AskHost, Next, cpu_single_step, vars
<1>3. QED
  BY <1>1, <1>2, PTL DEF SimSpec, Spec

(* The strengthening: a step is started only while nobody has asked for the end. *)
SimIInv ==
  /\ host \in {"check", "step", "returned", "fault"}
  /\ end_emulation \in BOOLEAN
  /\ call.slice \in 0 .. Len(Machine) /\ call.ptr \in Address /\ call.len \in Address /\ call.touched \in Nat
  /\ HostTouchesGuestMemoryOnly
  /\ host = "step" => ~end_emulation

(* A system call. *)
LEMMA ServeKeepsSimIInv ==
  ASSUME SimIInv, insn_ctr \in Nat, NEW c \in Calls, Serve(c) PROVE SimIInv'
<1> DEFINE takes == c.no \in {SYSCALL_GUEST_READ, SYSCALL_GUEST_WRITE, SYSCALL_GUEST_PUTS}
           i == IF takes THEN Space!getslice(Machine, c.ptr, c.len) ELSE 0
<1>1. c.ptr \in Address /\ c.len \in Address
  BY CallsAssumption
<1>2. PICK n \in Touched(c, i) :
        /\ call' = [no |-> c.no, ptr |-> c.ptr, len |-> c.len, slice |-> i, touched |-> n]
        /\ \/ host' = "check" /\ (n = 0 \/ i # 0)
           \/ host' = "fault" /\ n > 0 /\ ~(i # 0 /\ Space!InSlice(Machine[i], c.ptr, n))
  BY DEF Serve
<1>3. n \in Nat /\ (c.no # SYSCALL_GUEST_PUTS => n <= c.len)
  BY <1>1, TiredAssumption, StringsAssumption DEF Touched, Address
<1>4. /\ i \in 0 .. Len(Machine)
      /\ i # 0 => i \in 1 .. Len(Machine) /\ Space!Matches(Machine[i], c.ptr, c.len)
  BY GrantedSliceMatches, MachineAssumption
<1> HIDE DEF i
<1>5. i # 0 /\ c.ptr + c.len <= PcMod => \A m \in 0 .. n : m <= c.len => Space!InSlice(Machine[i], c.ptr, m)
  <2> SUFFICES ASSUME i # 0, c.ptr + c.len <= PcMod, NEW m \in 0 .. n, m <= c.len
               PROVE  Space!InSlice(Machine[i], c.ptr, m)
    OBVIOUS
  <2>1. Machine[i].begin \in Address /\ Machine[i].end \in Address /\ m \in 0 .. c.len
    BY <1>1, <1>3, <1>4, MachineAssumption DEF Address
  <2>2. QED
    BY <1>1, <1>4, <2>1, MatchHoldsAccess
<1>6. /\ call'.ptr = c.ptr /\ call'.len = c.len /\ call'.no = c.no
      /\ call'.slice = i /\ call'.touched = n
  BY <1>2
<1>7. host' \in {"check", "fault"} /\ (i = 0 /\ n > 0 => host' = "fault")
  BY <1>2, <1>3
<1>8. n > c.len => c.no = SYSCALL_GUEST_PUTS
  BY <1>1, <1>3 DEF Address
<1>9. HostTouchesGuestMemoryOnly'
  BY <1>5, <1>6, <1>7, <1>8 DEF HostTouchesGuestMemoryOnly
<1>10. end_emulation' \in BOOLEAN
  BY DEF Serve, SimIInv
<1>11. QED
  BY <1>1, <1>3, <1>4, <1>6, <1>7, <1>9, <1>10 DEF SimIInv

LEMMA SimInitIInv == SimInit => SimIInv
<1> SUFFICES ASSUME SimInit PROVE SimIInv
  OBVIOUS
<1>1. 0 \in Address
  BY PcModAssumption DEF Address
<1>2. call.ptr = 0 /\ call.len = 0 /\ call.slice = 0 /\ call.touched = 0
  BY DEF SimInit, NoCall
<1>3. host = "check"
  BY DEF SimInit
<1>4. end_emulation \in BOOLEAN
  BY Zenon DEF SimInit
<1>5. call.touched \in Nat
  BY <1>2
<1>6. call.slice \in 0 .. Len(Machine)
  BY <1>2, MachineAssumption
<1>7. HostTouchesGuestMemoryOnly
  BY <1>2 DEF HostTouchesGuestMemoryOnly
<1>8. QED
  BY <1>1, <1>2, <1>3, <1>4, <1>5, <1>6, <1>7 DEF SimIInv

LEMMA SimNextIInv == TypeOK /\ SimIInv /\ [SimNext]_vars => SimIInv'
<1> SUFFICES ASSUME TypeOK, SimIInv, [SimNext]_vars PROVE SimIInv'
  OBVIOUS
<1>1. insn_ctr \in Nat
  BY CtrModAssumption DEF TypeOK
<1>2. ASSUME UNCHANGED call, host # "fault"
      PROVE  HostTouchesGuestMemoryOnly'
  BY <1>2 DEF SimIInv, HostTouchesGuestMemoryOnly
<1>3. CASE AskHost
  BY <1>2, <1>3 DEF AskHost, SimIInv
<1>4. ASSUME NEW insn \in Program[reg_pc], host = "step", Execute(insn) PROVE SimIInv'
  <2>1. CASE \E c \in Calls : Serve(c)
    BY <1>1, <2>1, ServeKeepsSimIInv
  <2>2. CASE host' = "check" /\ UNCHANGED call /\ end_emulation' \in BOOLEAN
    BY <1>2, <1>4, <2>2 DEF SimIInv
  <2>3. end_emulation \in BOOLEAN
    BY DEF SimIInv
  <2>4. QED
    BY <1>4, <2>1, <2>2, <2>3 DEF Execute, Bkpt
<1>5. CASE UNCHANGED vars
  BY <1>5 DEF vars, SimIInv, HostTouchesGuestMemoryOnly
<1>6. QED
  BY <1>3, <1>4, <1>5 DEF SimNext, Run

LEMMA SimSpecIInv == SimSpec => [](TypeOK /\ SimIInv)
<1>1. SimSpec => []TypeOK
  BY SimulatorRunsTheCore, TypeCorrect, PTL
<1>2. QED
  BY <1>1, SimInitIInv, SimNextIInv, PTL DEF SimSpec

(* Type correctness: the slice a call is granted from is one of the machine's, or
   none. *)
THEOREM SimTypeCorrect == SimSpec => []SimTypeOK
<1>1. TypeOK /\ SimIInv => SimTypeOK
  BY DEF SimIInv, SimTypeOK
<1>2. QED
  BY <1>1, SimSpecIInv, PTL

(* Whatever a guest leaves in its registers: of what a callback touches, the bytes up to
   the guest's length lie in the buffer of the region the pointer was granted from, unless
   the two run past the top of the address space; only the reader of a string goes
   further, and nobody survives touching NULL. *)
THEOREM HostStaysInGuestMemory == SimSpec => []HostTouchesGuestMemoryOnly
<1>1. SimIInv => HostTouchesGuestMemoryOnly
  BY DEF SimIInv
<1>2. QED
  BY <1>1, SimSpecIInv, PTL

(* No instruction is executed after the request to end. *)
THEOREM EndIsPrompt == SimSpec => NoStepAfterEnd
<1>1. SimIInv /\ [SimNext]_vars => [end_emulation => UNCHANGED cpu_vars]_vars
  BY DEF SimIInv, SimNext, AskHost, Run
<1>2. QED
  BY <1>1, SimSpecIInv, PTL DEF SimSpec, NoStepAfterEnd
=============================================================================
