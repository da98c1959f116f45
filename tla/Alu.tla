--------------------------------- MODULE Alu ---------------------------------
(***************************************************************************)
(* What the data processing handlers of impl_emulation.c do to the flags,  *)
(* and the sums that flow through them: additions, subtractions and        *)
(* comparisons, moves and logic, shifts, and the writes of the flags.      *)
(*                                                                         *)
(* Words are uint32_t: numbers below Size (2^32 in the program).  The      *)
(* registers and immediates an instruction takes its operands from are     *)
(* data: an operand is any word, and so are the results of logic,          *)
(* products, quotients and bit fields.  A shift by n places is given by    *)
(* its factor, 2^n.                                                        *)
(***************************************************************************)
EXTENDS Conditions

CONSTANTS
  Half,     (* The words below it are the non-negative int32_t; 2^31. *)
  Factors   (* 2^n for each n places below the width of a word.       *)

ASSUME HalfAssumption == Half \in Nat \ {0}

VARIABLES
  flags,
  result,     (* the word written last                                         *)
  decided,    (* which instruction decided all four flags, if one instruction  *)
              (* did: "add" or "sub" (a comparison too), with its operands     *)
  carry_due   (* the carry out of the last addition, or the bit out of the     *)
              (* last shift, that set the flags, until another instruction     *)
              (* decides C; NoCarry if there is none                           *)

vars == <<flags, result, decided, carry_due>>

Size == 2 * Half
Words == 0 .. Size - 1

(* A factor is 1 or even, and the rest of the word is what it leaves of Size. *)
ASSUME FactorsAssumption ==
  \A f \in Factors :
    /\ f \in Nat \ {0} /\ (f = 1 \/ f % 2 = 0)
    /\ \E q \in 1 .. Size : Size = q * f

Word_Wide(v) == v   (* no uint32_t *)
Word(v) == v % Size
Signed(x) == IF x < Half THEN x ELSE x - Size

NoCarry == -1
Undecided == [op |-> "none", x |-> 0, y |-> 0]

------------------------------------------------------------------------------
addCondCode_LooseOverflow(x, y) ==   (* the signs of the operands not compared *)
  [n |-> Word(x + y) >= Half,
   z |-> Word(x + y) = 0,
   c |-> Word(x + y) < x \/ Word(x + y) < y,
   v |-> (x >= Half) # (Word(x + y) >= Half)]

addCondCode(x, y) ==
  [n |-> Word(x + y) >= Half,
   z |-> Word(x + y) = 0,
   c |-> Word(x + y) < x \/ Word(x + y) < y,
   v |-> (x >= Half) = (y >= Half) /\ (x >= Half) # (Word(x + y) >= Half)]

(* An int32_t that overflows has no defined value: the build computes it wrapped
   or, when it simplifies a comparison with 0, as if it were exact. *)
Overflowing(d) == {d, Signed(Word(d))}

subCondCodes_StrictCarry(x, y) ==   (* aX > aY *)
  {[n |-> Signed(x) < Signed(y), z |-> x = y, c |-> x > y, v |-> FALSE]}

(* subCondCode: the flags it may come to. *)
subCondCodes(x, y) ==
  {[n |-> difference < 0,
    z |-> x = y,
    c |-> x >= y,
    v |-> /\ (Signed(x) >= 0) # (Signed(y) >= 0)
          /\ (opposite >= 0) = (y > x)] :
     difference \in Overflowing(Signed(x) - Signed(y)),
     opposite \in Overflowing(Signed(y) - Signed(x) - 1)}

setMov_AllFlags(r) ==   (* clears FLAG_MASK, as setCondCode does *)
  [NoFlags EXCEPT !.n = (r >= Half), !.z = (r = 0)]

(* setMovCondCode: N and Z only. *)
setMov(r) == [flags EXCEPT !.n = (r >= Half), !.z = (r = 0)]

(* setLslCondCode *)
setLsl(r, carry) == [flags EXCEPT !.n = (r >= Half), !.z = (r = 0), !.c = carry]

KeepFlags == UNCHANGED <<flags, decided, carry_due>>

------------------------------------------------------------------------------
Init ==   (* cpu_reset *)
  /\ flags = NoFlags
  /\ result = 0
  /\ decided = Undecided
  /\ carry_due = NoCarry

(* Every handler either leaves the flags alone, because its encoding does, its S
   bit is clear or it is a 16-bit form in an IT block, or sets them. *)

(* add_imm, add_reg, add_SPi, add_SPr *)
Add(x, y) ==
  /\ result' = Word(x + y)
  /\ \/ KeepFlags
     \/ /\ flags' = addCondCode(x, y)
        /\ decided' = [op |-> "add", x |-> x, y |-> y]
        /\ carry_due' = IF x + y >= Size THEN 1 ELSE 0

(* sub_imm, sub_reg, sub_SPimm; rsb_imm and rsb_reg with the operands swapped *)
Sub(x, y) ==
  /\ result' = Word(x - y)
  /\ \/ KeepFlags
     \/ /\ flags' \in subCondCodes(x, y)
        /\ decided' = [op |-> "sub", x |-> x, y |-> y]
        /\ carry_due' = NoCarry

(* cmp_imm, cmp_reg, in an IT block too *)
Cmp(x, y) ==
  /\ flags' \in subCondCodes(x, y)
  /\ decided' = [op |-> "sub", x |-> x, y |-> y]
  /\ carry_due' = NoCarry
  /\ UNCHANGED result

Carry == IF flags.c THEN 1 ELSE 0

(* adc_imm_T1 and adc_reg_T2 with S clear *)
Adc(x, y) == result' = Word(x + Word(y + Carry)) /\ KeepFlags

(* The same with S set: the immediate form adds one more for the flags, the
   register form looks at the old value of the destination. *)
Adcs(x, y, old) ==
  /\ result' = Word(x + Word(y + Carry))
  /\ flags' \in {addCondCode(x, Word(y + Carry + 1)), addCondCode(old, Word(y + Carry))}
  /\ decided' = Undecided /\ carry_due' = NoCarry

(* and, orr_imm, orr_reg_T1, eor, bic, orn, mvn, mov_imm; tst writes nothing.
   mvn_imm sets the flags by the operand it complements. *)
Move(r) ==
  /\ \/ result' = r \/ result' = Size - 1 - r \/ UNCHANGED result
  /\ flags' = setMov(r)
  /\ decided' = Undecided
  /\ UNCHANGED carry_due

(* The bit that a shift moves out last; a shift by no place moves out none. *)
OutAtTop(x, f) == IF f = 1 THEN NoCarry ELSE (x \div (Size \div f)) % 2
OutAtBottom(x, f) == IF f = 1 THEN NoCarry ELSE IF x % f >= f \div 2 THEN 1 ELSE 0

ShiftFlags(r, carry, due) ==
  /\ flags' = setLsl(r, carry)
  /\ decided' = Undecided /\ carry_due' = due

lsl_imm_TopBit(x, f) ==   (* as barrel_shift does *)
  /\ result' = Word(x * f)
  /\ KeepFlags \/ ShiftFlags(Word(x * f), x >= Half, OutAtTop(x, f))

(* lsl_imm_T1: the carry is bit 32 of the shifted word, as a uint64_t. *)
lsl_imm(x, f) ==
  /\ result' = Word(x * f)
  /\ \/ KeepFlags
     \/ ShiftFlags(Word(x * f), ((x * f) \div Size) % 2 = 1, OutAtTop(x, f))

(* lsl_imm_T2, lsl_reg_T1 and lsl_reg_T2: barrel_shift takes the top bit of the
   operand for the carry, which is what comes out when the shift is by one. *)
lsl(x, f) ==
  /\ result' = Word(x * f)
  /\ \/ KeepFlags
     \/ ShiftFlags(Word(x * f), x >= Half, IF f = 2 THEN OutAtTop(x, f) ELSE NoCarry)

(* A bit below the lowest, 1 << (imm - 1) with imm = 0, is not defined. *)
BitsBelow(x, f) == IF f = 1 THEN BOOLEAN ELSE {(x \div (f \div 2)) % 2 = 1}

(* lsr_imm_T1, lsr_imm_T2, lsr_reg_T1, lsr_reg_T2 *)
lsr(x, f) ==
  /\ result' = x \div f
  /\ \/ KeepFlags
     \/ \E carry \in BitsBelow(x, f) : ShiftFlags(x \div f, carry, OutAtBottom(x, f))

(* asr_imm_T1 *)
asr(x, f) ==
  LET r == Word(Signed(x) \div f)
  IN /\ result' = r
     /\ \/ KeepFlags
        \/ \E carry \in BitsBelow(x, f) : ShiftFlags(r, carry, OutAtBottom(x, f))

(* ror_imm_T1: barrel_shift rotates and leaves the carry clear. *)
ror(x, f) ==
  LET r == (x % f) * (Size \div f) + (x \div f)
  IN /\ result' = r
     /\ KeepFlags \/ ShiftFlags(r, FALSE, NoCarry)

(* orr_reg_T2, and the shifts by a register that holds the width of a word or
   more, which C does not define: any word, and any bit as carry. *)
Shift(r, carry) ==
  /\ result' = r
  /\ ShiftFlags(r, carry, NoCarry)

(* What sets no flags: the above with S clear, mov_reg, movt, mul, sdiv, umull,
   clz, bfi, ubfx, sxtb, uxtb, uxth. *)
Compute(r) == result' = r /\ KeepFlags

(* msr_T1, for the upper bits of the psr *)
Msr(f) ==
  /\ flags' = f
  /\ decided' = Undecided /\ carry_due' = NoCarry
  /\ UNCHANGED result

Next ==
  \/ \E x, y \in Words : Add(x, y) \/ Sub(x, y) \/ Cmp(x, y) \/ Adc(x, y)
  \/ \E x, y, old \in Words : Adcs(x, y, old)
  \/ \E x \in Words, f \in Factors :
       lsl_imm(x, f) \/ lsl(x, f) \/ lsr(x, f) \/ asr(x, f) \/ ror(x, f)
  \/ \E r \in Words : Move(r) \/ Compute(r)
  \/ \E r \in Words, carry \in BOOLEAN : Shift(r, carry)
  \/ \E f \in Flags : Msr(f)

Spec == Init /\ [][Next]_vars

------------------------------------------------------------------------------
TypeOK ==
  /\ flags \in Flags
  /\ result \in Words
  /\ decided \in [op : {"none", "add", "sub"}, x : Words, y : Words]
  /\ carry_due \in {NoCarry, 0, 1}

(* thumb2sim.h: after a comparison or a subtraction, and anything that leaves the
   flags alone, the unsigned conditions are what their comments say: equal, not
   equal, higher or same, lower, higher, lower or same. *)
UnsignedComparisonsDecided ==
  decided.op = "sub" =>
    LET x == decided.x
        y == decided.y
    IN /\ cond_satisfied(flags, 0) <=> x = y
       /\ cond_satisfied(flags, 1) <=> x # y
       /\ cond_satisfied(flags, 2) <=> x >= y
       /\ cond_satisfied(flags, 3) <=> x < y
       /\ cond_satisfied(flags, 8) <=> x > y
       /\ cond_satisfied(flags, 9) <=> x <= y

(* After an addition the conditions tell its exact sum, of unsigned numbers and of
   signed ones: whether it left the words, and its sign even when it overflowed. *)
SumsDecided ==
  decided.op = "add" =>
    LET x == decided.x
        y == decided.y
    IN /\ cond_satisfied(flags, 2) <=> x + y >= Size
       /\ cond_satisfied(flags, 11) <=> Signed(x) + Signed(y) < 0
       /\ cond_satisfied(flags, 10) <=> Signed(x) + Signed(y) >= 0
       /\ cond_satisfied(flags, 6) <=> Signed(x) + Signed(y) \notin -Half .. Half - 1

(* Numbers of two words, and rounding: the carry of the low words' addition, or
   the bit a shift has moved out (doubling a number of two words; rounding a
   quotient by a power of two), gets into the next sum with carry, whatever moves,
   logic and unflagged arithmetic the compiler has put between the two. *)
LongAddition ==
  [][\A x, y \in Words :
       carry_due # NoCarry /\ Adc(x, y) => result' = Word(x + y + carry_due)]_vars

(* thumb2sim.h: "Signed >=", "Signed <", "Signed >", "Signed <=". *)
SignedComparisonsDecided ==
  decided.op = "sub" =>
    LET x == Signed(decided.x)
        y == Signed(decided.y)
    IN /\ cond_satisfied(flags, 10) <=> x >= y
       /\ cond_satisfied(flags, 11) <=> x < y
       /\ cond_satisfied(flags, 12) <=> x > y
       /\ cond_satisfied(flags, 13) <=> x <= y
==============================================================================
