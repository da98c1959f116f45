----------------------------- MODULE Immediates -----------------------------
(***************************************************************************)
(* The immediate operands decode_insn hands to the handlers of 32-bit      *)
(* instructions: put together from the pieces an encoding scatters over    *)
(* the opcode, then extended to a word.  A word is the set of its bits     *)
(* that are one; a negative int32_t is its two's complement.               *)
(***************************************************************************)
EXTENDS Integers
Sets == INSTANCE FiniteSetsExt

(* (opcode & <bits low to high>) shifted by `by', to the left or right. *)
Piece(opcode, low, high, by) == {b + by : b \in opcode \cap (low .. high)}

(* imm12 of the arithmetic and logic, imm16 of the moves of halfwords. *)
Constant12(opcode) ==
  Piece(opcode, 26, 26, -15) \cup Piece(opcode, 12, 14, -4) \cup Piece(opcode, 0, 7, 0)
Constant16_Packed(opcode) ==   (* the upper four bits below the one beside them *)
  Piece(opcode, 26, 26, -11) \cup Piece(opcode, 12, 14, -4) \cup Piece(opcode, 0, 7, 0)
  \cup Piece(opcode, 16, 19, -5)
Constant16(opcode) == Constant12(opcode) \cup Piece(opcode, 16, 19, -4)

(* The amount a register operand is shifted by. *)
ShiftAmount(opcode) == Piece(opcode, 12, 14, -10) \cup Piece(opcode, 6, 7, -6)

(* The halfwords a branch goes, before the extension. *)
Offset20_Swapped(opcode) ==   (* the two bits in the order of the opcode *)
  Piece(opcode, 26, 26, -7) \cup Piece(opcode, 16, 21, -5) \cup Piece(opcode, 0, 10, 0)
  \cup Piece(opcode, 13, 13, 5) \cup Piece(opcode, 11, 11, 6)
Offset20(opcode) ==
  Piece(opcode, 26, 26, -7) \cup Piece(opcode, 16, 21, -5) \cup Piece(opcode, 0, 10, 0)
  \cup Piece(opcode, 13, 13, 4) \cup Piece(opcode, 11, 11, 7)
Offset24(opcode) ==
  Piece(opcode, 26, 26, -3) \cup Piece(opcode, 16, 25, -5) \cup Piece(opcode, 0, 10, 0)
  \cup Piece(opcode, 13, 13, 9) \cup Piece(opcode, 11, 11, 10)

(* The number that up to 24 bits are. *)
ValueOf(bits) ==
  LET below[n \in 0 .. 24] ==
        IF n = 0 THEN 0 ELSE below[n - 1] + (IF n - 1 \in bits THEN 2^(n - 1) ELSE 0)
  IN below[24]

------------------------------------------------------------------------------
(* Both bytes move within 32 bits: `rotate' is 8 at least. *)
ror32(in_value, rotate) ==
  {b + 32 - rotate : b \in {b \in in_value : b < rotate}}
  \cup {b - rotate : b \in {b \in in_value : b >= rotate}}

Byte(imm) == imm \cap (0 .. 7)
At(bits, by) == {b + by : b \in bits}

(* 1bcdefgh, rotated by the five bits above. *)
Rotated_WholeByte(imm) ==   (* imm & 0xff in place of 0x80 | (imm & 0x7f) *)
  ror32(Byte(imm), ValueOf(At(imm \cap (7 .. 11), -7)))
Rotated(imm) ==
  ror32({7} \cup (imm \cap (0 .. 6)), ValueOf(At(imm \cap (7 .. 11), -7)))

thumb_expand_imm(imm) ==
  LET pattern == imm \cap (8 .. 11)
  IN CASE pattern = {}  -> Byte(imm)
       [] pattern = {8} -> Byte(imm) \cup At(Byte(imm), 16)
       [] pattern = {9} -> At(Byte(imm), 8) \cup At(Byte(imm), 24)
       [] pattern = {8, 9} -> UNION {At(Byte(imm), by) : by \in {0, 8, 16, 24}}
       [] OTHER -> Rotated(imm)

thumb_sign_extend(imm, bit_length) ==
  IF bit_length - 1 \in imm THEN imm \cup (bit_length .. 31) ELSE imm

thumb_sign_extend20(imm) == thumb_sign_extend(imm, 20)

(* A sign and two bits that are inverted for a positive offset. *)
thumb_sign_extend24_EOR_Plain(imm) == thumb_sign_extend(imm, 24)   (* no EOR *)
thumb_sign_extend24_EOR(imm) ==
  LET sign(by) == At(imm \cap {23}, by)
  IN thumb_sign_extend(Sets!SymDiff(imm, Sets!SymDiff({21}, sign(-2)) \cup Sets!SymDiff({22}, sign(-1))), 24)

------------------------------------------------------------------------------
(* The encodings instructions.xml extends, and how. *)
Expanded ==
  {"adc_imm_T1", "bic_imm_T1", "rsb_imm_T2", "sbc_imm_T1", "cmn_imm_T1", "mov_imm_T2",
   "mvn_imm_T1", "tst_imm_T1", "add_SPi_T3", "and_imm_T1", "eor_imm_T1", "orr_imm_T1",
   "add_imm_T3", "cmp_imm_T2", "sub_imm_T3"}
Amounts == {"cmn_reg_T2", "mvn_reg_T2"}
Halfwords == {"mov_imm_T3", "movt_T1"}
LongBranches == {"b_T4", "bl_T1"}
Branches == LongBranches \cup {"b_T3"}
WithImmediate == Expanded \cup Amounts \cup Halfwords \cup Branches

(* The word the handler of such an encoding is called with. *)
Immediate(name, opcode) ==
  CASE name \in Expanded     -> thumb_expand_imm(Constant12(opcode))
    [] name \in Amounts      -> thumb_expand_imm(ShiftAmount(opcode))
    [] name \in Halfwords    -> Constant16(opcode)
    [] name \in LongBranches -> thumb_sign_extend24_EOR(Offset24(opcode))
    [] OTHER                 -> thumb_sign_extend20(Offset20(opcode))

------------------------------------------------------------------------------
(* The way back, which an assembler goes: the bits of the opcode that encode a
   word, by the value of the word alone. *)
Repeated(word) ==   (* the byte of a pattern, and the code of the pattern *)
  CASE word = Byte(word) \cup At(Byte(word), 16) -> Byte(word) \cup {8}
    [] word = At(Byte(At(word, -8)), 8) \cup At(Byte(At(word, -8)), 24) ->
         Byte(At(word, -8)) \cup {9}
    [] OTHER -> Byte(word) \cup {8, 9}

(* 00000000 00000000 00000000 abcdefgh, 1bcdefgh anywhere above it, or a pattern. *)
Encoded12(word) ==
  IF word \subseteq 0 .. 7 THEN word
  ELSE LET top == Sets!Max(word)
           rotate == 39 - top
       IN IF word \subseteq top - 7 .. top
            THEN At(word \ {top}, 7 - top)
                 \cup {b \in 7 .. 11 : (rotate \div 2^(b - 7)) % 2 = 1}
            ELSE Repeated(word)

Scattered12(imm12) ==
  Piece(imm12, 11, 11, 15) \cup Piece(imm12, 8, 10, 4) \cup Piece(imm12, 0, 7, 0)

Imm12Bits == {26} \cup (12 .. 14) \cup (0 .. 7)

(* A halfword is written as a number: twelve digits as above, the upper four by themselves. *)
EncodedHalfword(number) ==
  LET digits == {b \in 0 .. 15 : (number \div 2^b) % 2 = 1}
  IN Scattered12(digits) \cup Piece(digits, 12, 15, 4)

Imm16Bits == Imm12Bits \cup (16 .. 19)

(* The number of halfwords a word stands for. *)
Distance(word) == ValueOf(word \cap (0 .. 23)) - (IF 31 \in word THEN 2^24 ELSE 0)

(* How far a branch reaches, in halfwords, and the bits of the opcode that say so. *)
Reach(name) == IF name = "b_T3" THEN 2^19 ELSE 2^23
DistanceBits(name) ==
  {26, 13, 11} \cup (0 .. 10) \cup (16 .. IF name = "b_T3" THEN 21 ELSE 25)

(* A conditional branch has a number of 20 bits, any other one of 24 bits, the second
   and third of which are zero where they differ from the sign. *)
EncodedDistance(name, distance) ==
  LET digits == {b \in 0 .. 23 : ((distance % 2^24) \div 2^b) % 2 = 1}
      sign == distance < 0
  IN Piece(digits, 0, 10, 0)
     \cup (IF name = "b_T3"
             THEN Piece(digits, 11, 16, 5) \cup Piece(digits, 17, 17, -4)
                  \cup Piece(digits, 18, 18, -7) \cup Piece(digits, 19, 19, 7)
             ELSE Piece(digits, 11, 20, 5) \cup Piece(digits, 23, 23, 3)
                  \cup (IF 22 \in digits <=> sign THEN {13} ELSE {})
                  \cup (IF 21 \in digits <=> sign THEN {11} ELSE {}))
=============================================================================
