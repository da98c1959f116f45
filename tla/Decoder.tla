------------------------------ MODULE Decoder ------------------------------
(***************************************************************************)
(* decode_insn: which of the encodings an opcode is taken for.  The        *)
(* emulator, the disassembler and (generated from the same description)    *)
(* InstructionSetDecoder.py all rely on the order of its branches.  Of the *)
(* arguments a handler is called with, the immediates that are extended.   *)
(***************************************************************************)
EXTENDS Encodings, Immediates, FiniteSets

CONSTANT Opcodes   (* the opcodes to decode *)

ASSUME OpcodesAssumption == Opcodes \subseteq SUBSET Bits

VARIABLES
  opcode,   (* what cpu_single_step has read at the pc, two halfwords *)
  decoded,  (* the encoding it is taken for, or Waiting, or Undecodable *)
  imm       (* the immediate its handler is called with, where it is extended *)

vars == <<opcode, decoded, imm>>

Waiting == Encoding("waiting", 0, {}, {})
Undecodable == Encoding("undecodable", 0, {}, {})

Encodings == {Chain[k] : k \in 1 .. Len(Chain)}

(* One condition of the chain. *)
Matches(e, op) == e.ones \subseteq op /\ e.zeros \cap op = {}

Decode_LastWins(op) ==   (* every branch is tried, the last one stays *)
  LET taken == {k \in 1 .. Len(Chain) : Matches(Chain[k], op)}
  IN IF taken = {} THEN Undecodable
     ELSE Chain[CHOOSE k \in taken : \A l \in taken : l <= k]

(* The branch taken: the first one whose condition holds. *)
Decode(op) ==
  LET taken == {k \in 1 .. Len(Chain) : Matches(Chain[k], op)}
  IN IF taken = {} THEN Undecodable
     ELSE Chain[CHOOSE k \in taken : \A l \in taken : k <= l]

Init == opcode \in Opcodes /\ decoded = Waiting /\ imm = {}

decode_insn ==
  /\ decoded = Waiting
  /\ decoded' = Decode(opcode)
  /\ imm' = IF decoded'.name \in WithImmediate THEN Immediate(decoded'.name, opcode) ELSE {}
  /\ UNCHANGED opcode

Spec == Init /\ [][decode_insn]_vars

------------------------------------------------------------------------------
Done == decoded # Waiting

(* How many halfwords an instruction has is in the upper five bits of the first:
   11101, 11110 and 11111 start a 32-bit one. *)
StartsWide(op) ==
  /\ {31, 30, 29} \subseteq op
  /\ {28, 27} \cap op # {}

(* The length decode_insn returns, by which the pc advances, is the one the
   architecture gives the instruction: the emulator never falls out of step
   with the instruction stream. *)
LengthMatchesFirstHalfword ==
  Done /\ decoded # Undecodable => (decoded.length = 4 <=> StartsWide(opcode))

(* A 16-bit instruction is decoded the same whatever follows it in memory;
   cpu_single_step always reads the halfword behind it as well. *)
NextHalfwordIrrelevant ==
  Done /\ decoded.length = 2 =>
    \A next \in {{}, SecondHalf, opcode \cap SecondHalf} :
      Decode((opcode \cap FirstHalf) \cup next) = decoded

(* p is a special case of q. *)
MoreSpecific(p, q) ==
  /\ q.ones \subseteq p.ones /\ q.zeros \subseteq p.zeros
  /\ p.ones # q.ones \/ p.zeros # q.zeros

(* The hand-written priorities put every special case before the general one:
   an opcode is never taken for an encoding when it belongs to a special case of
   it, as a hint to IT, a move to a shift by zero, or PUSH to STMDB. *)
SpecialCasesFirst ==
  Done => ~\E e \in Encodings : Matches(e, opcode) /\ MoreSpecific(e, decoded)

(* Of any two branches the special case comes first. *)
TableInOrder ==
  \A l \in 1 .. Len(Chain) : \A k \in 1 .. l - 1 : ~MoreSpecific(Chain[l], Chain[k])

(* What an assembler would do to get the constant gives the bits the opcode has: no
   constant is rotated by one too many or loses its top bit. *)
ConstantsReadBack ==
  Done =>
    /\ decoded.name \in Expanded =>
         \/ Scattered12(Encoded12(imm)) = opcode \cap Imm12Bits
         \/ imm = {} /\ opcode \cap (0 .. 7) = {}   (* a pattern of zeros *)
    /\ decoded.name \in Amounts => imm = ShiftAmount(opcode)

(* The number a halfword is moved from is assembled to the bits of the opcode, which has its
   digits in four places and the upper ones first. *)
HalfwordsReadBack ==
  Done /\ decoded.name \in Halfwords =>
    /\ imm \subseteq 0 .. 15
    /\ EncodedHalfword(ValueOf(imm)) = opcode \cap Imm16Bits

(* No branch goes to another place than the one it was assembled for, however far:
   its distance, which the handler gets as a word, is assembled to the same bits. *)
DistancesReadBack ==
  Done /\ decoded.name \in Branches =>
    /\ imm \cap (24 .. 31) \in {{}, 24 .. 31}
    /\ Distance(imm) \in -Reach(decoded.name) .. Reach(decoded.name) - 1
    /\ EncodedDistance(decoded.name, Distance(imm)) = opcode \cap DistanceBits(decoded.name)

(* A handler is called with the constant, halfword or distance its opcode was assembled for. *)
ImmediatesReadBack == ConstantsReadBack /\ HalfwordsReadBack /\ DistancesReadBack

------------------------------------------------------------------------------
Named(name) == CHOOSE e \in Encodings : e.name = name

(* decoder.c:6288, instructions.xml:180: opcodes of this form are bl_T1. *)
CallsAreDecoded == Done /\ Matches(Named("bl_T1"), opcode) => decoded.name = "bl_T1"
=============================================================================
