----------------------------- MODULE MCDecoder -----------------------------
(***************************************************************************)
(* Decoder on the opcodes that tell its branches apart: for every two      *)
(* encodings that have an opcode in common (and every one with itself)     *)
(* the common opcodes with the fewest and with the most ones; some that    *)
(* belong to none; every constant of a move; and moves of halfwords and    *)
(* branches with every combination of the bits at the ends of the pieces   *)
(* of their halfword or distance.                                          *)
(***************************************************************************)
EXTENDS Decoder

Overlaps ==
  {pair \in Encodings \X Encodings :
     /\ pair[1].ones \cap pair[2].zeros = {}
     /\ pair[2].ones \cap pair[1].zeros = {}}

CommonOpcodes ==
  UNION {{pair[1].ones \cup pair[2].ones,
          Bits \ (pair[1].zeros \cup pair[2].zeros)} : pair \in Overlaps}
  \cup {Bits, FirstHalf, Bits \ {28}}

Constants == {Named("mov_imm_T2").ones \cup bits : bits \in SUBSET Imm12Bits}

Moves ==
  {Named(name).ones \cup bits :
     name \in Halfwords, bits \in SUBSET {26, 19, 16, 14, 12, 7, 0}}

Jumps ==
  {Named(name).ones \cup bits :
     name \in Branches, bits \in SUBSET {26, 25, 21, 16, 13, 11, 10, 0}}

(* The premise of SpecialCasesComeFirst, for the table as it is. *)
ASSUME ChainIsInOrder == TableInOrder

MCOpcodes == CommonOpcodes \cup Constants \cup Moves \cup Jumps
=============================================================================
