----------------------------- MODULE Decoder_proofs -----------------------------
(* Proofs about Decoder, for every opcode. *)
EXTENDS Decoder, SequenceTheorems, WellFoundedInduction, TLAPS

(* Of some branches one is the first. *)
LEMMA LeastIndex ==
  ASSUME NEW taken \in SUBSET Nat, taken # {}
  PROVE  \E k \in taken : \A l \in taken : k <= l
<1> DEFINE R == {pair \in Nat \X Nat : pair[1] < pair[2]}
<1>1. IsWellFoundedOn(R, Nat)
  BY NatLessThanWellFounded DEF OpToRel
<1>2. PICK k \in taken : \A l \in taken : <<l, k>> \notin R
  BY <1>1, WFMin
<1>3. \A l \in taken : ~(l < k)
  BY <1>2
<1>4. QED
  BY <1>3

------------------------------------------------------------------------------
(* The bits of the first halfword, one by one. *)
LEMMA UpperBits ==
  ASSUME NEW h \in Nat
  PROVE  /\ 31 \in HalfwordBits(h, 16) <=> (h \div 32768) % 2 = 1
         /\ 30 \in HalfwordBits(h, 16) <=> (h \div 16384) % 2 = 1
         /\ 29 \in HalfwordBits(h, 16) <=> (h \div 8192) % 2 = 1
         /\ 28 \in HalfwordBits(h, 16) <=> (h \div 4096) % 2 = 1
         /\ 27 \in HalfwordBits(h, 16) <=> (h \div 2048) % 2 = 1
<1>1. 2^15 = 32768 /\ 2^14 = 16384 /\ 2^13 = 8192 /\ 2^12 = 4096 /\ 2^11 = 2048
  OBVIOUS
<1>2. 31 - 16 = 15 /\ 30 - 16 = 14 /\ 29 - 16 = 13 /\ 28 - 16 = 12 /\ 27 - 16 = 11
  OBVIOUS
<1>3. QED
  BY <1>1, <1>2 DEF HalfwordBits

(* An encoding says in its first halfword how long it is: a 32-bit one starts as such,
   a 16-bit one cannot and asks for nothing else. *)
Sound(e) ==
  \/ e.length = 4 /\ {31, 30, 29} \subseteq e.ones /\ {28, 27} \cap e.ones # {}
  \/ /\ e.length = 2 /\ e.ones \subseteq FirstHalf /\ e.zeros \subseteq FirstHalf
     /\ {31, 30, 29} \cap e.zeros # {} \/ {28, 27} \subseteq e.zeros

LEMMA WideIsSound ==
  \A name : \A mask1, value1, mask2, value2 \in Nat :
    /\ mask1 >= \hf800 /\ mask1 <= \hffff
    /\ value1 >= \he800 /\ value1 <= \hffff
    => Sound(Wide(name, mask1, value1, mask2, value2))
<1> SUFFICES ASSUME NEW name, NEW mask1 \in Nat, NEW value1 \in Nat, NEW mask2 \in Nat, NEW value2 \in Nat,
                    mask1 >= \hf800, mask1 <= \hffff, value1 >= \he800, value1 <= \hffff
             PROVE  Sound(Wide(name, mask1, value1, mask2, value2))
  BY SMT
<1> DEFINE mask == HalfwordBits(mask1, 16) \cup HalfwordBits(mask2, 0)
           value == HalfwordBits(value1, 16) \cup HalfwordBits(value2, 0)
<1>1. {31, 30, 29, 28, 27} \subseteq HalfwordBits(mask1, 16)
  BY SMT, UpperBits
<1>2. {31, 30, 29} \subseteq HalfwordBits(value1, 16) /\ {28, 27} \cap HalfwordBits(value1, 16) # {}
  BY SMT, UpperBits
<1>3. {31, 30, 29} \subseteq mask \cap value /\ {28, 27} \cap (mask \cap value) # {}
  BY <1>1, <1>2
<1> HIDE DEF mask, value
<1>4. Sound(Encoding(name, 4, mask, value))
  BY <1>3 DEF Sound, Encoding
<1>5. QED
  BY <1>4 DEF Wide, mask, value

LEMMA NarrowIsSound ==
  \A name : \A mask1, value1 \in Nat :
    /\ mask1 >= \hf000 /\ mask1 <= \hffff
    /\ value1 < \he000 \/ (value1 < \he800 /\ mask1 >= \hf800)
    => Sound(Narrow(name, mask1, value1))
<1> SUFFICES ASSUME NEW name, NEW mask1 \in Nat, NEW value1 \in Nat, mask1 >= \hf000, mask1 <= \hffff,
                    value1 < \he000 \/ (value1 < \he800 /\ mask1 >= \hf800)
             PROVE  Sound(Narrow(name, mask1, value1))
  BY SMT
<1> DEFINE mask == HalfwordBits(mask1, 16)
           value == HalfwordBits(value1, 16)
<1>1. mask \subseteq FirstHalf
  BY DEF HalfwordBits, FirstHalf
<1>2. {31, 30, 29, 28} \subseteq mask /\ (mask1 >= \hf800 => 27 \in mask)
  BY SMT, UpperBits
<1>3. value1 < \he000 => ~({31, 30, 29} \subseteq value)
  BY SMT, UpperBits
<1>4. value1 >= \he000 /\ value1 < \he800 => 28 \notin value /\ 27 \notin value
  BY SMT, UpperBits
<1>5. {31, 30, 29} \cap (mask \ value) # {} \/ {28, 27} \subseteq mask \ value
  <2>1. CASE value1 < \he000
    BY SMT, <1>2, <1>3, <2>1
  <2>2. CASE value1 >= \he000 /\ value1 < \he800 /\ mask1 >= \hf800
    BY SMT, <1>2, <1>4, <2>2
  <2>3. QED
    BY SMT, <2>1, <2>2
<1> HIDE DEF mask, value
<1>6. Sound(Encoding(name, 2, mask, value))
  BY <1>1, <1>5 DEF Sound, Encoding
<1>7. QED
  BY <1>6 DEF Narrow, mask, value

(* A run of branches that is sound throughout. *)
SoundTable(s) == \E S : s \in Seq(S) /\ \A e \in S : Sound(e)

LEMMA Concatenated == ASSUME NEW s, NEW t, SoundTable(s), SoundTable(t) PROVE SoundTable(s \o t)
<1>1. PICK S : s \in Seq(S) /\ \A e \in S : Sound(e)
  BY DEF SoundTable
<1>2. PICK T : t \in Seq(T) /\ \A e \in T : Sound(e)
  BY DEF SoundTable
<1>3. s \o t \in Seq(S \cup T) /\ \A e \in S \cup T : Sound(e)
  BY <1>1, <1>2
<1>4. QED
  BY <1>3 DEF SoundTable

(* A run of branches each of which is sound. *)
LEMMA BranchByBranch ==
  ASSUME NEW s, NEW n, s \in Seq({s[k] : k \in 1 .. n}), \A k \in 1 .. n : Sound(s[k])
  PROVE  SoundTable(s)
<1> DEFINE S == {s[k] : k \in 1 .. n}
<1>1. s \in Seq(S) /\ \A e \in S : Sound(e)
  OBVIOUS
<1> HIDE DEF S
<1>2. QED
  BY <1>1 DEF SoundTable

------------------------------------------------------------------------------
(* Run by run, and the whole chain. *)
LEMMA Priority0_adc_imm_T1_to_adr_T1_Sound == SoundTable(Priority0_adc_imm_T1_to_adr_T1)
<1>1. \A k \in 1 .. 9 : Sound(Priority0_adc_imm_T1_to_adr_T1[k])
  BY SMT, WideIsSound, NarrowIsSound DEF Priority0_adc_imm_T1_to_adr_T1
<1>2. Priority0_adc_imm_T1_to_adr_T1 \in Seq({Priority0_adc_imm_T1_to_adr_T1[k] : k \in 1 .. 9})
  BY SMT DEF Priority0_adc_imm_T1_to_adr_T1
<1>3. QED
  BY <1>1, <1>2, BranchByBranch

LEMMA Priority0_and_reg_T1_to_bkpt_T1_Sound == SoundTable(Priority0_and_reg_T1_to_bkpt_T1)
<1>1. \A k \in 1 .. 9 : Sound(Priority0_and_reg_T1_to_bkpt_T1[k])
  BY SMT, WideIsSound, NarrowIsSound DEF Priority0_and_reg_T1_to_bkpt_T1
<1>2. Priority0_and_reg_T1_to_bkpt_T1 \in Seq({Priority0_and_reg_T1_to_bkpt_T1[k] : k \in 1 .. 9})
  BY SMT DEF Priority0_and_reg_T1_to_bkpt_T1
<1>3. QED
  BY <1>1, <1>2, BranchByBranch

LEMMA Priority0_blx_reg_T1_to_eor_reg_T1_Sound == SoundTable(Priority0_blx_reg_T1_to_eor_reg_T1)
<1>1. \A k \in 1 .. 10 : Sound(Priority0_blx_reg_T1_to_eor_reg_T1[k])
  BY SMT, WideIsSound, NarrowIsSound DEF Priority0_blx_reg_T1_to_eor_reg_T1
<1>2. Priority0_blx_reg_T1_to_eor_reg_T1 \in Seq({Priority0_blx_reg_T1_to_eor_reg_T1[k] : k \in 1 .. 10})
  BY SMT DEF Priority0_blx_reg_T1_to_eor_reg_T1
<1>3. QED
  BY <1>1, <1>2, BranchByBranch

LEMMA Priority0_ldm_T1_to_ldrh_imm_T1_Sound == SoundTable(Priority0_ldm_T1_to_ldrh_imm_T1)
<1>1. \A k \in 1 .. 9 : Sound(Priority0_ldm_T1_to_ldrh_imm_T1[k])
  BY SMT, WideIsSound, NarrowIsSound DEF Priority0_ldm_T1_to_ldrh_imm_T1
<1>2. Priority0_ldm_T1_to_ldrh_imm_T1 \in Seq({Priority0_ldm_T1_to_ldrh_imm_T1[k] : k \in 1 .. 9})
  BY SMT DEF Priority0_ldm_T1_to_ldrh_imm_T1
<1>3. QED
  BY <1>1, <1>2, BranchByBranch

LEMMA Priority0_ldrh_reg_T1_to_mcr2_T2_Sound == SoundTable(Priority0_ldrh_reg_T1_to_mcr2_T2)
<1>1. \A k \in 1 .. 9 : Sound(Priority0_ldrh_reg_T1_to_mcr2_T2[k])
  BY SMT, WideIsSound, NarrowIsSound DEF Priority0_ldrh_reg_T1_to_mcr2_T2
<1>2. Priority0_ldrh_reg_T1_to_mcr2_T2 \in Seq({Priority0_ldrh_reg_T1_to_mcr2_T2[k] : k \in 1 .. 9})
  BY SMT DEF Priority0_ldrh_reg_T1_to_mcr2_T2
<1>3. QED
  BY <1>1, <1>2, BranchByBranch

LEMMA Priority0_mls_T1_to_pkhbt_T1_Sound == SoundTable(Priority0_mls_T1_to_pkhbt_T1)
<1>1. \A k \in 1 .. 9 : Sound(Priority0_mls_T1_to_pkhbt_T1[k])
  BY SMT, WideIsSound, NarrowIsSound DEF Priority0_mls_T1_to_pkhbt_T1
<1>2. Priority0_mls_T1_to_pkhbt_T1 \in Seq({Priority0_mls_T1_to_pkhbt_T1[k] : k \in 1 .. 9})
  BY SMT DEF Priority0_mls_T1_to_pkhbt_T1
<1>3. QED
  BY <1>1, <1>2, BranchByBranch

LEMMA Priority0_pop_T1_to_qsub8_T1_Sound == SoundTable(Priority0_pop_T1_to_qsub8_T1)
<1>1. \A k \in 1 .. 9 : Sound(Priority0_pop_T1_to_qsub8_T1[k])
  BY SMT, WideIsSound, NarrowIsSound DEF Priority0_pop_T1_to_qsub8_T1
<1>2. Priority0_pop_T1_to_qsub8_T1 \in Seq({Priority0_pop_T1_to_qsub8_T1[k] : k \in 1 .. 9})
  BY SMT DEF Priority0_pop_T1_to_qsub8_T1
<1>3. QED
  BY <1>1, <1>2, BranchByBranch

LEMMA Priority0_qsub_T1_to_ror_reg_T2_Sound == SoundTable(Priority0_qsub_T1_to_ror_reg_T2)
<1>1. \A k \in 1 .. 10 : Sound(Priority0_qsub_T1_to_ror_reg_T2[k])
  BY SMT, WideIsSound, NarrowIsSound DEF Priority0_qsub_T1_to_ror_reg_T2
<1>2. Priority0_qsub_T1_to_ror_reg_T2 \in Seq({Priority0_qsub_T1_to_ror_reg_T2[k] : k \in 1 .. 10})
  BY SMT DEF Priority0_qsub_T1_to_ror_reg_T2
<1>3. QED
  BY <1>1, <1>2, BranchByBranch

LEMMA Priority0_rsb_imm_T1_to_sbc_reg_T1_Sound == SoundTable(Priority0_rsb_imm_T1_to_sbc_reg_T1)
<1>1. \A k \in 1 .. 8 : Sound(Priority0_rsb_imm_T1_to_sbc_reg_T1[k])
  BY SMT, WideIsSound, NarrowIsSound DEF Priority0_rsb_imm_T1_to_sbc_reg_T1
<1>2. Priority0_rsb_imm_T1_to_sbc_reg_T1 \in Seq({Priority0_rsb_imm_T1_to_sbc_reg_T1[k] : k \in 1 .. 8})
  BY SMT DEF Priority0_rsb_imm_T1_to_sbc_reg_T1
<1>3. QED
  BY <1>1, <1>2, BranchByBranch

LEMMA Priority0_sbc_reg_T2_to_shsax_T1_Sound == SoundTable(Priority0_sbc_reg_T2_to_shsax_T1)
<1>1. \A k \in 1 .. 8 : Sound(Priority0_sbc_reg_T2_to_shsax_T1[k])
  BY SMT, WideIsSound DEF Priority0_sbc_reg_T2_to_shsax_T1
<1>2. Priority0_sbc_reg_T2_to_shsax_T1 \in Seq({Priority0_sbc_reg_T2_to_shsax_T1[k] : k \in 1 .. 8})
  BY SMT DEF Priority0_sbc_reg_T2_to_shsax_T1
<1>3. QED
  BY <1>1, <1>2, BranchByBranch

LEMMA Priority0_shsub16_T1_to_smull_T1_Sound == SoundTable(Priority0_shsub16_T1_to_smull_T1)
<1>1. \A k \in 1 .. 8 : Sound(Priority0_shsub16_T1_to_smull_T1[k])
  BY SMT, WideIsSound DEF Priority0_shsub16_T1_to_smull_T1
<1>2. Priority0_shsub16_T1_to_smull_T1 \in Seq({Priority0_shsub16_T1_to_smull_T1[k] : k \in 1 .. 8})
  BY SMT DEF Priority0_shsub16_T1_to_smull_T1
<1>3. QED
  BY <1>1, <1>2, BranchByBranch

LEMMA Priority0_ssax_T1_to_str_reg_T1_Sound == SoundTable(Priority0_ssax_T1_to_str_reg_T1)
<1>1. \A k \in 1 .. 9 : Sound(Priority0_ssax_T1_to_str_reg_T1[k])
  BY SMT, WideIsSound, NarrowIsSound DEF Priority0_ssax_T1_to_str_reg_T1
<1>2. Priority0_ssax_T1_to_str_reg_T1 \in Seq({Priority0_ssax_T1_to_str_reg_T1[k] : k \in 1 .. 9})
  BY SMT DEF Priority0_ssax_T1_to_str_reg_T1
<1>3. QED
  BY <1>1, <1>2, BranchByBranch

LEMMA Priority0_str_reg_T2_to_strh_reg_T2_Sound == SoundTable(Priority0_str_reg_T2_to_strh_reg_T2)
<1>1. \A k \in 1 .. 9 : Sound(Priority0_str_reg_T2_to_strh_reg_T2[k])
  BY SMT, WideIsSound, NarrowIsSound DEF Priority0_str_reg_T2_to_strh_reg_T2
<1>2. Priority0_str_reg_T2_to_strh_reg_T2 \in Seq({Priority0_str_reg_T2_to_strh_reg_T2[k] : k \in 1 .. 9})
  BY SMT DEF Priority0_str_reg_T2_to_strh_reg_T2
<1>3. QED
  BY <1>1, <1>2, BranchByBranch

LEMMA Priority0_sub_SPimm_T1_to_uasx_T1_Sound == SoundTable(Priority0_sub_SPimm_T1_to_uasx_T1)
<1>1. \A k \in 1 .. 10 : Sound(Priority0_sub_SPimm_T1_to_uasx_T1[k])
  BY SMT, WideIsSound, NarrowIsSound DEF Priority0_sub_SPimm_T1_to_uasx_T1
<1>2. Priority0_sub_SPimm_T1_to_uasx_T1 \in Seq({Priority0_sub_SPimm_T1_to_uasx_T1[k] : k \in 1 .. 10})
  BY SMT DEF Priority0_sub_SPimm_T1_to_uasx_T1
<1>3. QED
  BY <1>1, <1>2, BranchByBranch

LEMMA Priority0_ubfx_T1_to_umaal_T1_Sound == SoundTable(Priority0_ubfx_T1_to_umaal_T1)
<1>1. \A k \in 1 .. 9 : Sound(Priority0_ubfx_T1_to_umaal_T1[k])
  BY SMT, WideIsSound DEF Priority0_ubfx_T1_to_umaal_T1
<1>2. Priority0_ubfx_T1_to_umaal_T1 \in Seq({Priority0_ubfx_T1_to_umaal_T1[k] : k \in 1 .. 9})
  BY SMT DEF Priority0_ubfx_T1_to_umaal_T1
<1>3. QED
  BY <1>1, <1>2, BranchByBranch

LEMMA Priority0_umlal_T1_to_usax_T1_Sound == SoundTable(Priority0_umlal_T1_to_usax_T1)
<1>1. \A k \in 1 .. 9 : Sound(Priority0_umlal_T1_to_usax_T1[k])
  BY SMT, WideIsSound DEF Priority0_umlal_T1_to_usax_T1
<1>2. Priority0_umlal_T1_to_usax_T1 \in Seq({Priority0_umlal_T1_to_usax_T1[k] : k \in 1 .. 9})
  BY SMT DEF Priority0_umlal_T1_to_usax_T1
<1>3. QED
  BY <1>1, <1>2, BranchByBranch

LEMMA Priority0_usub16_T1_to_uxth_T1_Sound == SoundTable(Priority0_usub16_T1_to_uxth_T1)
<1>1. \A k \in 1 .. 4 : Sound(Priority0_usub16_T1_to_uxth_T1[k])
  BY SMT, WideIsSound, NarrowIsSound DEF Priority0_usub16_T1_to_uxth_T1
<1>2. Priority0_usub16_T1_to_uxth_T1 \in Seq({Priority0_usub16_T1_to_uxth_T1[k] : k \in 1 .. 4})
  BY SMT DEF Priority0_usub16_T1_to_uxth_T1
<1>3. QED
  BY <1>1, <1>2, BranchByBranch

LEMMA Priority1_add_SPi_T4_to_ldrexh_T1_Sound == SoundTable(Priority1_add_SPi_T4_to_ldrexh_T1)
<1>1. \A k \in 1 .. 10 : Sound(Priority1_add_SPi_T4_to_ldrexh_T1[k])
  BY SMT, WideIsSound, NarrowIsSound DEF Priority1_add_SPi_T4_to_ldrexh_T1
<1>2. Priority1_add_SPi_T4_to_ldrexh_T1 \in Seq({Priority1_add_SPi_T4_to_ldrexh_T1[k] : k \in 1 .. 10})
  BY SMT DEF Priority1_add_SPi_T4_to_ldrexh_T1
<1>3. QED
  BY <1>1, <1>2, BranchByBranch

LEMMA Priority1_ldrh_reg_T2_to_mrrc2_T2_Sound == SoundTable(Priority1_ldrh_reg_T2_to_mrrc2_T2)
<1>1. \A k \in 1 .. 8 : Sound(Priority1_ldrh_reg_T2_to_mrrc2_T2[k])
  BY SMT, WideIsSound, NarrowIsSound DEF Priority1_ldrh_reg_T2_to_mrrc2_T2
<1>2. Priority1_ldrh_reg_T2_to_mrrc2_T2 \in Seq({Priority1_ldrh_reg_T2_to_mrrc2_T2[k] : k \in 1 .. 8})
  BY SMT DEF Priority1_ldrh_reg_T2_to_mrrc2_T2
<1>3. QED
  BY <1>1, <1>2, BranchByBranch

LEMMA Priority1_mul_T2_to_push_T2_Sound == SoundTable(Priority1_mul_T2_to_push_T2)
<1>1. \A k \in 1 .. 10 : Sound(Priority1_mul_T2_to_push_T2[k])
  BY SMT, WideIsSound, NarrowIsSound DEF Priority1_mul_T2_to_push_T2
<1>2. Priority1_mul_T2_to_push_T2 \in Seq({Priority1_mul_T2_to_push_T2[k] : k \in 1 .. 10})
  BY SMT DEF Priority1_mul_T2_to_push_T2
<1>3. QED
  BY <1>1, <1>2, BranchByBranch

LEMMA Priority1_push_T3_to_smulwb_T1_Sound == SoundTable(Priority1_push_T3_to_smulwb_T1)
<1>1. \A k \in 1 .. 9 : Sound(Priority1_push_T3_to_smulwb_T1[k])
  BY SMT, WideIsSound, NarrowIsSound DEF Priority1_push_T3_to_smulwb_T1
<1>2. Priority1_push_T3_to_smulwb_T1 \in Seq({Priority1_push_T3_to_smulwb_T1[k] : k \in 1 .. 9})
  BY SMT DEF Priority1_push_T3_to_smulwb_T1
<1>3. QED
  BY <1>1, <1>2, BranchByBranch

LEMMA Priority1_smusd_T1_to_sxtb16_T1_Sound == SoundTable(Priority1_smusd_T1_to_sxtb16_T1)
<1>1. \A k \in 1 .. 9 : Sound(Priority1_smusd_T1_to_sxtb16_T1[k])
  BY SMT, WideIsSound, NarrowIsSound DEF Priority1_smusd_T1_to_sxtb16_T1
<1>2. Priority1_smusd_T1_to_sxtb16_T1 \in Seq({Priority1_smusd_T1_to_sxtb16_T1[k] : k \in 1 .. 9})
  BY SMT DEF Priority1_smusd_T1_to_sxtb16_T1
<1>3. QED
  BY <1>1, <1>2, BranchByBranch

LEMMA Priority1_sxtb_T2_to_usat16_T1_Sound == SoundTable(Priority1_sxtb_T2_to_usat16_T1)
<1>1. \A k \in 1 .. 9 : Sound(Priority1_sxtb_T2_to_usat16_T1[k])
  BY SMT, WideIsSound, NarrowIsSound DEF Priority1_sxtb_T2_to_usat16_T1
<1>2. Priority1_sxtb_T2_to_usat16_T1 \in Seq({Priority1_sxtb_T2_to_usat16_T1[k] : k \in 1 .. 9})
  BY SMT DEF Priority1_sxtb_T2_to_usat16_T1
<1>3. QED
  BY <1>1, <1>2, BranchByBranch

LEMMA Priority1_uxtb16_T1_to_vmov_armscl_T1_Sound == SoundTable(Priority1_uxtb16_T1_to_vmov_armscl_T1)
<1>1. \A k \in 1 .. 8 : Sound(Priority1_uxtb16_T1_to_vmov_armscl_T1[k])
  BY SMT, WideIsSound DEF Priority1_uxtb16_T1_to_vmov_armscl_T1
<1>2. Priority1_uxtb16_T1_to_vmov_armscl_T1 \in Seq({Priority1_uxtb16_T1_to_vmov_armscl_T1[k] : k \in 1 .. 8})
  BY SMT DEF Priority1_uxtb16_T1_to_vmov_armscl_T1
<1>3. QED
  BY <1>1, <1>2, BranchByBranch

LEMMA Priority1_vmov_reg_T1_to_yield_T1_Sound == SoundTable(Priority1_vmov_reg_T1_to_yield_T1)
<1>1. \A k \in 1 .. 9 : Sound(Priority1_vmov_reg_T1_to_yield_T1[k])
  BY SMT, WideIsSound, NarrowIsSound DEF Priority1_vmov_reg_T1_to_yield_T1
<1>2. Priority1_vmov_reg_T1_to_yield_T1 \in Seq({Priority1_vmov_reg_T1_to_yield_T1[k] : k \in 1 .. 9})
  BY SMT DEF Priority1_vmov_reg_T1_to_yield_T1
<1>3. QED
  BY <1>1, <1>2, BranchByBranch

LEMMA Priority2_add_SPi_T3_to_b_T1_Sound == SoundTable(Priority2_add_SPi_T3_to_b_T1)
<1>1. \A k \in 1 .. 8 : Sound(Priority2_add_SPi_T3_to_b_T1[k])
  BY SMT, WideIsSound, NarrowIsSound DEF Priority2_add_SPi_T3_to_b_T1
<1>2. Priority2_add_SPi_T3_to_b_T1 \in Seq({Priority2_add_SPi_T3_to_b_T1[k] : k \in 1 .. 8})
  BY SMT DEF Priority2_add_SPi_T3_to_b_T1
<1>3. QED
  BY <1>1, <1>2, BranchByBranch

LEMMA Priority2_bfi_T1_to_ldrex_T1_Sound == SoundTable(Priority2_bfi_T1_to_ldrex_T1)
<1>1. \A k \in 1 .. 8 : Sound(Priority2_bfi_T1_to_ldrex_T1[k])
  BY SMT, WideIsSound, NarrowIsSound DEF Priority2_bfi_T1_to_ldrex_T1
<1>2. Priority2_bfi_T1_to_ldrex_T1 \in Seq({Priority2_bfi_T1_to_ldrex_T1[k] : k \in 1 .. 8})
  BY SMT DEF Priority2_bfi_T1_to_ldrex_T1
<1>3. QED
  BY <1>1, <1>2, BranchByBranch

LEMMA Priority2_ldrht_T1_to_mov_imm_T3_Sound == SoundTable(Priority2_ldrht_T1_to_mov_imm_T3)
<1>1. \A k \in 1 .. 8 : Sound(Priority2_ldrht_T1_to_mov_imm_T3[k])
  BY SMT, WideIsSound, NarrowIsSound DEF Priority2_ldrht_T1_to_mov_imm_T3
<1>2. Priority2_ldrht_T1_to_mov_imm_T3 \in Seq({Priority2_ldrht_T1_to_mov_imm_T3[k] : k \in 1 .. 8})
  BY SMT DEF Priority2_ldrht_T1_to_mov_imm_T3
<1>3. QED
  BY <1>1, <1>2, BranchByBranch

LEMMA Priority2_orn_imm_T1_to_smlad_T1_Sound == SoundTable(Priority2_orn_imm_T1_to_smlad_T1)
<1>1. \A k \in 1 .. 7 : Sound(Priority2_orn_imm_T1_to_smlad_T1[k])
  BY SMT, WideIsSound DEF Priority2_orn_imm_T1_to_smlad_T1
<1>2. Priority2_orn_imm_T1_to_smlad_T1 \in Seq({Priority2_orn_imm_T1_to_smlad_T1[k] : k \in 1 .. 7})
  BY SMT DEF Priority2_orn_imm_T1_to_smlad_T1
<1>3. QED
  BY <1>1, <1>2, BranchByBranch

LEMMA Priority2_smlawb_T1_to_strb_imm_T3_Sound == SoundTable(Priority2_smlawb_T1_to_strb_imm_T3)
<1>1. \A k \in 1 .. 7 : Sound(Priority2_smlawb_T1_to_strb_imm_T3[k])
  BY SMT, WideIsSound DEF Priority2_smlawb_T1_to_strb_imm_T3
<1>2. Priority2_smlawb_T1_to_strb_imm_T3 \in Seq({Priority2_smlawb_T1_to_strb_imm_T3[k] : k \in 1 .. 7})
  BY SMT DEF Priority2_smlawb_T1_to_strb_imm_T3
<1>3. QED
  BY <1>1, <1>2, BranchByBranch

LEMMA Priority2_strex_T1_to_sxtah_T1_Sound == SoundTable(Priority2_strex_T1_to_sxtah_T1)
<1>1. \A k \in 1 .. 8 : Sound(Priority2_strex_T1_to_sxtah_T1[k])
  BY SMT, WideIsSound DEF Priority2_strex_T1_to_sxtah_T1
<1>2. Priority2_strex_T1_to_sxtah_T1 \in Seq({Priority2_strex_T1_to_sxtah_T1[k] : k \in 1 .. 8})
  BY SMT DEF Priority2_strex_T1_to_sxtah_T1
<1>3. QED
  BY <1>1, <1>2, BranchByBranch

LEMMA Priority2_udf_T2_to_vcmp_T2_Sound == SoundTable(Priority2_udf_T2_to_vcmp_T2)
<1>1. \A k \in 1 .. 8 : Sound(Priority2_udf_T2_to_vcmp_T2[k])
  BY SMT, WideIsSound DEF Priority2_udf_T2_to_vcmp_T2
<1>2. Priority2_udf_T2_to_vcmp_T2 \in Seq({Priority2_udf_T2_to_vcmp_T2[k] : k \in 1 .. 8})
  BY SMT DEF Priority2_udf_T2_to_vcmp_T2
<1>3. QED
  BY <1>1, <1>2, BranchByBranch

LEMMA Priority2_vcvt_fltint_T1_to_vpush_T2_Sound == SoundTable(Priority2_vcvt_fltint_T1_to_vpush_T2)
<1>1. \A k \in 1 .. 8 : Sound(Priority2_vcvt_fltint_T1_to_vpush_T2[k])
  BY SMT, WideIsSound DEF Priority2_vcvt_fltint_T1_to_vpush_T2
<1>2. Priority2_vcvt_fltint_T1_to_vpush_T2 \in Seq({Priority2_vcvt_fltint_T1_to_vpush_T2[k] : k \in 1 .. 8})
  BY SMT DEF Priority2_vcvt_fltint_T1_to_vpush_T2
<1>3. QED
  BY <1>1, <1>2, BranchByBranch

LEMMA Priority2_vrintz_T1_Sound == SoundTable(Priority2_vrintz_T1)
<1>1. \A k \in 1 .. 1 : Sound(Priority2_vrintz_T1[k])
  BY SMT, WideIsSound DEF Priority2_vrintz_T1
<1>2. Priority2_vrintz_T1 \in Seq({Priority2_vrintz_T1[k] : k \in 1 .. 1})
  BY SMT DEF Priority2_vrintz_T1
<1>3. QED
  BY <1>1, <1>2, BranchByBranch

LEMMA Priority3_add_imm_T3_to_ldrsh_lit_T1_Sound == SoundTable(Priority3_add_imm_T3_to_ldrsh_lit_T1)
<1>1. \A k \in 1 .. 7 : Sound(Priority3_add_imm_T3_to_ldrsh_lit_T1[k])
  BY SMT, WideIsSound, NarrowIsSound DEF Priority3_add_imm_T3_to_ldrsh_lit_T1
<1>2. Priority3_add_imm_T3_to_ldrsh_lit_T1 \in Seq({Priority3_add_imm_T3_to_ldrsh_lit_T1[k] : k \in 1 .. 7})
  BY SMT DEF Priority3_add_imm_T3_to_ldrsh_lit_T1
<1>3. QED
  BY <1>1, <1>2, BranchByBranch

LEMMA Priority3_orr_reg_T2_to_tbb_T1_Sound == SoundTable(Priority3_orr_reg_T2_to_tbb_T1)
<1>1. \A k \in 1 .. 8 : Sound(Priority3_orr_reg_T2_to_tbb_T1[k])
  BY SMT, WideIsSound DEF Priority3_orr_reg_T2_to_tbb_T1
<1>2. Priority3_orr_reg_T2_to_tbb_T1 \in Seq({Priority3_orr_reg_T2_to_tbb_T1[k] : k \in 1 .. 8})
  BY SMT DEF Priority3_orr_reg_T2_to_tbb_T1
<1>3. QED
  BY <1>1, <1>2, BranchByBranch

LEMMA Priority3_vcvtb_T1_to_vstr_T2_Sound == SoundTable(Priority3_vcvtb_T1_to_vstr_T2)
<1>1. \A k \in 1 .. 7 : Sound(Priority3_vcvtb_T1_to_vstr_T2[k])
  BY SMT, WideIsSound DEF Priority3_vcvtb_T1_to_vstr_T2
<1>2. Priority3_vcvtb_T1_to_vstr_T2 \in Seq({Priority3_vcvtb_T1_to_vstr_T2[k] : k \in 1 .. 7})
  BY SMT DEF Priority3_vcvtb_T1_to_vstr_T2
<1>3. QED
  BY <1>1, <1>2, BranchByBranch

LEMMA Priority3_wfe_T2_to_yield_T2_Sound == SoundTable(Priority3_wfe_T2_to_yield_T2)
<1>1. \A k \in 1 .. 3 : Sound(Priority3_wfe_T2_to_yield_T2[k])
  BY SMT, WideIsSound DEF Priority3_wfe_T2_to_yield_T2
<1>2. Priority3_wfe_T2_to_yield_T2 \in Seq({Priority3_wfe_T2_to_yield_T2[k] : k \in 1 .. 3})
  BY SMT DEF Priority3_wfe_T2_to_yield_T2
<1>3. QED
  BY <1>1, <1>2, BranchByBranch

LEMMA Priority4_dbg_T1_to_pld_imm_T1_Sound == SoundTable(Priority4_dbg_T1_to_pld_imm_T1)
<1>1. \A k \in 1 .. 8 : Sound(Priority4_dbg_T1_to_pld_imm_T1[k])
  BY SMT, WideIsSound DEF Priority4_dbg_T1_to_pld_imm_T1
<1>2. Priority4_dbg_T1_to_pld_imm_T1 \in Seq({Priority4_dbg_T1_to_pld_imm_T1[k] : k \in 1 .. 8})
  BY SMT DEF Priority4_dbg_T1_to_pld_imm_T1
<1>3. QED
  BY <1>1, <1>2, BranchByBranch

LEMMA Priority4_pld_immlit_T1_to_vstm_T1_Sound == SoundTable(Priority4_pld_immlit_T1_to_vstm_T1)
<1>1. \A k \in 1 .. 6 : Sound(Priority4_pld_immlit_T1_to_vstm_T1[k])
  BY SMT, WideIsSound DEF Priority4_pld_immlit_T1_to_vstm_T1
<1>2. Priority4_pld_immlit_T1_to_vstm_T1 \in Seq({Priority4_pld_immlit_T1_to_vstm_T1[k] : k \in 1 .. 6})
  BY SMT DEF Priority4_pld_immlit_T1_to_vstm_T1
<1>3. QED
  BY <1>1, <1>2, BranchByBranch

LEMMA Priority4_vstm_T2_Sound == SoundTable(Priority4_vstm_T2)
<1>1. \A k \in 1 .. 1 : Sound(Priority4_vstm_T2[k])
  BY SMT, WideIsSound DEF Priority4_vstm_T2
<1>2. Priority4_vstm_T2 \in Seq({Priority4_vstm_T2[k] : k \in 1 .. 1})
  BY SMT DEF Priority4_vstm_T2
<1>3. QED
  BY <1>1, <1>2, BranchByBranch

LEMMA Priority5_cdp2_T2_to_ldrb_reg_T2_Sound == SoundTable(Priority5_cdp2_T2_to_ldrb_reg_T2)
<1>1. \A k \in 1 .. 8 : Sound(Priority5_cdp2_T2_to_ldrb_reg_T2[k])
  BY SMT, WideIsSound DEF Priority5_cdp2_T2_to_ldrb_reg_T2
<1>2. Priority5_cdp2_T2_to_ldrb_reg_T2 \in Seq({Priority5_cdp2_T2_to_ldrb_reg_T2[k] : k \in 1 .. 8})
  BY SMT DEF Priority5_cdp2_T2_to_ldrb_reg_T2
<1>3. QED
  BY <1>1, <1>2, BranchByBranch

LEMMA Priority5_ldrd_imm_T1_to_vmul_T1_Sound == SoundTable(Priority5_ldrd_imm_T1_to_vmul_T1)
<1>1. \A k \in 1 .. 7 : Sound(Priority5_ldrd_imm_T1_to_vmul_T1[k])
  BY SMT, WideIsSound DEF Priority5_ldrd_imm_T1_to_vmul_T1
<1>2. Priority5_ldrd_imm_T1_to_vmul_T1 \in Seq({Priority5_ldrd_imm_T1_to_vmul_T1[k] : k \in 1 .. 7})
  BY SMT DEF Priority5_ldrd_imm_T1_to_vmul_T1
<1>3. QED
  BY <1>1, <1>2, BranchByBranch

LEMMA Priority5_vnmla_T2_to_vsub_T1_Sound == SoundTable(Priority5_vnmla_T2_to_vsub_T1)
<1>1. \A k \in 1 .. 2 : Sound(Priority5_vnmla_T2_to_vsub_T1[k])
  BY SMT, WideIsSound DEF Priority5_vnmla_T2_to_vsub_T1
<1>2. Priority5_vnmla_T2_to_vsub_T1 \in Seq({Priority5_vnmla_T2_to_vsub_T1[k] : k \in 1 .. 2})
  BY SMT DEF Priority5_vnmla_T2_to_vsub_T1
<1>3. QED
  BY <1>1, <1>2, BranchByBranch

LEMMA Priority6_ldr_imm_T3_to_vfma_T1_Sound == SoundTable(Priority6_ldr_imm_T3_to_vfma_T1)
<1>1. \A k \in 1 .. 8 : Sound(Priority6_ldr_imm_T3_to_vfma_T1[k])
  BY SMT, WideIsSound DEF Priority6_ldr_imm_T3_to_vfma_T1
<1>2. Priority6_ldr_imm_T3_to_vfma_T1 \in Seq({Priority6_ldr_imm_T3_to_vfma_T1[k] : k \in 1 .. 8})
  BY SMT DEF Priority6_ldr_imm_T3_to_vfma_T1
<1>3. QED
  BY <1>1, <1>2, BranchByBranch

LEMMA Priority6_vfnma_T1_to_vnmla_T1_Sound == SoundTable(Priority6_vfnma_T1_to_vnmla_T1)
<1>1. \A k \in 1 .. 3 : Sound(Priority6_vfnma_T1_to_vnmla_T1[k])
  BY SMT, WideIsSound DEF Priority6_vfnma_T1_to_vnmla_T1
<1>2. Priority6_vfnma_T1_to_vnmla_T1 \in Seq({Priority6_vfnma_T1_to_vnmla_T1[k] : k \in 1 .. 3})
  BY SMT DEF Priority6_vfnma_T1_to_vnmla_T1
<1>3. QED
  BY <1>1, <1>2, BranchByBranch

LEMMA Priority7_Sound == SoundTable(Priority7)
<1>1. \A k \in 1 .. 6 : Sound(Priority7[k])
  BY SMT, WideIsSound DEF Priority7
<1>2. Priority7 \in Seq({Priority7[k] : k \in 1 .. 6})
  BY SMT DEF Priority7
<1>3. QED
  BY <1>1, <1>2, BranchByBranch

LEMMA Priority8_Sound == SoundTable(Priority8)
<1>1. \A k \in 1 .. 3 : Sound(Priority8[k])
  BY SMT, WideIsSound DEF Priority8
<1>2. Priority8 \in Seq({Priority8[k] : k \in 1 .. 3})
  BY SMT DEF Priority8
<1>3. QED
  BY <1>1, <1>2, BranchByBranch

LEMMA Priority9_Sound == SoundTable(Priority9)
<1>1. \A k \in 1 .. 2 : Sound(Priority9[k])
  BY SMT, WideIsSound DEF Priority9
<1>2. Priority9 \in Seq({Priority9[k] : k \in 1 .. 2})
  BY SMT DEF Priority9
<1>3. QED
  BY <1>1, <1>2, BranchByBranch

LEMMA Priority10_Sound == SoundTable(Priority10)
<1>1. \A k \in 1 .. 3 : Sound(Priority10[k])
  BY SMT, WideIsSound DEF Priority10
<1>2. Priority10 \in Seq({Priority10[k] : k \in 1 .. 3})
  BY SMT DEF Priority10
<1>3. QED
  BY <1>1, <1>2, BranchByBranch

LEMMA Priority0_Sound == SoundTable(Priority0)
BY Concatenated, Priority0_adc_imm_T1_to_adr_T1_Sound, Priority0_and_reg_T1_to_bkpt_T1_Sound, Priority0_blx_reg_T1_to_eor_reg_T1_Sound, Priority0_ldm_T1_to_ldrh_imm_T1_Sound, Priority0_ldrh_reg_T1_to_mcr2_T2_Sound, Priority0_mls_T1_to_pkhbt_T1_Sound, Priority0_pop_T1_to_qsub8_T1_Sound, Priority0_qsub_T1_to_ror_reg_T2_Sound, Priority0_rsb_imm_T1_to_sbc_reg_T1_Sound, Priority0_sbc_reg_T2_to_shsax_T1_Sound, Priority0_shsub16_T1_to_smull_T1_Sound, Priority0_ssax_T1_to_str_reg_T1_Sound, Priority0_str_reg_T2_to_strh_reg_T2_Sound, Priority0_sub_SPimm_T1_to_uasx_T1_Sound, Priority0_ubfx_T1_to_umaal_T1_Sound, Priority0_umlal_T1_to_usax_T1_Sound, Priority0_usub16_T1_to_uxth_T1_Sound
   DEF Priority0

LEMMA Priority1_Sound == SoundTable(Priority1)
BY Concatenated, Priority1_add_SPi_T4_to_ldrexh_T1_Sound, Priority1_ldrh_reg_T2_to_mrrc2_T2_Sound, Priority1_mul_T2_to_push_T2_Sound, Priority1_push_T3_to_smulwb_T1_Sound, Priority1_smusd_T1_to_sxtb16_T1_Sound, Priority1_sxtb_T2_to_usat16_T1_Sound, Priority1_uxtb16_T1_to_vmov_armscl_T1_Sound, Priority1_vmov_reg_T1_to_yield_T1_Sound
   DEF Priority1

LEMMA Priority2_Sound == SoundTable(Priority2)
BY Concatenated, Priority2_add_SPi_T3_to_b_T1_Sound, Priority2_bfi_T1_to_ldrex_T1_Sound, Priority2_ldrht_T1_to_mov_imm_T3_Sound, Priority2_orn_imm_T1_to_smlad_T1_Sound, Priority2_smlawb_T1_to_strb_imm_T3_Sound, Priority2_strex_T1_to_sxtah_T1_Sound, Priority2_udf_T2_to_vcmp_T2_Sound, Priority2_vcvt_fltint_T1_to_vpush_T2_Sound, Priority2_vrintz_T1_Sound
   DEF Priority2

LEMMA Priority3_Sound == SoundTable(Priority3)
BY Concatenated, Priority3_add_imm_T3_to_ldrsh_lit_T1_Sound, Priority3_orr_reg_T2_to_tbb_T1_Sound, Priority3_vcvtb_T1_to_vstr_T2_Sound, Priority3_wfe_T2_to_yield_T2_Sound
   DEF Priority3

LEMMA Priority4_Sound == SoundTable(Priority4)
BY Concatenated, Priority4_dbg_T1_to_pld_imm_T1_Sound, Priority4_pld_immlit_T1_to_vstm_T1_Sound, Priority4_vstm_T2_Sound
   DEF Priority4

LEMMA Priority5_Sound == SoundTable(Priority5)
BY Concatenated, Priority5_cdp2_T2_to_ldrb_reg_T2_Sound, Priority5_ldrd_imm_T1_to_vmul_T1_Sound, Priority5_vnmla_T2_to_vsub_T1_Sound
   DEF Priority5

LEMMA Priority6_Sound == SoundTable(Priority6)
BY Concatenated, Priority6_ldr_imm_T3_to_vfma_T1_Sound, Priority6_vfnma_T1_to_vnmla_T1_Sound
   DEF Priority6

LEMMA Chain_Sound == SoundTable(Chain)
BY Concatenated, Priority0_Sound, Priority1_Sound, Priority2_Sound, Priority3_Sound, Priority4_Sound, Priority5_Sound, Priority6_Sound, Priority7_Sound, Priority8_Sound, Priority9_Sound, Priority10_Sound
   DEF Chain

------------------------------------------------------------------------------
(* The branch taken is the first whose condition holds. *)
LEMMA FirstMatch ==
  ASSUME NEW op
  PROVE  \/ Decode(op) = Undecodable /\ \A k \in 1 .. Len(Chain) : ~Matches(Chain[k], op)
         \/ \E k \in 1 .. Len(Chain) :
              /\ Decode(op) = Chain[k] /\ Matches(Chain[k], op)
              /\ \A l \in 1 .. k - 1 : ~Matches(Chain[l], op)
<1> DEFINE taken == {k \in 1 .. Len(Chain) : Matches(Chain[k], op)}
<1>1. Len(Chain) \in Nat
  BY Chain_Sound DEF SoundTable
<1>2. CASE taken = {}
  BY <1>2 DEF Decode
<1>3. CASE taken # {}
  <2> DEFINE first == CHOOSE k \in taken : \A l \in taken : k <= l
  <2>1. \E k \in taken : \A l \in taken : k <= l
    <3>1. taken \in SUBSET Nat
      BY <1>1
    <3> HIDE DEF taken
    <3>2. QED
      BY <1>3, <3>1, LeastIndex
  <2>2. first \in taken /\ \A l \in taken : first <= l
    BY <2>1
  <2>3. Decode(op) = Chain[first]
    BY <1>3 DEF Decode
  <2> HIDE DEF first
  <2>4. \A l \in 1 .. first - 1 : ~Matches(Chain[l], op)
    BY <1>1, <2>2
  <2>5. QED
    BY <2>2, <2>3, <2>4
<1>4. QED
  BY <1>2, <1>3

LEMMA ChainIsSound == Len(Chain) \in Nat /\ \A k \in 1 .. Len(Chain) : Sound(Chain[k])
BY Chain_Sound DEF SoundTable

(* What a branch asks for tells how long the instruction is. *)
LEMMA MatchTellsLength ==
  ASSUME NEW e, NEW op, Sound(e), Matches(e, op)
  PROVE  e.length = 4 <=> StartsWide(op)
BY DEF Sound, Matches, StartsWide

(* The inductive invariant: what has been decoded is the opcode that is there. *)
Decoding == decoded = Waiting \/ decoded = Decode(opcode)

LEMMA SpecDecoding == Spec => []Decoding
<1>1. Init => Decoding
  BY DEF Init, Decoding
<1>2. Decoding /\ [decode_insn]_vars => Decoding'
  BY DEF Decoding, decode_insn, vars
<1>3. QED
  BY <1>1, <1>2, PTL DEF Spec

(* For every opcode that is decoded at all, the length by which decode_insn has the pc
   advance is the one the first halfword of the instruction gives it. *)
THEOREM LengthsMatch == Spec => []LengthMatchesFirstHalfword
<1>1. Decoding => LengthMatchesFirstHalfword
  <2> SUFFICES ASSUME decoded = Decode(opcode), decoded # Undecodable
               PROVE  decoded.length = 4 <=> StartsWide(opcode)
    BY DEF Decoding, Done, LengthMatchesFirstHalfword
  <2>1. PICK k \in 1 .. Len(Chain) : decoded = Chain[k] /\ Matches(Chain[k], opcode)
    BY FirstMatch
  <2>2. QED
    BY <2>1, ChainIsSound, MatchTellsLength
<1>2. QED
  BY <1>1, SpecDecoding, PTL

(* Two opcodes with the same first halfword. *)
LEMMA SecondHalfIgnored ==
  ASSUME NEW op, NEW other, Decode(op).length = 2, other \cap FirstHalf = op \cap FirstHalf
  PROVE  Decode(other) = Decode(op)
<1>1. Undecodable.length # 2
  BY DEF Undecodable, Encoding
<1>2. PICK k \in 1 .. Len(Chain) : /\ Decode(op) = Chain[k] /\ Matches(Chain[k], op)
                                   /\ \A l \in 1 .. k - 1 : ~Matches(Chain[l], op)
  BY <1>1, FirstMatch
<1>3. ~StartsWide(op) /\ ~StartsWide(other)
  <2>1. ~StartsWide(op)
    BY <1>2, ChainIsSound, MatchTellsLength
  <2>2. StartsWide(op) <=> StartsWide(other)
    BY DEF StartsWide, FirstHalf
  <2>3. QED
    BY <2>1, <2>2
<1>4. \A l \in 1 .. Len(Chain) : Matches(Chain[l], op) <=> Matches(Chain[l], other)
  <2> SUFFICES ASSUME NEW l \in 1 .. Len(Chain) PROVE Matches(Chain[l], op) <=> Matches(Chain[l], other)
    OBVIOUS
  <2> DEFINE e == Chain[l]
  <2>1. Sound(e)
    BY ChainIsSound
  <2> HIDE DEF e
  <2>2. CASE e.length = 4
    BY <1>3, <2>1, <2>2, MatchTellsLength DEF e
  <2>3. CASE e.ones \subseteq FirstHalf /\ e.zeros \subseteq FirstHalf
    BY <2>3 DEF Matches, e
  <2>4. QED
    BY <2>1, <2>2, <2>3 DEF Sound
<1>5. PICK j \in 1 .. Len(Chain) : /\ Decode(other) = Chain[j] /\ Matches(Chain[j], other)
                                   /\ \A l \in 1 .. j - 1 : ~Matches(Chain[l], other)
  BY <1>2, <1>4, FirstMatch
<1>6. j = k
  BY <1>2, <1>4, <1>5, ChainIsSound
<1>7. QED
  BY <1>2, <1>5, <1>6

(* Whatever stands behind a 16-bit instruction in memory, any 16 bits at all, it is
   decoded the same. *)
THEOREM NextHalfwordIsIrrelevant == Spec => []NextHalfwordIrrelevant
<1>1. Decoding => NextHalfwordIrrelevant
  <2> SUFFICES ASSUME decoded = Decode(opcode), decoded.length = 2,
                      NEW next \in {{}, SecondHalf, opcode \cap SecondHalf}
               PROVE  Decode((opcode \cap FirstHalf) \cup next) = decoded
    BY DEF Decoding, Done, NextHalfwordIrrelevant
  <2>1. ((opcode \cap FirstHalf) \cup next) \cap FirstHalf = opcode \cap FirstHalf
    BY DEF FirstHalf, SecondHalf
  <2>2. QED
    BY <2>1, SecondHalfIgnored
<1>2. QED
  BY <1>1, SpecDecoding, PTL

(* With the table in an order that has every special case before the general one, which
   is a matter of the table alone (MCDecoder has TLC evaluate it), no opcode is taken for an encoding when it
   belongs to a special case of it. *)
THEOREM SpecialCasesComeFirst ==
  ASSUME TableInOrder
  PROVE  Spec => []SpecialCasesFirst
<1>1. Decoding => SpecialCasesFirst
  <2> SUFFICES ASSUME decoded = Decode(opcode), NEW e \in Encodings,
                      Matches(e, opcode), MoreSpecific(e, decoded)
               PROVE  FALSE
    BY DEF Decoding, Done, SpecialCasesFirst
  <2>1. PICK l \in 1 .. Len(Chain) : e = Chain[l]
    BY DEF Encodings
  <2>2. PICK k \in 1 .. Len(Chain) : decoded = Chain[k] /\ \A m \in 1 .. k - 1 : ~Matches(Chain[m], opcode)
    BY <2>1, FirstMatch
  <2>3. k <= l
    BY <2>1, <2>2, ChainIsSound
  <2>4. k # l
    BY <2>1, <2>2 DEF MoreSpecific
  <2>5. k \in 1 .. l - 1
    BY <2>3, <2>4, ChainIsSound
  <2>6. QED
    BY <2>1, <2>2, <2>5, TableInOrder DEF TableInOrder
<1>2. QED
  BY <1>1, SpecDecoding, PTL

------------------------------------------------------------------------------
(* Numbers of up to 24 bits. *)
LEMMA PowersOfTwo ==
  /\ 2^0 = 1 /\ 2^1 = 2 /\ 2^2 = 4 /\ 2^3 = 8 /\ 2^4 = 16 /\ 2^5 = 32 /\ 2^6 = 64 /\ 2^7 = 128
  /\ 2^8 = 256 /\ 2^9 = 512 /\ 2^10 = 1024 /\ 2^11 = 2048 /\ 2^12 = 4096 /\ 2^13 = 8192
  /\ 2^14 = 16384 /\ 2^15 = 32768 /\ 2^16 = 65536 /\ 2^17 = 131072 /\ 2^18 = 262144
  /\ 2^19 = 524288 /\ 2^20 = 1048576 /\ 2^21 = 2097152 /\ 2^22 = 4194304 /\ 2^23 = 8388608
  /\ 2^24 = 16777216
BY SMT

LEMMA Powers == \A n \in 0 .. 23 : 2^n \in Nat \ {0} /\ 2^(n + 1) = 2 * 2^n
<1> DEFINE P(n) == 2^n \in Nat \ {0} /\ 2^(n + 1) = 2 * 2^n
<1>1. P(0) /\ P(1) /\ P(2) /\ P(3) /\ P(4) /\ P(5) /\ P(6) /\ P(7)
  BY SMT
<1>2. P(8) /\ P(9) /\ P(10) /\ P(11) /\ P(12) /\ P(13) /\ P(14) /\ P(15)
  BY SMT
<1>3. P(16) /\ P(17) /\ P(18) /\ P(19) /\ P(20) /\ P(21) /\ P(22) /\ P(23)
  BY SMT
<1> HIDE DEF P
<1>4. \A n \in 0 .. 23 : P(n)
  <2> SUFFICES ASSUME NEW n \in 0 .. 23 PROVE P(n)
    OBVIOUS
  <2>1. CASE n \in 0 .. 7
    <3>1. n = 0 \/ n = 1 \/ n = 2 \/ n = 3 \/ n = 4 \/ n = 5 \/ n = 6 \/ n = 7
      BY <2>1
    <3>2. QED
      BY <1>1, <3>1
  <2>2. CASE n \in 8 .. 15
    <3>1. n = 8 \/ n = 9 \/ n = 10 \/ n = 11 \/ n = 12 \/ n = 13 \/ n = 14 \/ n = 15
      BY <2>2
    <3>2. QED
      BY <1>2, <3>1
  <2>3. CASE n \in 16 .. 23
    <3>1. n = 16 \/ n = 17 \/ n = 18 \/ n = 19 \/ n = 20 \/ n = 21 \/ n = 22 \/ n = 23
      BY <2>3
    <3>2. QED
      BY <1>3, <3>1
  <2>4. QED
    BY <2>1, <2>2, <2>3
<1>5. QED
  BY <1>4 DEF P

(* An induction up to 24. *)
LEMMA UpTo24 ==
  ASSUME NEW T, 0 \in T, \A n \in 0 .. 23 : n \in T => n + 1 \in T
  PROVE  0 .. 24 \subseteq T
<1> DEFINE missed == {n \in Nat : n <= 24 /\ n \notin T}
<1> SUFFICES ASSUME missed # {} PROVE FALSE
  OBVIOUS
<1>1. PICK k \in missed : \A l \in missed : k <= l
  <2>1. missed \in SUBSET Nat
    OBVIOUS
  <2> HIDE DEF missed
  <2>2. QED
    BY <2>1, LeastIndex
<1>2. k \in Nat /\ k <= 24 /\ k \notin T
  OBVIOUS
<1>3. k - 1 \in 0 .. 23 /\ (k - 1) + 1 = k
  BY <1>2
<1>4. k - 1 \notin T
  BY <1>2, <1>3
<1>5. k - 1 \in missed
  BY <1>3, <1>4
<1>6. k <= k - 1
  BY <1>1, <1>5
<1>7. QED
  BY <1>2, <1>6

(* What the bits below n come to. *)
Sums(f, S) ==
  /\ f \in [0 .. 24 -> Nat] /\ f[0] = 0
  /\ \A n \in 0 .. 23 : f[n + 1] = f[n] + (IF n \in S THEN 2^n ELSE 0)

LEMMA SumFacts ==
  ASSUME NEW f, NEW S, Sums(f, S)
  PROVE  /\ f[0] = 0
         /\ \A n \in 0 .. 24 : f[n] \in Nat
         /\ \A n \in 0 .. 23 : f[n + 1] = f[n] + (IF n \in S THEN 2^n ELSE 0)
BY DEF Sums

LEMMA SumsExist == ASSUME NEW S PROVE \E f : Sums(f, S)
<1> DEFINE Runs(f, m) == f[0] = 0 /\ \A n \in 0 .. 23 : n < m => f[n + 1] = f[n] + (IF n \in S THEN 2^n ELSE 0)
           T == {m \in 0 .. 24 : \E f \in [0 .. m -> Nat] : Runs(f, m)}
<1>1. 0 \in T
  <2> DEFINE f == [n \in 0 .. 0 |-> 0]
  <2>1. f \in [0 .. 0 -> Nat] /\ Runs(f, 0)
    OBVIOUS
  <2> HIDE DEF f
  <2>2. QED
    BY <2>1
<1>2. ASSUME NEW m \in 0 .. 23, m \in T PROVE m + 1 \in T
  <2>1. PICK f \in [0 .. m -> Nat] : Runs(f, m)
    BY <1>2
  <2> DEFINE more == IF m \in S THEN 2^m ELSE 0
             g == [n \in 0 .. m + 1 |-> IF n = m + 1 THEN f[m] + more ELSE f[n]]
  <2>2. more \in Nat
    BY Powers
  <2> HIDE DEF more
  <2>3. f[m] \in Nat
    OBVIOUS
  <2>4. g \in [0 .. m + 1 -> Nat] /\ g[m + 1] = f[m] + more /\ \A n \in 0 .. m : g[n] = f[n]
    BY <2>2, <2>3
  <2> HIDE DEF g
  <2>5. ASSUME NEW n \in 0 .. 23, n < m + 1 PROVE g[n + 1] = g[n] + (IF n \in S THEN 2^n ELSE 0)
    <3>1. CASE n = m
      BY <2>4, <3>1 DEF more
    <3>2. CASE n < m
      <4>1. n \in 0 .. m /\ n + 1 \in 0 .. m
        BY <3>2
      <4>2. g[n] = f[n] /\ g[n + 1] = f[n + 1]
        BY <2>4, <4>1
      <4>3. QED
        BY <2>1, <3>2, <4>2
    <3>3. QED
      BY <2>5, <3>1, <3>2
  <2>6. Runs(g, m + 1)
    BY <2>1, <2>4, <2>5
  <2> HIDE DEF Runs
  <2>7. QED
    BY <2>4, <2>6
<1>3. 24 \in T
  <2> HIDE DEF T
  <2>1. QED
    BY <1>1, <1>2, UpTo24
<1>4. PICK f \in [0 .. 24 -> Nat] : Runs(f, 24)
  BY <1>3
<1>5. QED
  BY <1>4 DEF Sums

LEMMA ValueIsSum == ASSUME NEW S PROVE \E f : Sums(f, S) /\ ValueOf(S) = f[24]
<1> DEFINE Steps(f, n) == IF n = 0 THEN 0 ELSE f[n - 1] + (IF n - 1 \in S THEN 2^(n - 1) ELSE 0)
           Chosen == CHOOSE f : f = [n \in 0 .. 24 |-> Steps(f, n)]
<1>1. ValueOf(S) = Chosen[24]
  BY DEF ValueOf
<1>2. PICK g : Sums(g, S)
  BY SumsExist
<1>3. g = [n \in 0 .. 24 |-> Steps(g, n)]
  <2>1. ASSUME NEW n \in 0 .. 24 PROVE g[n] = Steps(g, n)
    <3>1. CASE n = 0
      BY <1>2, <3>1 DEF Sums
    <3>2. CASE n \in 1 .. 24
      <4>1. n - 1 \in 0 .. 23 /\ (n - 1) + 1 = n
        BY <3>2
      <4>2. g[(n - 1) + 1] = g[n - 1] + (IF n - 1 \in S THEN 2^(n - 1) ELSE 0)
        BY <1>2, <4>1 DEF Sums
      <4>3. QED
        BY <3>2, <4>1, <4>2
    <3>3. QED
      BY <3>1, <3>2
  <2>2. g \in [0 .. 24 -> Nat]
    BY <1>2 DEF Sums
  <2> HIDE DEF Steps
  <2>3. QED
    BY <2>1, <2>2
<1>4. Chosen = [n \in 0 .. 24 |-> Steps(Chosen, n)]
  <2> HIDE DEF Steps
  <2>1. QED
    BY <1>3
<1> HIDE DEF Chosen
<1>5. ASSUME NEW n \in 0 .. 24 PROVE Chosen[n] = Steps(Chosen, n)
  <2> HIDE DEF Steps
  <2>1. QED
    BY <1>4
<1>6. Chosen[0] = 0
  BY <1>5
<1>7. ASSUME NEW n \in 0 .. 23 PROVE Chosen[n + 1] = Chosen[n] + (IF n \in S THEN 2^n ELSE 0)
  <2>1. n + 1 \in 0 .. 24 /\ n + 1 # 0 /\ (n + 1) - 1 = n
    OBVIOUS
  <2>2. Chosen[n + 1] = Chosen[(n + 1) - 1] + (IF (n + 1) - 1 \in S THEN 2^((n + 1) - 1) ELSE 0)
    BY <1>5, <2>1
  <2>3. QED
    BY <2>1, <2>2
<1>8. Chosen \in [0 .. 24 -> Nat]
  <2> DEFINE T == {n \in 0 .. 24 : Chosen[n] \in Nat}
  <2>1. 0 \in T
    BY <1>6
  <2>2. ASSUME NEW n \in 0 .. 23, n \in T PROVE n + 1 \in T
    <3>1. Chosen[n] \in Nat /\ (IF n \in S THEN 2^n ELSE 0) \in Nat
      BY <2>2, Powers
    <3>2. Chosen[n + 1] \in Nat
      BY <1>7, <3>1
    <3>3. QED
      BY <3>2
  <2>3. 0 .. 24 \subseteq T
    <3> HIDE DEF T
    <3>1. QED
      BY <2>1, <2>2, UpTo24
  <2>4. \A n \in 0 .. 24 : Chosen[n] \in Nat
    BY <2>3
  <2> HIDE DEF Steps
  <2>5. QED
    BY <1>4, <2>4
<1>9. QED
  BY <1>1, <1>6, <1>7, <1>8 DEF Sums

(* Below n there is no room for 2^n. *)
LEMMA SumIsBelow == ASSUME NEW f, NEW S, Sums(f, S) PROVE \A n \in 0 .. 24 : f[n] \in Nat /\ f[n] < 2^n
<1> DEFINE T == {n \in 0 .. 24 : f[n] < 2^n}
<1>1. 0 \in T
  <2>1. f[0] < 2^0
    <3>1. f[0] = 0
      BY DEF Sums
    <3>2. 2^0 = 1
      BY SMT
    <3>3. QED
      BY <3>1, <3>2
  <2>2. QED
    BY <2>1
<1>2. ASSUME NEW n \in 0 .. 23, n \in T PROVE n + 1 \in T
  <2> DEFINE p == 2^n
             q == 2^(n + 1)
  <2>1. p \in Nat /\ q = 2 * p
    BY Powers
  <2>2. f[n + 1] = f[n] + (IF n \in S THEN p ELSE 0) /\ f[n] \in Nat
    <3>1. f[n + 1] = f[n] + (IF n \in S THEN 2^n ELSE 0)
      BY SumFacts
    <3>2. f[n] \in Nat
      BY SumFacts
    <3>3. QED
      BY <3>1, <3>2
  <2>3. f[n] < p
    BY <1>2
  <2> HIDE DEF p, q
  <2>4. f[n + 1] < q
    BY <2>1, <2>2, <2>3
  <2>5. QED
    BY <2>4 DEF q
<1>3. 0 .. 24 \subseteq T
  <2> HIDE DEF T
  <2>1. QED
    BY <1>1, <1>2, UpTo24
<1>4. QED
  BY <1>3, SumFacts

(* From n on everything is a multiple of 2^n. *)
Digit(S, n) == IF n \in S THEN 1 ELSE 0
SplitsAt(f, S, n) == \E h \in Nat : f[24] = f[n] + 2^n * (Digit(S, n) + 2 * h)

LEMMA SumIsSplit ==
  ASSUME NEW f, NEW S, Sums(f, S)
  PROVE  \A n \in 0 .. 23 : SplitsAt(f, S, n)
<1> DEFINE P(n) == \E q \in Nat : f[24] = f[n] + 2^n * q
           T == {m \in 0 .. 24 : P(24 - m)}
<1>1. ASSUME NEW n \in 0 .. 23, NEW h \in Nat, f[24] = f[n + 1] + 2^(n + 1) * h
      PROVE  f[24] = f[n] + 2^n * (Digit(S, n) + 2 * h)
  <2> DEFINE p == 2^n
             q == 2^(n + 1)
             d == Digit(S, n)
             v == f[24]
             x == f[n]
  <2>1. p \in Nat /\ q = 2 * p
    BY Powers
  <2>2. f[n + 1] = x + (IF n \in S THEN p ELSE 0) /\ x \in Nat /\ v = f[n + 1] + q * h
    <3>1. f[n + 1] = x + (IF n \in S THEN p ELSE 0)
      BY SumFacts
    <3>2. x \in Nat
      BY SumFacts
    <3>3. v = f[n + 1] + q * h
      BY <1>1
    <3>4. QED
      BY <3>1, <3>2, <3>3
  <2>3. (IF n \in S THEN p ELSE 0) = p * d /\ d \in Nat
    BY <2>1 DEF Digit
  <2> HIDE DEF p, q, d, x, v
  <2>4. v = (x + p * d) + (2 * p) * h
    BY <2>1, <2>2, <2>3
  <2>5. v = x + p * (d + 2 * h)
    BY ONLY <2>1, <2>2, <2>3, <2>4, h \in Nat
  <2>6. QED
    BY <2>5 DEF p, d, x, v
<1>2. 0 \in T
  <2>1. f[24] \in Nat
    BY SumFacts
  <2>2. P(24)
    <3> DEFINE big == 2^24
    <3>1. big \in Nat
      BY SMT, PowersOfTwo
    <3> HIDE DEF big
    <3>2. f[24] = f[24] + big * 0
      BY <2>1, <3>1
    <3>3. QED
      BY <3>2 DEF big
  <2> HIDE DEF P
  <2>3. QED
    BY <2>2
<1>3. ASSUME NEW m \in 0 .. 23, m \in T PROVE m + 1 \in T
  <2> DEFINE n == 23 - m
  <2>1. n \in 0 .. 23 /\ 24 - m = n + 1 /\ 24 - (m + 1) = n
    OBVIOUS
  <2>2. P(n + 1)
    BY <1>3, <2>1
  <2> HIDE DEF n
  <2>3. PICK h \in Nat : f[24] = f[n + 1] + 2^(n + 1) * h
    BY <2>2
  <2>4. f[24] = f[n] + 2^n * (Digit(S, n) + 2 * h)
    BY <1>1, <2>1, <2>3
  <2> DEFINE k == Digit(S, n) + 2 * h
  <2>5. k \in Nat /\ f[24] = f[n] + 2^n * k
    BY <2>4 DEF Digit
  <2> HIDE DEF k
  <2>6. P(n)
    BY <2>5
  <2> HIDE DEF P
  <2>7. QED
    BY <2>1, <2>6
<1>4. 0 .. 24 \subseteq T
  <2> HIDE DEF T
  <2>1. QED
    BY <1>2, <1>3, UpTo24
<1>5. ASSUME NEW n \in 0 .. 23 PROVE P(n + 1)
  <2>1. 23 - n \in 0 .. 24 /\ 24 - (23 - n) = n + 1
    OBVIOUS
  <2> HIDE DEF P
  <2>2. 23 - n \in T
    BY <1>4, <2>1
  <2>3. QED
    BY <2>1, <2>2
<1>6. QED
  BY <1>1, <1>5 DEF SplitsAt

(* One digit of a number. *)
LEMMA DigitOf ==
  ASSUME NEW p \in Nat \ {0}, NEW x \in Nat, x < p, NEW d \in {0, 1}, NEW h \in Nat, NEW v, v = x + p * (d + 2 * h)
  PROVE  (v \div p) % 2 = d
<1> DEFINE q == d + 2 * h
<1>1. q \in Nat /\ q % 2 = d
  OBVIOUS
<1>2. v = x + p * q
  OBVIOUS
<1> HIDE DEF q
<1>3. v \in Nat
  BY <1>1, <1>2
<1>4. v \div p \in Int /\ v % p \in Int /\ v = p * (v \div p) + (v % p) /\ 0 <= v % p /\ v % p < p
  BY ONLY <1>3, p \in Nat \ {0}
<1> DEFINE y == v \div p
           z == v % p
<1>5. z \in Int /\ y \in Int
  BY <1>4
<1> HIDE DEF y, z
<1>6. p * y + z = p * q + x /\ 0 <= z /\ z < p
  BY <1>1, <1>2, <1>4 DEF y, z
<1>7. y = q
  <2>1. CASE y < q
    <3>1. p * (q - y) >= p
      BY <1>1, <1>5, <2>1
    <3>2. p * (q - y) = p * q - p * y
      BY <1>1, <1>5
    <3>3. QED
      BY <1>1, <1>5, <1>6, <3>1, <3>2
  <2>2. CASE q < y
    <3>1. p * (y - q) >= p
      BY <1>1, <1>5, <2>2
    <3>2. p * (y - q) = p * y - p * q
      BY <1>1, <1>5
    <3>3. QED
      BY <1>1, <1>5, <1>6, <3>1, <3>2
  <2>3. QED
    BY <1>1, <1>5, <2>1, <2>2
<1>8. QED
  BY <1>1, <1>7 DEF y

(* ValueOf and the way back. *)
LEMMA DigitsReadBack ==
  ASSUME NEW S
  PROVE  \A n \in 0 .. 23 : ((ValueOf(S) \div 2^n) % 2 = 1) <=> n \in S
<1>1. PICK f : Sums(f, S) /\ ValueOf(S) = f[24]
  BY ValueIsSum
<1>2. SUFFICES ASSUME NEW n \in 0 .. 23 PROVE ((f[24] \div 2^n) % 2 = 1) <=> n \in S
  BY <1>1
<1> DEFINE d == Digit(S, n)
           p == 2^n
<1>3. PICK h \in Nat : f[24] = f[n] + p * (d + 2 * h)
  <2>1. SplitsAt(f, S, n)
    BY <1>1, SumIsSplit
  <2>2. QED
    BY <2>1 DEF SplitsAt
<1>4. f[n] \in Nat /\ f[n] < p /\ p \in Nat \ {0} /\ d \in {0, 1}
  <2>1. \A m \in 0 .. 24 : f[m] \in Nat /\ f[m] < 2^m
    BY <1>1, SumIsBelow
  <2>2. p \in Nat \ {0}
    BY Powers
  <2>3. f[n] \in Nat /\ f[n] < p
    <3>1. n \in 0 .. 24
      OBVIOUS
    <3>2. QED
      BY <2>1, <3>1, Zenon
  <2>4. d \in {0, 1}
    BY DEF Digit
  <2>5. QED
    BY <2>2, <2>3, <2>4
<1>5. d = 1 <=> n \in S
  BY DEF Digit
<1> HIDE DEF d, p
<1>6. (f[24] \div p) % 2 = d
  BY <1>3, <1>4, DigitOf
<1>7. QED
  BY <1>5, <1>6 DEF p

(* The highest bits, when they are all alike, are the sign. *)
LEMMA SumOfSigns ==
  ASSUME NEW f, NEW S, Sums(f, S), NEW n \in {19, 23}, \A m \in n .. 23 : m \in S <=> n \in S
  PROVE  f[24] = f[n] + (IF n \in S THEN 2^24 - 2^n ELSE 0)
<1>1. \A m \in 0 .. 23 : f[m + 1] = f[m] + (IF m \in S THEN 2^m ELSE 0)
  BY SumFacts
<1>2. \A m \in 0 .. 24 : f[m] \in Nat
  BY SumFacts
<1>3. f[24] = f[23] + (IF 23 \in S THEN 8388608 ELSE 0)
  <2>1. f[23 + 1] = f[23] + (IF 23 \in S THEN 2^23 ELSE 0)
    BY <1>1
  <2>2. QED
    BY <2>1, PowersOfTwo, SMT
<1>4. CASE n = 23
  BY <1>2, <1>3, <1>4, PowersOfTwo, SMT
<1>5. CASE n = 19
  <2>1. f[23] = f[22] + (IF 22 \in S THEN 4194304 ELSE 0)
    <3>1. f[22 + 1] = f[22] + (IF 22 \in S THEN 2^22 ELSE 0)
      BY <1>1
    <3>2. QED
      BY <3>1, PowersOfTwo, SMT
  <2>2. f[22] = f[21] + (IF 21 \in S THEN 2097152 ELSE 0)
    <3>1. f[21 + 1] = f[21] + (IF 21 \in S THEN 2^21 ELSE 0)
      BY <1>1
    <3>2. QED
      BY <3>1, PowersOfTwo, SMT
  <2>3. f[21] = f[20] + (IF 20 \in S THEN 1048576 ELSE 0)
    <3>1. f[20 + 1] = f[20] + (IF 20 \in S THEN 2^20 ELSE 0)
      BY <1>1
    <3>2. QED
      BY <3>1, PowersOfTwo, SMT
  <2>4. f[20] = f[19] + (IF 19 \in S THEN 524288 ELSE 0)
    <3>1. f[19 + 1] = f[19] + (IF 19 \in S THEN 2^19 ELSE 0)
      BY <1>1
    <3>2. QED
      BY <3>1, PowersOfTwo, SMT
  <2>5. (19 \in S <=> 20 \in S) /\ (19 \in S <=> 21 \in S) /\ (19 \in S <=> 22 \in S) /\ (19 \in S <=> 23 \in S)
    BY <1>5
  <2>6. f[19] \in Nat /\ f[24] = f[19] + (IF 19 \in S THEN 15 * 1048576 + 524288 ELSE 0)
    BY <1>2, <1>3, <2>1, <2>2, <2>3, <2>4, <2>5, SMT
  <2>7. 2^24 - 2^19 = 15 * 1048576 + 524288
    BY SMT
  <2>8. QED
    BY <1>5, <2>6, <2>7, SMT
<1>6. QED
  BY <1>4, <1>5

(* The distance of a word is the number its 24 bits are, of which the highest is the
   sign, and it is assembled to the same digits. *)
LEMMA DistanceOf ==
  ASSUME NEW word, NEW n \in {19, 23},
         \A m \in n .. 23 : m \in word <=> n \in word, 31 \in word <=> n \in word
  PROVE  /\ Distance(word) \in -2^n .. 2^n - 1
         /\ Distance(word) < 0 <=> n \in word
         /\ \A m \in 0 .. 23 : ((Distance(word) % 2^24) \div 2^m) % 2 = 1 <=> m \in word
<1> DEFINE S == word \cap (0 .. 23)
           v == ValueOf(S)
           half == 2^n
           all == 2^24
<1>1. PICK f : Sums(f, S) /\ v = f[24]
  BY ValueIsSum
<1>2. \A m \in 0 .. 23 : m \in S <=> m \in word
  OBVIOUS
<1>3. v = f[n] + (IF n \in S THEN all - half ELSE 0)
  <2>1. \A m \in n .. 23 : m \in S <=> n \in S
    BY <1>2
  <2> HIDE DEF S
  <2>2. QED
    BY <1>1, <2>1, SumOfSigns
<1>4. f[n] \in Nat /\ f[n] < half
  <2>1. \A m \in 0 .. 24 : f[m] \in Nat /\ f[m] < 2^m
    BY <1>1, SumIsBelow
  <2>2. n \in 0 .. 24
    OBVIOUS
  <2>3. QED
    BY <2>1, <2>2, Zenon
<1>5. half \in Nat \ {0} /\ all \in Nat /\ 2 * half <= all
  <2>1. CASE n = 19
    BY <2>1, SMT
  <2>2. CASE n = 23
    BY <2>2, SMT
  <2>3. QED
    BY <2>1, <2>2
<1>6. Distance(word) = v - (IF 31 \in word THEN all ELSE 0)
  BY DEF Distance
<1>7. n \in S <=> n \in word
  BY <1>2
<1> HIDE DEF S, v, half, all
<1>8. v \in 0 .. all - 1
  BY <1>3, <1>4, <1>5
<1>9. Distance(word) \in -half .. half - 1 /\ (Distance(word) < 0 <=> n \in word)
  BY <1>3, <1>4, <1>5, <1>6, <1>7
<1>10. Distance(word) % all = v
  <2>1. CASE 31 \in word
    BY <1>5, <1>6, <1>8, <2>1
  <2>2. CASE 31 \notin word
    BY <1>5, <1>6, <1>8, <2>2
  <2>3. QED
    BY <2>1, <2>2
<1>11. \A m \in 0 .. 23 : (v \div 2^m) % 2 = 1 <=> m \in word
  <2>1. \A m \in 0 .. 23 : (ValueOf(S) \div 2^m) % 2 = 1 <=> m \in S
    BY DigitsReadBack
  <2>2. QED
    BY <1>2, <2>1 DEF v
<1>12. QED
  BY <1>9, <1>10, <1>11 DEF half, all

------------------------------------------------------------------------------
(* The pieces of an opcode, bit by bit. *)
LEMMA InPiece ==
  ASSUME NEW bits \in SUBSET Int, NEW low \in Int, NEW high \in Int, NEW by \in Int, NEW x
  PROVE  x \in Piece(bits, low, high, by)
           <=> x \in Int /\ x - by \in bits /\ low <= x - by /\ x - by <= high
<1>1. ASSUME x \in Piece(bits, low, high, by)
      PROVE  x \in Int /\ x - by \in bits /\ low <= x - by /\ x - by <= high
  <2>1. PICK b \in bits \cap (low .. high) : x = b + by
    BY <1>1 DEF Piece
  <2>2. x \in Int /\ x - by = b
    BY <2>1
  <2>3. QED
    BY <2>1, <2>2
<1>2. ASSUME x \in Int, x - by \in bits, low <= x - by, x - by <= high
      PROVE  x \in Piece(bits, low, high, by)
  <2>1. x - by \in bits \cap (low .. high) /\ x = (x - by) + by
    BY <1>2
  <2>2. QED
    BY <2>1 DEF Piece
<1>3. QED
  BY <1>1, <1>2

LEMMA BitsOfOffset20 ==
  ASSUME NEW op \in SUBSET Bits, NEW x \in Int
  PROVE  x \in Offset20(op) <=>
           \/ x \in 0 .. 10 /\ x \in op
           \/ x \in 11 .. 16 /\ x + 5 \in op
           \/ x = 17 /\ 13 \in op
           \/ x = 18 /\ 11 \in op
           \/ x = 19 /\ 26 \in op
<1>1. op \in SUBSET Int
  BY DEF Bits
<1>2. /\ x \in Piece(op, 26, 26, -7) <=> x - (-7) \in op /\ 26 <= x - (-7) /\ x - (-7) <= 26
      /\ x \in Piece(op, 16, 21, -5) <=> x - (-5) \in op /\ 16 <= x - (-5) /\ x - (-5) <= 21
      /\ x \in Piece(op, 0, 10, 0) <=> x - 0 \in op /\ 0 <= x - 0 /\ x - 0 <= 10
      /\ x \in Piece(op, 13, 13, 4) <=> x - 4 \in op /\ 13 <= x - 4 /\ x - 4 <= 13
      /\ x \in Piece(op, 11, 11, 7) <=> x - 7 \in op /\ 11 <= x - 7 /\ x - 7 <= 11
  BY <1>1, InPiece
<1>3. x - (-7) = x + 7 /\ x - (-5) = x + 5 /\ x - 0 = x
  OBVIOUS
<1>4. /\ x \in Piece(op, 26, 26, -7) <=> x = 19 /\ 26 \in op
      /\ x \in Piece(op, 16, 21, -5) <=> x \in 11 .. 16 /\ x + 5 \in op
      /\ x \in Piece(op, 0, 10, 0) <=> x \in 0 .. 10 /\ x \in op
      /\ x \in Piece(op, 13, 13, 4) <=> x = 17 /\ 13 \in op
      /\ x \in Piece(op, 11, 11, 7) <=> x = 18 /\ 11 \in op
  BY <1>2, <1>3
<1>5. QED
  BY <1>4 DEF Offset20

LEMMA BitsOfOffset24 ==
  ASSUME NEW op \in SUBSET Bits, NEW x \in Int
  PROVE  x \in Offset24(op) <=>
           \/ x \in 0 .. 10 /\ x \in op
           \/ x \in 11 .. 20 /\ x + 5 \in op
           \/ x = 21 /\ 11 \in op
           \/ x = 22 /\ 13 \in op
           \/ x = 23 /\ 26 \in op
<1>1. op \in SUBSET Int
  BY DEF Bits
<1>2. /\ x \in Piece(op, 26, 26, -3) <=> x - (-3) \in op /\ 26 <= x - (-3) /\ x - (-3) <= 26
      /\ x \in Piece(op, 16, 25, -5) <=> x - (-5) \in op /\ 16 <= x - (-5) /\ x - (-5) <= 25
      /\ x \in Piece(op, 0, 10, 0) <=> x - 0 \in op /\ 0 <= x - 0 /\ x - 0 <= 10
      /\ x \in Piece(op, 13, 13, 9) <=> x - 9 \in op /\ 13 <= x - 9 /\ x - 9 <= 13
      /\ x \in Piece(op, 11, 11, 10) <=> x - 10 \in op /\ 11 <= x - 10 /\ x - 10 <= 11
  BY <1>1, InPiece
<1>3. x - (-3) = x + 3 /\ x - (-5) = x + 5 /\ x - 0 = x
  OBVIOUS
<1>4. /\ x \in Piece(op, 26, 26, -3) <=> x = 23 /\ 26 \in op
      /\ x \in Piece(op, 16, 25, -5) <=> x \in 11 .. 20 /\ x + 5 \in op
      /\ x \in Piece(op, 0, 10, 0) <=> x \in 0 .. 10 /\ x \in op
      /\ x \in Piece(op, 13, 13, 9) <=> x = 22 /\ 13 \in op
      /\ x \in Piece(op, 11, 11, 10) <=> x = 21 /\ 11 \in op
  BY <1>2, <1>3
<1>5. QED
  BY <1>4 DEF Offset24

(* The word of a conditional branch. *)
LEMMA BitsOfWord20 ==
  ASSUME NEW op \in SUBSET Bits, NEW x \in Int
  PROVE  x \in thumb_sign_extend20(Offset20(op)) <=>
           \/ x \in 0 .. 10 /\ x \in op
           \/ x \in 11 .. 16 /\ x + 5 \in op
           \/ x = 17 /\ 13 \in op
           \/ x = 18 /\ 11 \in op
           \/ x \in 19 .. 31 /\ 26 \in op
<1>1. 19 \in Offset20(op) <=> 26 \in op
  BY BitsOfOffset20
<1>2. x \in thumb_sign_extend20(Offset20(op))
        <=> x \in Offset20(op) \/ (19 \in Offset20(op) /\ x \in 20 .. 31)
  <2>1. 20 - 1 = 19
    OBVIOUS
  <2>2. QED
    BY <2>1 DEF thumb_sign_extend20, thumb_sign_extend
<1>3. QED
  BY <1>1, <1>2, BitsOfOffset20

(* The word of the other branches. *)
LEMMA BitsOfWord24 ==
  ASSUME NEW op \in SUBSET Bits, NEW x \in Int
  PROVE  x \in thumb_sign_extend24_EOR(Offset24(op)) <=>
           \/ x \in 0 .. 10 /\ x \in op
           \/ x \in 11 .. 20 /\ x + 5 \in op
           \/ x = 21 /\ (11 \in op <=> 26 \in op)
           \/ x = 22 /\ (13 \in op <=> 26 \in op)
           \/ x \in 23 .. 31 /\ 26 \in op
<1> DEFINE offset == Offset24(op)
           sign(by) == At(offset \cap {23}, by)
           inverted == Sets!SymDiff({21}, sign(-2)) \cup Sets!SymDiff({22}, sign(-1))
           eor == Sets!SymDiff(offset, inverted)
<1>1. /\ 21 \in offset <=> 11 \in op
      /\ 22 \in offset <=> 13 \in op
      /\ 23 \in offset <=> 26 \in op
  BY BitsOfOffset24
<1>2. (x \in sign(-2) <=> x = 21 /\ 23 \in offset) /\ (x \in sign(-1) <=> x = 22 /\ 23 \in offset)
  <2>1. sign(-2) = {b + (-2) : b \in offset \cap {23}} /\ sign(-1) = {b + (-1) : b \in offset \cap {23}}
    BY DEF At
  <2>2. 23 + (-2) = 21 /\ 23 + (-1) = 22
    OBVIOUS
  <2> HIDE DEF offset, sign
  <2>3. QED
    BY <2>1, <2>2
<1>3. x \in inverted <=> x \in {21, 22} /\ 23 \notin offset
  <2> HIDE DEF offset, sign
  <2>1. (x \in Sets!SymDiff({21}, sign(-2)) <=> x = 21 /\ 23 \notin offset)
    BY <1>2 DEF Sets!SymDiff
  <2>2. (x \in Sets!SymDiff({22}, sign(-1)) <=> x = 22 /\ 23 \notin offset)
    BY <1>2 DEF Sets!SymDiff
  <2>3. QED
    BY <2>1, <2>2
<1>4. \A y \in {x} : y \in eor <=> ~(y \in offset <=> y \in inverted)
  <2> HIDE DEF offset, inverted
  <2>1. QED
    BY DEF Sets!SymDiff
<1>5. 23 \in eor <=> 23 \in offset
  <2>1. 23 \notin {b + (-2) : b \in offset \cap {23}} /\ 23 \notin {b + (-1) : b \in offset \cap {23}}
    <3> HIDE DEF offset
    <3>1. QED
      OBVIOUS
  <2>2. 23 \notin inverted
    <3> HIDE DEF offset
    <3>1. QED
      BY <2>1 DEF At, Sets!SymDiff
  <2> HIDE DEF offset, inverted
  <2>3. QED
    BY <2>2 DEF Sets!SymDiff
<1>6. x \in thumb_sign_extend24_EOR(offset) <=> x \in eor \/ (23 \in eor /\ x \in 24 .. 31)
  <2>1. thumb_sign_extend24_EOR(offset) = thumb_sign_extend(eor, 24)
    BY DEF thumb_sign_extend24_EOR
  <2>2. 24 - 1 = 23
    OBVIOUS
  <2> HIDE DEF eor, offset
  <2>3. QED
    BY <2>1, <2>2 DEF thumb_sign_extend
<1>7. x \in offset <=>
        \/ x \in 0 .. 10 /\ x \in op
        \/ x \in 11 .. 20 /\ x + 5 \in op
        \/ x = 21 /\ 11 \in op
        \/ x = 22 /\ 13 \in op
        \/ x = 23 /\ 26 \in op
  BY BitsOfOffset24
<1> HIDE DEF offset, inverted, eor
<1>8. x \in thumb_sign_extend24_EOR(offset) <=>
        \/ x \in 0 .. 10 /\ x \in op
        \/ x \in 11 .. 20 /\ x + 5 \in op
        \/ x = 21 /\ (11 \in op <=> 26 \in op)
        \/ x = 22 /\ (13 \in op <=> 26 \in op)
        \/ x \in 23 .. 31 /\ 26 \in op
  BY <1>1, <1>3, <1>4, <1>5, <1>6, <1>7
<1>9. QED
  BY <1>8 DEF offset

(* Assembling the word a branch is called with gives the bits of its opcode. *)
LEMMA ShortReadsBack ==
  ASSUME NEW op \in SUBSET Bits, NEW distance \in Int,
         \A m \in 0 .. 23 : ((distance % 2^24) \div 2^m) % 2 = 1 <=> m \in thumb_sign_extend20(Offset20(op))
  PROVE  EncodedDistance("b_T3", distance) = op \cap DistanceBits("b_T3")
<1> DEFINE digits == {b \in 0 .. 23 : ((distance % 2^24) \div 2^b) % 2 = 1}
<1>1. digits = thumb_sign_extend20(Offset20(op)) \cap (0 .. 23)
  OBVIOUS
<1>2. EncodedDistance("b_T3", distance) =
        Piece(digits, 0, 10, 0) \cup Piece(digits, 11, 16, 5) \cup Piece(digits, 17, 17, -4)
        \cup Piece(digits, 18, 18, -7) \cup Piece(digits, 19, 19, 7)
  BY DEF EncodedDistance
<1> HIDE DEF digits
<1>3. \A y \in Int : y \in digits <=>
        \/ y \in 0 .. 10 /\ y \in op
        \/ y \in 11 .. 16 /\ y + 5 \in op
        \/ y = 17 /\ 13 \in op
        \/ y = 18 /\ 11 \in op
        \/ y \in 19 .. 23 /\ 26 \in op
  BY <1>1, BitsOfWord20
<1>4. digits \in SUBSET Int
  BY <1>1
<1>5. DistanceBits("b_T3") = {26, 13, 11} \cup (0 .. 10) \cup (16 .. 21)
  BY DEF DistanceBits
<1>6. ASSUME NEW x \in Int
      PROVE  x \in EncodedDistance("b_T3", distance) <=> x \in op \cap DistanceBits("b_T3")
  <2>1. x - 0 = x /\ x - (-4) = x + 4 /\ x - (-7) = x + 7
    OBVIOUS
  <2>2. /\ x \in Piece(digits, 0, 10, 0) <=> x \in 0 .. 10 /\ x \in digits
        /\ x \in Piece(digits, 11, 16, 5) <=> x \in 16 .. 21 /\ x - 5 \in digits
        /\ x \in Piece(digits, 17, 17, -4) <=> x = 13 /\ 17 \in digits
        /\ x \in Piece(digits, 18, 18, -7) <=> x = 11 /\ 18 \in digits
        /\ x \in Piece(digits, 19, 19, 7) <=> x = 26 /\ 19 \in digits
    <3>1. /\ x \in Piece(digits, 0, 10, 0) <=> x - 0 \in digits /\ 0 <= x - 0 /\ x - 0 <= 10
          /\ x \in Piece(digits, 11, 16, 5) <=> x - 5 \in digits /\ 11 <= x - 5 /\ x - 5 <= 16
          /\ x \in Piece(digits, 17, 17, -4) <=> x - (-4) \in digits /\ 17 <= x - (-4) /\ x - (-4) <= 17
          /\ x \in Piece(digits, 18, 18, -7) <=> x - (-7) \in digits /\ 18 <= x - (-7) /\ x - (-7) <= 18
          /\ x \in Piece(digits, 19, 19, 7) <=> x - 7 \in digits /\ 19 <= x - 7 /\ x - 7 <= 19
      BY <1>4, InPiece
    <3>2. QED
      BY <2>1, <3>1
  <2>3. /\ x \in 0 .. 10 => (x \in digits <=> x \in op)
        /\ x \in 16 .. 21 => (x - 5 \in digits <=> x \in op)
        /\ 17 \in digits <=> 13 \in op
        /\ 18 \in digits <=> 11 \in op
        /\ 19 \in digits <=> 26 \in op
    <3>1. x \in 16 .. 21 => x - 5 \in 11 .. 16 /\ (x - 5) + 5 = x
      OBVIOUS
    <3>2. QED
      BY <1>3, <3>1
  <2>4. QED
    BY <1>2, <1>5, <2>2, <2>3
<1>7. EncodedDistance("b_T3", distance) \subseteq Int
  <2>1. ASSUME NEW low, NEW high, NEW by \in Int PROVE Piece(digits, low, high, by) \subseteq Int
    BY <1>4 DEF Piece
  <2>2. QED
    BY <1>2, <2>1
<1>8. op \cap DistanceBits("b_T3") \subseteq Int
  BY <1>5
<1>9. QED
  BY <1>6, <1>7, <1>8

LEMMA LongReadsBack ==
  ASSUME NEW op \in SUBSET Bits, NEW distance \in Int, NEW name, name # "b_T3",
         \A m \in 0 .. 23 : ((distance % 2^24) \div 2^m) % 2 = 1 <=> m \in thumb_sign_extend24_EOR(Offset24(op)),
         distance < 0 <=> 26 \in op
  PROVE  EncodedDistance(name, distance) = op \cap DistanceBits(name)
<1> DEFINE digits == {b \in 0 .. 23 : ((distance % 2^24) \div 2^b) % 2 = 1}
           third == IF 22 \in digits <=> distance < 0 THEN {13} ELSE {}
           second == IF 21 \in digits <=> distance < 0 THEN {11} ELSE {}
<1>1. digits = thumb_sign_extend24_EOR(Offset24(op)) \cap (0 .. 23)
  OBVIOUS
<1>2. EncodedDistance(name, distance) =
        Piece(digits, 0, 10, 0) \cup Piece(digits, 11, 20, 5) \cup Piece(digits, 23, 23, 3)
        \cup third \cup second
  BY DEF EncodedDistance
<1> HIDE DEF digits
<1>3. \A y \in Int : y \in digits <=>
        \/ y \in 0 .. 10 /\ y \in op
        \/ y \in 11 .. 20 /\ y + 5 \in op
        \/ y = 21 /\ (11 \in op <=> 26 \in op)
        \/ y = 22 /\ (13 \in op <=> 26 \in op)
        \/ y = 23 /\ 26 \in op
  BY <1>1, BitsOfWord24
<1>4. digits \in SUBSET Int
  BY <1>1
<1>5. DistanceBits(name) = {26, 13, 11} \cup (0 .. 10) \cup (16 .. 25)
  BY DEF DistanceBits
<1>6. /\ third = IF 13 \in op THEN {13} ELSE {}
      /\ second = IF 11 \in op THEN {11} ELSE {}
  <2>1. /\ 22 \in digits <=> (13 \in op <=> 26 \in op)
        /\ 21 \in digits <=> (11 \in op <=> 26 \in op)
    BY <1>3
  <2>2. QED
    BY <2>1
<1> HIDE DEF third, second
<1>7. ASSUME NEW x \in Int
      PROVE  x \in EncodedDistance(name, distance) <=> x \in op \cap DistanceBits(name)
  <2>1. x - 0 = x
    OBVIOUS
  <2>2. /\ x \in Piece(digits, 0, 10, 0) <=> x \in 0 .. 10 /\ x \in digits
        /\ x \in Piece(digits, 11, 20, 5) <=> x \in 16 .. 25 /\ x - 5 \in digits
        /\ x \in Piece(digits, 23, 23, 3) <=> x = 26 /\ 23 \in digits
    <3>1. /\ x \in Piece(digits, 0, 10, 0) <=> x - 0 \in digits /\ 0 <= x - 0 /\ x - 0 <= 10
          /\ x \in Piece(digits, 11, 20, 5) <=> x - 5 \in digits /\ 11 <= x - 5 /\ x - 5 <= 20
          /\ x \in Piece(digits, 23, 23, 3) <=> x - 3 \in digits /\ 23 <= x - 3 /\ x - 3 <= 23
      BY <1>4, InPiece
    <3>2. QED
      BY <2>1, <3>1
  <2>3. /\ x \in 0 .. 10 => (x \in digits <=> x \in op)
        /\ x \in 16 .. 25 => (x - 5 \in digits <=> x \in op)
        /\ 23 \in digits <=> 26 \in op
    <3>1. x \in 16 .. 25 => x - 5 \in 11 .. 20 /\ (x - 5) + 5 = x
      OBVIOUS
    <3>2. QED
      BY <1>3, <3>1
  <2>4. (x \in third <=> x = 13 /\ 13 \in op) /\ (x \in second <=> x = 11 /\ 11 \in op)
    BY <1>6
  <2>5. QED
    BY <1>2, <1>5, <2>2, <2>3, <2>4
<1>8. EncodedDistance(name, distance) \subseteq Int
  <2>1. ASSUME NEW low, NEW high, NEW by \in Int PROVE Piece(digits, low, high, by) \subseteq Int
    BY <1>4 DEF Piece
  <2>2. third \subseteq Int /\ second \subseteq Int
    BY <1>6
  <2>3. /\ Piece(digits, 0, 10, 0) \subseteq Int
        /\ Piece(digits, 11, 20, 5) \subseteq Int
        /\ Piece(digits, 23, 23, 3) \subseteq Int
    BY <2>1
  <2>4. QED
    BY <1>2, <2>2, <2>3
<1>9. op \cap DistanceBits(name) \subseteq Int
  BY <1>5
<1>10. QED
  BY <1>7, <1>8, <1>9

(* Every branch, whatever its opcode. *)
LEMMA BranchReadsBack ==
  ASSUME NEW op \in SUBSET Bits, NEW name \in Branches
  PROVE  LET word == Immediate(name, op)
         IN /\ word \cap (24 .. 31) \in {{}, 24 .. 31}
            /\ Distance(word) \in -Reach(name) .. Reach(name) - 1
            /\ EncodedDistance(name, Distance(word)) = op \cap DistanceBits(name)
<1>1. CASE name = "b_T3"
  <2> DEFINE word == thumb_sign_extend20(Offset20(op))
  <2>1. Immediate(name, op) = word
    BY <1>1 DEF Immediate, Expanded, Amounts, Halfwords, LongBranches
  <2>2. \A m \in 19 .. 31 : m \in word <=> 26 \in op
    BY BitsOfWord20
  <2> HIDE DEF word
  <2>3. word \cap (24 .. 31) \in {{}, 24 .. 31}
    BY <2>2
  <2>4. /\ Distance(word) \in -2^19 .. 2^19 - 1
        /\ \A m \in 0 .. 23 : ((Distance(word) % 2^24) \div 2^m) % 2 = 1 <=> m \in word
    <3>1. (\A m \in 19 .. 23 : m \in word <=> 19 \in word) /\ (31 \in word <=> 19 \in word)
      BY <2>2
    <3>2. QED
      BY <3>1, DistanceOf
  <2>5. Reach(name) = 2^19
    BY <1>1 DEF Reach
  <2>6. Distance(word) \in Int
    BY <2>4, PowersOfTwo, SMT
  <2>7. EncodedDistance("b_T3", Distance(word)) = op \cap DistanceBits("b_T3")
    BY <2>4, <2>6, ShortReadsBack DEF word
  <2>8. QED
    BY <1>1, <2>1, <2>3, <2>4, <2>5, <2>7
<1>2. CASE name \in LongBranches
  <2> DEFINE word == thumb_sign_extend24_EOR(Offset24(op))
  <2>1. Immediate(name, op) = word
    BY <1>2 DEF Immediate, Expanded, Amounts, Halfwords, LongBranches
  <2>2. \A m \in 23 .. 31 : m \in word <=> 26 \in op
    BY BitsOfWord24
  <2> HIDE DEF word
  <2>3. word \cap (24 .. 31) \in {{}, 24 .. 31}
    BY <2>2
  <2>4. /\ Distance(word) \in -2^23 .. 2^23 - 1
        /\ Distance(word) < 0 <=> 23 \in word
        /\ \A m \in 0 .. 23 : ((Distance(word) % 2^24) \div 2^m) % 2 = 1 <=> m \in word
    <3>1. (\A m \in 23 .. 23 : m \in word <=> 23 \in word) /\ (31 \in word <=> 23 \in word)
      BY <2>2
    <3>2. QED
      BY <3>1, DistanceOf
  <2>5. name # "b_T3"
    BY <1>2 DEF LongBranches
  <2>6. Reach(name) = 2^23
    BY <2>5 DEF Reach
  <2>7. Distance(word) \in Int
    BY <2>4, PowersOfTwo, SMT
  <2>8. Distance(word) < 0 <=> 26 \in op
    BY <2>2, <2>4
  <2>9. EncodedDistance(name, Distance(word)) = op \cap DistanceBits(name)
    BY <2>4, <2>5, <2>7, <2>8, LongReadsBack DEF word
  <2>10. QED
    BY <2>1, <2>3, <2>4, <2>6, <2>9
<1>3. QED
  BY <1>1, <1>2 DEF Branches

------------------------------------------------------------------------------
(* Constants: a byte, a byte repeated, or a byte rotated. *)

(* Without higher bits a number ends there. *)
LEMMA SumStops ==
  ASSUME NEW f, NEW S, Sums(f, S), NEW n \in 0 .. 24, \A m \in n .. 23 : m \notin S
  PROVE  f[24] = f[n]
<1> DEFINE T == {m \in 0 .. 24 : n <= m => f[m] = f[n]}
<1>1. 0 \in T
  OBVIOUS
<1>2. ASSUME NEW m \in 0 .. 23, m \in T PROVE m + 1 \in T
  <2>1. CASE n <= m
    <3>1. f[m + 1] = f[m] + (IF m \in S THEN 2^m ELSE 0)
      BY SumFacts
    <3>2. m \notin S /\ f[m] = f[n]
      BY <1>2, <2>1
    <3>3. f[n] \in Nat
      BY SumFacts
    <3>4. f[m + 1] = f[n]
      BY <3>1, <3>2, <3>3
    <3>5. QED
      BY <3>4
  <2>2. CASE n > m
    BY <2>2
  <2>3. QED
    BY <2>1, <2>2
<1>3. 0 .. 24 \subseteq T
  <2> HIDE DEF T
  <2>1. QED
    BY <1>1, <1>2, UpTo24
<1>4. QED
  BY <1>3

(* The amount a constant is rotated by. *)
LEMMA Rotation ==
  ASSUME NEW S \in SUBSET (0 .. 4), 3 \in S \/ 4 \in S
  PROVE  ValueOf(S) \in 8 .. 31
<1>1. PICK f : Sums(f, S) /\ ValueOf(S) = f[24]
  BY ValueIsSum
<1>2. f[24] = f[5]
  <2>1. \A m \in 5 .. 23 : m \notin S
    OBVIOUS
  <2>2. QED
    BY <1>1, <2>1, SumStops
<1>3. \A m \in 0 .. 24 : f[m] \in Nat /\ f[m] < 2^m
  BY <1>1, SumIsBelow
<1>4. f[5] \in Nat /\ f[5] < 32
  <2>1. f[5] \in Nat /\ f[5] < 2^5
    BY <1>3
  <2>2. QED
    BY <2>1, PowersOfTwo
<1>5. /\ f[3] \in Nat
      /\ f[4] = f[3] + (IF 3 \in S THEN 8 ELSE 0)
      /\ f[5] = f[4] + (IF 4 \in S THEN 16 ELSE 0)
  <2>1. f[3 + 1] = f[3] + (IF 3 \in S THEN 2^3 ELSE 0) /\ f[4 + 1] = f[4] + (IF 4 \in S THEN 2^4 ELSE 0)
    BY <1>1, SumFacts
  <2>2. QED
    BY <1>3, <2>1, PowersOfTwo, SMT
<1>6. f[5] >= 8
  BY <1>5
<1>7. QED
  BY <1>1, <1>2, <1>4, <1>6

LEMMA InAt ==
  ASSUME NEW bits \in SUBSET Int, NEW by \in Int, NEW x \in Int
  PROVE  x \in At(bits, by) <=> x - by \in bits
<1>1. ASSUME x \in At(bits, by) PROVE x - by \in bits
  <2>1. PICK b \in bits : x = b + by
    BY <1>1 DEF At
  <2>2. x - by = b
    BY <2>1
  <2>3. QED
    BY <2>2
<1>2. ASSUME x - by \in bits PROVE x \in At(bits, by)
  <2>1. x = (x - by) + by
    OBVIOUS
  <2>2. QED
    BY <1>2, <2>1 DEF At
<1>3. QED
  BY <1>1, <1>2

LEMMA AtIsInt == ASSUME NEW bits \in SUBSET Int, NEW by \in Int PROVE At(bits, by) \in SUBSET Int
BY DEF At

(* A byte repeated is recognised. *)
LEMMA PatternReadsBack ==
  ASSUME NEW B \in SUBSET (0 .. 7), B # {}
  PROVE  /\ Encoded12(B \cup At(B, 16)) = B \cup {8}
         /\ Encoded12(At(B, 8) \cup At(B, 24)) = B \cup {9}
         /\ Encoded12(UNION {At(B, by) : by \in {0, 8, 16, 24}}) = B \cup {8, 9}
<1>1. \A x \in Int, by \in {0, 8, 16, 24} : x \in At(B, by) <=> x - by \in B
  BY InAt
<1>2. \A by \in {0, 8, 16, 24} : At(B, by) \in SUBSET Int
  BY AtIsInt
<1>3. PICK b \in B : TRUE
  OBVIOUS
<1>4. ASSUME NEW word \in SUBSET Int, NEW low \in word, NEW top \in word,
             low + 8 <= top, top > 7, \A x \in word : x <= top
      PROVE  Encoded12(word) = Repeated(word)
  <2>1. Sets!Max(word) = top
    <3>1. Sets!Max(word) \in word /\ \A x \in word : Sets!Max(word) >= x
      <4>1. \A x \in word : top >= x
        BY <1>4
      <4>2. QED
        BY <4>1 DEF Sets!Max
    <3>2. Sets!Max(word) >= top /\ Sets!Max(word) <= top
      BY <1>4, <3>1
    <3>3. Sets!Max(word) \in Int /\ top \in Int
      BY <3>1
    <3>4. QED
      BY <3>2, <3>3
  <2>2. ~(word \subseteq 0 .. 7)
    BY <1>4
  <2>3. low \notin top - 7 .. top
    BY <1>4
  <2>4. QED
    BY <2>1, <2>2, <2>3 DEF Encoded12
<1>5. PICK t \in B : \A x \in B : x <= t
  <2> DEFINE taken == {7 - x : x \in B}
  <2>1. taken \in SUBSET Nat /\ taken # {}
    <3>1. \A x \in B : 7 - x \in Nat
      OBVIOUS
    <3>2. 7 - b \in taken
      OBVIOUS
    <3>3. taken \in SUBSET Nat
      BY <3>1
    <3>4. QED
      BY <3>2, <3>3
  <2>2. PICK k \in taken : \A l \in taken : k <= l
    <3> HIDE DEF taken
    <3>1. QED
      BY <2>1, LeastIndex
  <2>3. PICK t \in B : k = 7 - t
    BY <2>2
  <2>4. ASSUME NEW x \in B PROVE x <= t
    <3>1. 7 - x \in taken
      OBVIOUS
    <3>2. 7 - t <= 7 - x
      BY <2>2, <2>3, <3>1
    <3>3. QED
      BY <3>2
  <2>5. QED
    BY <2>4
<1>6. t \in 0 .. 7
  OBVIOUS
<1>7. \A byte : byte \subseteq 0 .. 7 => t \notin At(byte, 8) \cup At(byte, 24)
  BY <1>6 DEF At
<1>8. Encoded12(B \cup At(B, 16)) = B \cup {8}
  <2> DEFINE word == B \cup At(B, 16)
  <2>1. \A x \in Int : x \in word <=> x \in B \/ x - 16 \in B
    BY <1>1
  <2>2. word \in SUBSET Int
    <3>1. B \in SUBSET Int /\ At(B, 16) \in SUBSET Int
      BY <1>2
    <3>2. QED
      BY <3>1
  <2> HIDE DEF word
  <2>3. t \in word /\ t + 16 \in word
    BY <1>6, <2>1
  <2>4. \A x \in word : x <= t + 16
    BY <1>5, <1>6, <2>1, <2>2
  <2>5. Encoded12(word) = Repeated(word)
    BY <1>4, <1>6, <2>2, <2>3, <2>4
  <2>6. Byte(word) = B
    <3>1. \A x \in 0 .. 7 : x \in word <=> x \in B
      BY <2>1
    <3>2. QED
      BY <3>1 DEF Byte
  <2>7. word = Byte(word) \cup At(Byte(word), 16)
    BY <2>6 DEF word
  <2>8. word # At(Byte(At(word, -8)), 8) \cup At(Byte(At(word, -8)), 24)
    <3>1. Byte(At(word, -8)) \subseteq 0 .. 7
      BY DEF Byte
    <3>2. QED
      BY <1>7, <2>3, <3>1
  <2>9. Repeated(word) = Byte(word) \cup {8}
    BY <2>7, <2>8 DEF Repeated
  <2>10. QED
    BY <2>5, <2>6, <2>9 DEF word
<1>9. Encoded12(At(B, 8) \cup At(B, 24)) = B \cup {9}
  <2> DEFINE word == At(B, 8) \cup At(B, 24)
             byte == Byte(At(word, -8))
  <2>1. \A x \in Int : x \in word <=> x - 8 \in B \/ x - 24 \in B
    BY <1>1
  <2>2. word \in SUBSET Int
    BY <1>2
  <2> HIDE DEF word
  <2>3. t + 8 \in word /\ t + 24 \in word
    BY <1>6, <2>1
  <2>4. \A x \in word : x <= t + 24
    BY <1>5, <1>6, <2>1, <2>2
  <2>5. Encoded12(word) = Repeated(word)
    BY <1>4, <1>6, <2>2, <2>3, <2>4
  <2>6. byte = B
    <3>1. \A x \in Int : x \in At(word, -8) <=> x - (-8) \in word
      BY <2>2, InAt
    <3>2. \A x \in 0 .. 7 : x \in At(word, -8) <=> x \in B
      <4>1. ASSUME NEW x \in 0 .. 7 PROVE x \in At(word, -8) <=> x \in B
        <5>1. x - (-8) \in Int /\ (x - (-8)) - 8 = x /\ (x - (-8)) - 24 = x - 16
          OBVIOUS
        <5>2. x - 16 \notin B
          OBVIOUS
        <5>3. QED
          BY <2>1, <3>1, <5>1, <5>2
      <4>2. QED
        BY <4>1
    <3>3. QED
      BY <3>2 DEF Byte
  <2>7. word # Byte(word) \cup At(Byte(word), 16)
    <3>1. Byte(word) = {}
      BY <2>1, <2>2 DEF Byte
    <3>2. At({}, 16) = {}
      BY DEF At
    <3>3. QED
      BY <2>3, <3>1, <3>2
  <2>8. word = At(byte, 8) \cup At(byte, 24)
    BY <2>6 DEF word
  <2>9. Repeated(word) = byte \cup {9}
    BY <2>7, <2>8 DEF Repeated
  <2> HIDE DEF byte
  <2>10. QED
    BY <2>5, <2>6, <2>9 DEF word
<1>10. Encoded12(UNION {At(B, by) : by \in {0, 8, 16, 24}}) = B \cup {8, 9}
  <2> DEFINE word == UNION {At(B, by) : by \in {0, 8, 16, 24}}
  <2>1. \A x \in Int : x \in word <=> x - 0 \in B \/ x - 8 \in B \/ x - 16 \in B \/ x - 24 \in B
    <3>1. word = ((At(B, 0) \cup At(B, 8)) \cup At(B, 16)) \cup At(B, 24)
      OBVIOUS
    <3> HIDE DEF word
    <3>2. QED
      BY <1>1, <3>1
  <2>2. word \in SUBSET Int
    BY <1>2
  <2> HIDE DEF word
  <2>3. t \in word /\ t + 8 \in word /\ t + 24 \in word
    BY <1>6, <2>1
  <2>4. \A x \in word : x <= t + 24
    BY <1>5, <1>6, <2>1, <2>2
  <2>5. Encoded12(word) = Repeated(word)
    BY <1>4, <1>6, <2>2, <2>3, <2>4
  <2>6. Byte(word) = B
    <3>1. \A x \in 0 .. 7 : x \in word <=> x \in B
      BY <2>1
    <3>2. QED
      BY <3>1 DEF Byte
  <2>7. word # Byte(word) \cup At(Byte(word), 16)
    <3>1. t + 8 \notin B /\ (t + 8) - 16 \notin B
      BY <1>6
    <3>2. t + 8 \notin At(B, 16)
      BY <1>1, <1>6, <3>1
    <3>3. QED
      BY <2>3, <2>6, <3>1, <3>2
  <2>8. word # At(Byte(At(word, -8)), 8) \cup At(Byte(At(word, -8)), 24)
    <3>1. Byte(At(word, -8)) \subseteq 0 .. 7
      BY DEF Byte
    <3>2. QED
      BY <1>7, <2>3, <3>1
  <2>9. Repeated(word) = Byte(word) \cup {8, 9}
    BY <2>7, <2>8 DEF Repeated
  <2>10. QED
    BY <2>5, <2>6, <2>9 DEF word
<1>11. QED
  BY <1>8, <1>9, <1>10

(* So is a rotated byte, whose highest bit is one. *)
LEMMA RotationReadsBack ==
  ASSUME NEW c \in SUBSET (0 .. 11), 10 \in c \/ 11 \in c
  PROVE  Encoded12(Rotated(c)) = (c \cap (0 .. 6)) \cup (c \cap (7 .. 11))
<1> DEFINE low == c \cap (0 .. 6)
           B == {7} \cup low
           S == At(c \cap (7 .. 11), -7)
           rotate == ValueOf(S)
           top == 39 - rotate
           word == Rotated(c)
<1>1. \A x \in Int : x \in S <=> x + 7 \in c \cap (7 .. 11)
  <2>1. \A x \in Int : x \in S <=> x - (-7) \in c \cap (7 .. 11)
    BY InAt
  <2>2. \A x \in Int : x - (-7) = x + 7
    OBVIOUS
  <2>3. QED
    BY <2>1, <2>2
<1>2. S \in SUBSET (0 .. 4) /\ (3 \in S \/ 4 \in S)
  <2>1. S \in SUBSET Int
    BY AtIsInt
  <2>2. 3 \in S \/ 4 \in S
    <3>1. (10 \in S <=> 10 + 7 \in c \cap (7 .. 11)) /\ 3 + 7 = 10 /\ 4 + 7 = 11
      BY <1>1
    <3> HIDE DEF S
    <3>2. QED
      BY <1>1, <3>1
  <2>3. \A x \in S : x \in 0 .. 4
    <3> HIDE DEF S
    <3>1. QED
      BY <1>1, <2>1
  <2>4. QED
    BY <2>2, <2>3
<1>3. rotate \in 8 .. 31
  <2> HIDE DEF S
  <2>1. QED
    BY <1>2, Rotation
<1>4. \A m \in 0 .. 4 : (rotate \div 2^m) % 2 = 1 <=> m \in S
  <2>1. \A m \in 0 .. 23 : (ValueOf(S) \div 2^m) % 2 = 1 <=> m \in S
    BY DigitsReadBack
  <2>2. \A m \in 0 .. 4 : m \in 0 .. 23
    OBVIOUS
  <2> HIDE DEF S
  <2>3. QED
    BY <2>1, <2>2, Zenon
<1>5. word = ror32(B, rotate)
  BY DEF Rotated
<1>6. B \in SUBSET (0 .. 7) /\ 7 \in B
  OBVIOUS
<1> HIDE DEF rotate, B, word
<1>7. \A x : x \in word <=> \E b \in B : x = b + 32 - rotate
  <2>1. {b \in B : b < rotate} = B /\ {b \in B : b >= rotate} = {}
    <3>1. ASSUME NEW b \in B PROVE b < rotate /\ ~(b >= rotate)
      <4>1. b \in 0 .. 7
        BY <1>6
      <4>2. QED
        BY <1>3, <4>1
    <3>2. QED
      BY <3>1
  <2>2. word = {b + 32 - rotate : b \in B} \cup {b - rotate : b \in {}}
    BY <1>5, <2>1 DEF ror32
  <2>3. QED
    BY <2>2
<1>8. /\ top \in word /\ top \in 8 .. 31
      /\ \A x \in word : x \in Int /\ x <= top /\ top - 7 <= x
  <2>1. top = 7 + 32 - rotate /\ top \in 8 .. 31
    BY <1>3
  <2>2. top \in word
    BY <1>6, <1>7, <2>1
  <2>3. ASSUME NEW x \in word PROVE x \in Int /\ x <= top /\ top - 7 <= x
    <3>1. PICK b \in B : x = b + 32 - rotate
      BY <1>7
    <3>2. b \in 0 .. 7
      BY <1>6
    <3>3. QED
      BY <1>3, <3>1, <3>2
  <2>4. QED
    BY <2>1, <2>2, <2>3
<1>9. Sets!Max(word) = top
  <2>1. Sets!Max(word) \in word /\ \A x \in word : Sets!Max(word) >= x
    <3>1. \A x \in word : top >= x
      BY <1>8
    <3>2. QED
      BY <1>8, <3>1 DEF Sets!Max
  <2>2. Sets!Max(word) >= top /\ Sets!Max(word) <= top
    BY <1>8, <2>1
  <2>3. Sets!Max(word) \in Int /\ top \in Int
    BY <1>8, <2>1
  <2>4. QED
    BY <2>2, <2>3
<1>10. 39 - top = rotate
  BY <1>3
<1> HIDE DEF top
<1>11. ~(word \subseteq 0 .. 7) /\ word \subseteq top - 7 .. top
  BY <1>8
<1>12. Encoded12(word) = At(word \ {top}, 7 - top) \cup {b \in 7 .. 11 : (rotate \div 2^(b - 7)) % 2 = 1}
  BY <1>9, <1>10, <1>11 DEF Encoded12
<1>13. At(word \ {top}, 7 - top) = low
  <2>1. \A x \in word : x - top + 7 \in B
    <3> SUFFICES ASSUME NEW x \in word PROVE x - top + 7 \in B
      OBVIOUS
    <3>1. PICK b \in B : x = b + 32 - rotate
      BY <1>7
    <3>2. b \in 0 .. 7 /\ rotate \in Int /\ top = 39 - rotate
      BY <1>3, <1>6 DEF top
    <3>3. x - top + 7 = b
      BY <3>1, <3>2
    <3>4. QED
      BY <3>3
  <2>2. \A y \in At(word \ {top}, 7 - top) : y \in low
    <3> SUFFICES ASSUME NEW y \in At(word \ {top}, 7 - top) PROVE y \in low
      OBVIOUS
    <3>1. PICK x \in word \ {top} : y = x + (7 - top)
      BY DEF At
    <3>2. x \in Int /\ top \in Int
      BY <1>8
    <3>3. y = x - top + 7 /\ y # 7
      BY <3>1, <3>2
    <3>4. QED
      BY <2>1, <3>3 DEF B
  <2>3. \A y \in low : y \in At(word \ {top}, 7 - top)
    <3> SUFFICES ASSUME NEW y \in low PROVE y \in At(word \ {top}, 7 - top)
      OBVIOUS
    <3> DEFINE x == y + 32 - rotate
    <3>1. x \in word
      BY <1>7 DEF B
    <3>2. y \in 0 .. 6 /\ rotate \in Int /\ top = 39 - rotate
      BY <1>3 DEF top
    <3>3. x # top /\ y = x + (7 - top)
      BY <3>2
    <3> HIDE DEF x
    <3>4. QED
      BY <3>1, <3>3 DEF At
  <2>4. QED
    BY <2>2, <2>3
<1>14. {b \in 7 .. 11 : (rotate \div 2^(b - 7)) % 2 = 1} = c \cap (7 .. 11)
  <2>1. ASSUME NEW b \in 7 .. 11 PROVE (rotate \div 2^(b - 7)) % 2 = 1 <=> b \in c
    <3> DEFINE m == b - 7
    <3>1. m \in 0 .. 4 /\ m + 7 = b
      OBVIOUS
    <3> HIDE DEF m, S
    <3>2. (rotate \div 2^m) % 2 = 1 <=> m \in S
      BY <1>4, <3>1
    <3>3. m \in S <=> b \in c
      BY <1>1, <3>1
    <3>4. QED
      BY <3>2, <3>3 DEF m
  <2>2. QED
    BY <2>1
<1>15. QED
  BY <1>12, <1>13, <1>14 DEF word

LEMMA ExpansionReadsBack ==
  ASSUME NEW c \in SUBSET (0 .. 11)
  PROVE  \/ Encoded12(thumb_expand_imm(c)) = c
         \/ thumb_expand_imm(c) = {} /\ c \cap (0 .. 7) = {}
<1> DEFINE B == Byte(c)
           pattern == c \cap (8 .. 11)
<1>1. B \in SUBSET (0 .. 7) /\ c = B \cup pattern /\ B = c \cap (0 .. 7)
  <2>1. \A x \in c : x \in 0 .. 7 \/ x \in 8 .. 11
    OBVIOUS
  <2>2. B = c \cap (0 .. 7)
    BY DEF Byte
  <2> HIDE DEF B
  <2>3. QED
    BY <2>1, <2>2, Zenon
<1>2. B = {} => At(B, 8) = {} /\ At(B, 16) = {} /\ At(B, 24) = {} /\ At(B, 0) = {}
  BY DEF At
<1>3. CASE pattern = {}
  <2>1. thumb_expand_imm(c) = B
    BY <1>3 DEF thumb_expand_imm
  <2> HIDE DEF B
  <2>2. Encoded12(B) = B
    BY <1>1 DEF Encoded12
  <2>3. QED
    BY <1>1, <1>3, <2>1, <2>2
<1>4. CASE pattern = {8}
  <2>1. thumb_expand_imm(c) = B \cup At(B, 16)
    BY <1>4 DEF thumb_expand_imm
  <2> HIDE DEF B
  <2>2. QED
    BY <1>1, <1>2, <1>4, <2>1, PatternReadsBack
<1>5. CASE pattern = {9}
  <2>1. thumb_expand_imm(c) = At(B, 8) \cup At(B, 24)
    BY <1>5 DEF thumb_expand_imm
  <2> HIDE DEF B
  <2>2. QED
    BY <1>1, <1>2, <1>5, <2>1, PatternReadsBack
<1>6. CASE pattern = {8, 9}
  <2>1. thumb_expand_imm(c) = UNION {At(B, by) : by \in {0, 8, 16, 24}}
    BY <1>6 DEF thumb_expand_imm
  <2>2. B = {} => UNION {At(B, by) : by \in {0, 8, 16, 24}} = {}
    BY <1>2
  <2> HIDE DEF B
  <2>3. QED
    BY <1>1, <1>6, <2>1, <2>2, PatternReadsBack
<1>7. CASE 10 \in c \/ 11 \in c
  <2>1. pattern # {} /\ pattern # {8} /\ pattern # {9} /\ pattern # {8, 9}
    BY <1>7
  <2>2. thumb_expand_imm(c) = Rotated(c)
    BY <2>1 DEF thumb_expand_imm
  <2>3. c = (c \cap (0 .. 6)) \cup (c \cap (7 .. 11))
    <3>1. \A x \in c : x \in 0 .. 6 \/ x \in 7 .. 11
      OBVIOUS
    <3>2. QED
      BY <3>1, Zenon
  <2>4. QED
    BY <1>7, <2>2, <2>3, RotationReadsBack
<1>8. QED
  <2>1. pattern \in {{}, {8}, {9}, {8, 9}} \/ 10 \in c \/ 11 \in c
    <3>1. CASE 10 \notin c /\ 11 \notin c
      <4>1. \A x \in pattern : x = 8 \/ x = 9
        BY <3>1
      <4>2. QED
        BY <4>1
    <3>2. QED
      BY <3>1
  <2>2. QED
    BY <1>3, <1>4, <1>5, <1>6, <1>7, <2>1

(* The bits of the opcode a constant is put together from. *)
LEMMA BitsOfConstant12 ==
  ASSUME NEW op \in SUBSET Bits
  PROVE  /\ Constant12(op) \in SUBSET (0 .. 11)
         /\ \A x \in Int : x \in Constant12(op) <=>
              \/ x \in 0 .. 7 /\ x \in op
              \/ x \in 8 .. 10 /\ x + 4 \in op
              \/ x = 11 /\ 26 \in op
<1>1. op \in SUBSET Int
  BY DEF Bits
<1>2. ASSUME NEW x \in Int
      PROVE  x \in Constant12(op) <=>
              \/ x \in 0 .. 7 /\ x \in op
              \/ x \in 8 .. 10 /\ x + 4 \in op
              \/ x = 11 /\ 26 \in op
  <2>1. /\ x \in Piece(op, 26, 26, -15) <=> x - (-15) \in op /\ 26 <= x - (-15) /\ x - (-15) <= 26
        /\ x \in Piece(op, 12, 14, -4) <=> x - (-4) \in op /\ 12 <= x - (-4) /\ x - (-4) <= 14
        /\ x \in Piece(op, 0, 7, 0) <=> x - 0 \in op /\ 0 <= x - 0 /\ x - 0 <= 7
    BY <1>1, InPiece
  <2>2. x - (-15) = x + 15 /\ x - (-4) = x + 4 /\ x - 0 = x
    OBVIOUS
  <2>3. /\ x \in Piece(op, 26, 26, -15) <=> x = 11 /\ 26 \in op
        /\ x \in Piece(op, 12, 14, -4) <=> x \in 8 .. 10 /\ x + 4 \in op
        /\ x \in Piece(op, 0, 7, 0) <=> x \in 0 .. 7 /\ x \in op
    BY <2>1, <2>2
  <2>4. QED
    BY <2>3 DEF Constant12
<1>3. \A x \in Constant12(op) : x \in Int
  BY <1>1 DEF Constant12, Piece
<1>4. \A x \in Constant12(op) : x \in 0 .. 11
  BY <1>2, <1>3
<1>5. QED
  BY <1>2, <1>4

LEMMA ScatteredBack ==
  ASSUME NEW op \in SUBSET Bits
  PROVE  Scattered12(Constant12(op)) = op \cap Imm12Bits
<1> DEFINE c == Constant12(op)
<1>1. /\ c \in SUBSET (0 .. 11)
      /\ \A x \in Int : x \in c <=>
              \/ x \in 0 .. 7 /\ x \in op
              \/ x \in 8 .. 10 /\ x + 4 \in op
              \/ x = 11 /\ 26 \in op
  BY BitsOfConstant12
<1> HIDE DEF c
<1>2. c \in SUBSET Int
  BY <1>1
<1>3. Scattered12(c) = Piece(c, 11, 11, 15) \cup Piece(c, 8, 10, 4) \cup Piece(c, 0, 7, 0)
  BY DEF Scattered12
<1>4. ASSUME NEW x \in Int PROVE x \in Scattered12(c) <=> x \in op \cap Imm12Bits
  <2>1. /\ x \in Piece(c, 11, 11, 15) <=> x - 15 \in c /\ 11 <= x - 15 /\ x - 15 <= 11
        /\ x \in Piece(c, 8, 10, 4) <=> x - 4 \in c /\ 8 <= x - 4 /\ x - 4 <= 10
        /\ x \in Piece(c, 0, 7, 0) <=> x - 0 \in c /\ 0 <= x - 0 /\ x - 0 <= 7
    BY <1>2, InPiece
  <2>2. x - 0 = x
    OBVIOUS
  <2>3. /\ x \in Piece(c, 11, 11, 15) <=> x = 26 /\ 11 \in c
        /\ x \in Piece(c, 8, 10, 4) <=> x \in 12 .. 14 /\ x - 4 \in c
        /\ x \in Piece(c, 0, 7, 0) <=> x \in 0 .. 7 /\ x \in c
    BY <2>1, <2>2
  <2>4. /\ 11 \in c <=> 26 \in op
        /\ x \in 12 .. 14 => (x - 4 \in c <=> x \in op)
        /\ x \in 0 .. 7 => (x \in c <=> x \in op)
    <3>1. x \in 12 .. 14 => x - 4 \in 8 .. 10 /\ (x - 4) + 4 = x
      OBVIOUS
    <3>2. QED
      BY <1>1, <3>1
  <2>5. QED
    BY <1>3, <2>3, <2>4 DEF Imm12Bits
<1>5. Scattered12(c) \subseteq Int
  <2>1. ASSUME NEW low, NEW high, NEW by \in Int PROVE Piece(c, low, high, by) \subseteq Int
    BY <1>2 DEF Piece
  <2>2. /\ Piece(c, 11, 11, 15) \subseteq Int
        /\ Piece(c, 8, 10, 4) \subseteq Int
        /\ Piece(c, 0, 7, 0) \subseteq Int
    BY <2>1
  <2>3. QED
    BY <1>3, <2>2
<1>6. op \cap Imm12Bits \subseteq Int
  BY DEF Imm12Bits
<1>7. QED
  BY <1>4, <1>5, <1>6 DEF c

(* A piece depends on the bits of its range only. *)
LEMMA PieceOfSame ==
  ASSUME NEW a, NEW b, NEW low \in Int, NEW high \in Int, NEW by,
         \A x \in low .. high : x \in a <=> x \in b
  PROVE  Piece(a, low, high, by) = Piece(b, low, high, by)
<1>1. a \cap (low .. high) = b \cap (low .. high)
  OBVIOUS
<1>2. QED
  BY <1>1 DEF Piece

(* The digits of a halfword are the bits it was put together from. *)
LEMMA HalfwordReadsBack ==
  ASSUME NEW op \in SUBSET Bits
  PROVE  /\ Constant16(op) \subseteq 0 .. 15
         /\ EncodedHalfword(ValueOf(Constant16(op))) = op \cap Imm16Bits
<1> DEFINE c == Constant12(op)
           h == Constant16(op)
           digits == {b \in 0 .. 15 : (ValueOf(h) \div 2^b) % 2 = 1}
<1>1. op \in SUBSET Int
  BY DEF Bits
<1>2. ASSUME NEW x PROVE x \in Piece(op, 16, 19, -4) <=> x \in 12 .. 15 /\ x + 4 \in op
  <2>1. x \in Piece(op, 16, 19, -4) <=> x \in Int /\ x - (-4) \in op /\ 16 <= x - (-4) /\ x - (-4) <= 19
    BY <1>1, InPiece
  <2>2. x \in Int => x - (-4) = x + 4
    OBVIOUS
  <2>3. QED
    BY <2>1, <2>2
<1>3. h = c \cup Piece(op, 16, 19, -4) /\ c \in SUBSET (0 .. 11)
  BY BitsOfConstant12 DEF Constant16
<1> HIDE DEF c, h
<1>4. h \subseteq 0 .. 15
  <2>1. ASSUME NEW x \in h PROVE x \in 0 .. 15
    <3>1. x \in 0 .. 11 \/ x \in 12 .. 15
      BY <1>2, <1>3
    <3>2. QED
      BY <3>1
  <2>2. QED
    BY <2>1
<1>5. digits = h
  <2>1. \A b \in 0 .. 23 : ((ValueOf(h) \div 2^b) % 2 = 1) <=> b \in h
    BY DigitsReadBack
  <2>2. ASSUME NEW b \in 0 .. 15 PROVE b \in digits <=> b \in h
    <3>1. b \in digits <=> (ValueOf(h) \div 2^b) % 2 = 1
      OBVIOUS
    <3>2. b \in 0 .. 23
      OBVIOUS
    <3>3. QED
      BY <2>1, <3>1, <3>2, Zenon
  <2>3. QED
    BY <1>4, <2>2
<1>6. Scattered12(h) = Scattered12(c)
  <2>1. \A x \in 0 .. 11 : x \in h <=> x \in c
    BY <1>2, <1>3
  <2>2. /\ Piece(h, 11, 11, 15) = Piece(c, 11, 11, 15)
        /\ Piece(h, 8, 10, 4) = Piece(c, 8, 10, 4)
        /\ Piece(h, 0, 7, 0) = Piece(c, 0, 7, 0)
    BY <2>1, PieceOfSame
  <2>3. QED
    BY <2>2 DEF Scattered12
<1>7. Piece(h, 12, 15, 4) = op \cap (16 .. 19)
  <2>1. ASSUME NEW x PROVE x \in Piece(h, 12, 15, 4) <=> x \in op \cap (16 .. 19)
    <3>1. x \in Piece(h, 12, 15, 4) <=> x \in Int /\ x - 4 \in h /\ 12 <= x - 4 /\ x - 4 <= 15
      BY <1>4, InPiece
    <3>2. x \in Int /\ x - 4 \in 12 .. 15 => (x - 4 \in h <=> x \in op)
      <4>1. x \in Int => (x - 4) + 4 = x
        OBVIOUS
      <4>2. x - 4 \in 12 .. 15 => (x - 4 \in h <=> (x - 4) + 4 \in op)
        BY <1>2, <1>3
      <4>3. QED
        BY <4>1, <4>2
    <3>3. QED
      BY <3>1, <3>2
  <2>2. QED
    BY <2>1
<1>8. Scattered12(c) = op \cap Imm12Bits
  BY ScatteredBack DEF c
<1>9. EncodedHalfword(ValueOf(h)) = op \cap Imm16Bits
  <2>1. EncodedHalfword(ValueOf(h)) = Scattered12(digits) \cup Piece(digits, 12, 15, 4)
    BY DEF EncodedHalfword
  <2> HIDE DEF digits
  <2>2. QED
    BY <1>5, <1>6, <1>7, <1>8, <2>1 DEF Imm16Bits
<1>10. QED
  BY <1>4, <1>9 DEF h

(* An amount is too small to be anything but itself. *)
LEMMA AmountIsItself ==
  ASSUME NEW op \in SUBSET Bits
  PROVE  thumb_expand_imm(ShiftAmount(op)) = ShiftAmount(op)
<1> DEFINE c == ShiftAmount(op)
<1>1. op \in SUBSET Int
  BY DEF Bits
<1>2. ASSUME NEW x \in c PROVE x \in 0 .. 4
  <2>1. x \in Piece(op, 12, 14, -10) \/ x \in Piece(op, 6, 7, -6)
    BY DEF ShiftAmount
  <2>2. CASE x \in Piece(op, 12, 14, -10)
    <3>1. x \in Int /\ 12 <= x - (-10) /\ x - (-10) <= 14
      BY <1>1, <2>2, InPiece
    <3>2. QED
      BY <3>1
  <2>3. CASE x \in Piece(op, 6, 7, -6)
    <3>1. x \in Int /\ 6 <= x - (-6) /\ x - (-6) <= 7
      BY <1>1, <2>3, InPiece
    <3>2. QED
      BY <3>1
  <2>4. QED
    BY <2>1, <2>2, <2>3
<1> HIDE DEF c
<1>3. c \cap (8 .. 11) = {} /\ Byte(c) = c
  BY <1>2 DEF Byte
<1>4. thumb_expand_imm(c) = c
  BY <1>3 DEF thumb_expand_imm
<1>5. QED
  BY <1>4 DEF c

------------------------------------------------------------------------------
(* The inductive invariant: the handler of an encoding with an immediate is called with
   the one that is in the opcode. *)
Extended ==
  /\ opcode \in SUBSET Bits
  /\ Done /\ decoded.name \in WithImmediate => imm = Immediate(decoded.name, opcode)

LEMMA SpecExtended == Spec => []Extended
<1>1. Init => Extended
  BY OpcodesAssumption DEF Init, Extended, Done
<1>2. Extended /\ [decode_insn]_vars => Extended'
  BY DEF Extended, Done, decode_insn, vars
<1>3. QED
  BY <1>1, <1>2, PTL DEF Spec

(* Every conditional and unconditional branch and every call goes where it was assembled
   to go, whatever its opcode: the halfwords its word stands for are within its reach and
   are assembled to the bits of the opcode. *)
LEMMA BranchesReadBack == Spec => []DistancesReadBack
<1>1. Extended => DistancesReadBack
  <2> SUFFICES ASSUME Extended, Done, decoded.name \in Branches
               PROVE  /\ imm \cap (24 .. 31) \in {{}, 24 .. 31}
                      /\ Distance(imm) \in -Reach(decoded.name) .. Reach(decoded.name) - 1
                      /\ EncodedDistance(decoded.name, Distance(imm)) = opcode \cap DistanceBits(decoded.name)
    BY DEF DistancesReadBack
  <2>1. opcode \in SUBSET Bits /\ imm = Immediate(decoded.name, opcode)
    BY DEF Extended, WithImmediate
  <2>2. QED
    BY <2>1, BranchReadsBack
<1>2. QED
  BY <1>1, SpecExtended, PTL

(* Every constant, plain, repeated or rotated, is the one an assembler would encode in
   the bits of the opcode, and every amount is the one in the opcode. *)
LEMMA EveryConstantReadsBack == Spec => []ConstantsReadBack
<1>1. Extended => ConstantsReadBack
  <2> SUFFICES ASSUME Extended, Done PROVE ConstantsReadBack
    BY DEF ConstantsReadBack
  <2>1. opcode \in SUBSET Bits
    BY DEF Extended
  <2>2. ASSUME decoded.name \in Expanded
        PROVE  \/ Scattered12(Encoded12(imm)) = opcode \cap Imm12Bits
               \/ imm = {} /\ opcode \cap (0 .. 7) = {}
    <3> DEFINE c == Constant12(opcode)
    <3>1. imm = thumb_expand_imm(c)
      <4>1. imm = Immediate(decoded.name, opcode)
        BY <2>2 DEF Extended, WithImmediate
      <4>2. decoded.name \notin Amounts /\ decoded.name \notin Halfwords /\ decoded.name \notin LongBranches
        BY <2>2 DEF Expanded, Amounts, Halfwords, LongBranches
      <4>3. QED
        BY <2>2, <4>1, <4>2 DEF Immediate
    <3>2. c \in SUBSET (0 .. 11) /\ Scattered12(c) = opcode \cap Imm12Bits
      BY <2>1, BitsOfConstant12, ScatteredBack
    <3>3. c \cap (0 .. 7) = opcode \cap (0 .. 7)
      <4>1. \A x \in 0 .. 7 : x \in c <=> x \in opcode
        BY <2>1, BitsOfConstant12
      <4>2. QED
        BY <4>1
    <3> HIDE DEF c
    <3>4. Encoded12(imm) = c \/ (imm = {} /\ c \cap (0 .. 7) = {})
      BY <3>1, <3>2, ExpansionReadsBack
    <3>5. QED
      BY <3>2, <3>3, <3>4
  <2>3. ASSUME decoded.name \in Amounts PROVE imm = ShiftAmount(opcode)
    <3>1. imm = thumb_expand_imm(ShiftAmount(opcode))
      <4>1. imm = Immediate(decoded.name, opcode)
        BY <2>3 DEF Extended, WithImmediate
      <4>2. decoded.name \notin Expanded /\ decoded.name \notin Halfwords /\ decoded.name \notin LongBranches
        BY <2>3 DEF Expanded, Amounts, Halfwords, LongBranches
      <4>3. QED
        BY <2>3, <4>1, <4>2 DEF Immediate
    <3>2. QED
      BY <2>1, <3>1, AmountIsItself
  <2>4. QED
    BY <2>2, <2>3 DEF ConstantsReadBack
<1>2. QED
  BY <1>1, SpecExtended, PTL

(* Every halfword is the number that was assembled. *)
LEMMA EveryHalfwordReadsBack == Spec => []HalfwordsReadBack
<1>1. Extended => HalfwordsReadBack
  <2> SUFFICES ASSUME Extended, Done, decoded.name \in Halfwords
               PROVE  imm \subseteq 0 .. 15 /\ EncodedHalfword(ValueOf(imm)) = opcode \cap Imm16Bits
    BY DEF HalfwordsReadBack
  <2>1. opcode \in SUBSET Bits /\ imm = Immediate(decoded.name, opcode)
    BY DEF Extended, WithImmediate
  <2>2. decoded.name \notin Expanded /\ decoded.name \notin Amounts /\ decoded.name \notin LongBranches
    BY DEF Expanded, Amounts, Halfwords, LongBranches
  <2>3. imm = Constant16(opcode)
    BY <2>1, <2>2 DEF Immediate
  <2>4. QED
    BY <2>1, <2>3, HalfwordReadsBack
<1>2. QED
  BY <1>1, SpecExtended, PTL

(* For all 2^32 opcodes: what the handler of an instruction with an extended immediate
   is called with is what the instruction was assembled for. *)
THEOREM ImmediatesAreAsAssembled == Spec => []ImmediatesReadBack
<1>1. ConstantsReadBack /\ HalfwordsReadBack /\ DistancesReadBack => ImmediatesReadBack
  BY DEF ImmediatesReadBack
<1>2. QED
  BY <1>1, BranchesReadBack, EveryConstantReadsBack, EveryHalfwordReadsBack, PTL
================================================================================
