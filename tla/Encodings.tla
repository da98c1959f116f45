------------------------------ MODULE Encodings ------------------------------
(***************************************************************************)
(* The instruction encodings decoder.c knows, in the order in which        *)
(* decode_insn tries them.  The order is the generator's: by the priority  *)
(* codegen/instructions.xml gives an encoding, then by name, so that every *)
(* group below is one run of branches of that long if-else chain.          *)
(*                                                                         *)
(* An opcode is the set of its bits that are one: bits 31 to 16 are the    *)
(* first halfword of an instruction, bits 15 to 0 the second one.  An      *)
(* encoding is a pattern: the bits that must be ones and those that must   *)
(* be zeros.  The masks and values are those of the code.                  *)
(***************************************************************************)
EXTENDS Integers, Sequences

Bits == 0 .. 31
FirstHalf == 16 .. 31
SecondHalf == 0 .. 15

(* The bits that are one in a halfword, at bit positions from low on. *)
HalfwordBits(halfword, low) ==
  {b \in low .. low + 15 : (halfword \div 2^(b - low)) % 2 = 1}

Encoding(name, length, mask, value) ==
  [name |-> name, length |-> length, ones |-> mask \cap value, zeros |-> mask \ value]

(* A 32-bit encoding. *)
Wide(name, mask1, value1, mask2, value2) ==
  Encoding(name, 4, HalfwordBits(mask1, 16) \cup HalfwordBits(mask2, 0),
                    HalfwordBits(value1, 16) \cup HalfwordBits(value2, 0))

Narrow_WidenedLength(name, mask, value) ==   (* returns the length it was widened to *)
  Encoding(name, 4, HalfwordBits(mask, 16), HalfwordBits(value, 16))
Narrow_Padded(name, mask, value) ==   (* widened with zeros that must match *)
  Encoding(name, 2, HalfwordBits(mask, 16) \cup SecondHalf, HalfwordBits(value, 16))

(* A 16-bit one, widened: whatever follows it. *)
Narrow(name, mask, value) ==
  Encoding(name, 2, HalfwordBits(mask, 16), HalfwordBits(value, 16))

------------------------------------------------------------------------------
Priority0_adc_imm_T1_to_adr_T1 == <<
  Wide("adc_imm_T1", \hfbe0, \hf140, \h8000, \h0), Narrow("adc_reg_T1", \hffc0, \h4140),
  Wide("adc_reg_T2", \hffe0, \heb40, \h8000, \h0), Narrow("add_SPi_T1", \hf800, \ha800),
  Narrow("add_SPi_T2", \hff80, \hb000), Narrow("add_imm_T1", \hfe00, \h1c00),
  Narrow("add_imm_T2", \hf800, \h3000), Narrow("add_reg_T1", \hfe00, \h1800),
  Narrow("adr_T1", \hf800, \ha000)>>

Priority0_and_reg_T1_to_bkpt_T1 == <<
  Narrow("and_reg_T1", \hffc0, \h4000), Narrow("asr_imm_T1", \hf800, \h1000),
  Narrow("asr_reg_T1", \hffc0, \h4100), Wide("asr_reg_T2", \hffe0, \hfa40, \hf0f0, \hf000),
  Narrow("b_T2", \hf800, \he000), Wide("bic_imm_T1", \hfbe0, \hf020, \h8000, \h0),
  Narrow("bic_reg_T1", \hffc0, \h4380), Wide("bic_reg_T2", \hffe0, \hea20, \h0, \h0),
  Narrow("bkpt_T1", \hff00, \hbe00)>>

Priority0_blx_reg_T1_to_eor_reg_T1 == <<
  Narrow("blx_reg_T1", \hff80, \h4780), Narrow("bx_T1", \hff80, \h4700),
  Narrow("cbnz_T1", \hf500, \hb100), Wide("clz_T1", \hfff0, \hfab0, \hf0f0, \hf080),
  Narrow("cmn_reg_T1", \hffc0, \h42c0), Narrow("cmp_imm_T1", \hf800, \h2800),
  Narrow("cmp_reg_T1", \hffc0, \h4280), Narrow("cmp_reg_T2", \hff00, \h4500),
  Narrow("cps_T1", \hffe0, \hb660), Narrow("eor_reg_T1", \hffc0, \h4040)>>

Priority0_ldm_T1_to_ldrh_imm_T1 == <<
  Narrow("ldm_T1", \hf800, \hc800), Wide("ldmdb_T1", \hffd0, \he910, \h2000, \h0),
  Narrow("ldr_imm_T1", \hf800, \h6800), Narrow("ldr_imm_T2", \hf800, \h9800),
  Narrow("ldr_lit_T1", \hf800, \h4800), Narrow("ldr_reg_T1", \hfe00, \h5800),
  Narrow("ldrb_imm_T1", \hf800, \h7800), Narrow("ldrb_reg_T1", \hfe00, \h5c00),
  Narrow("ldrh_imm_T1", \hf800, \h8800)>>

Priority0_ldrh_reg_T1_to_mcr2_T2 == <<
  Narrow("ldrh_reg_T1", \hfe00, \h5a00), Narrow("ldrsb_reg_T1", \hfe00, \h5600),
  Narrow("ldrsh_reg_T1", \hfe00, \h5e00), Narrow("lsl_reg_T1", \hffc0, \h4080),
  Wide("lsl_reg_T2", \hffe0, \hfa00, \hf0f0, \hf000), Narrow("lsr_imm_T1", \hf800, \h800),
  Narrow("lsr_reg_T1", \hffc0, \h40c0), Wide("lsr_reg_T2", \hffe0, \hfa20, \hf0f0, \hf000),
  Wide("mcr2_T2", \hff10, \hfe00, \h10, \h10)>>

Priority0_mls_T1_to_pkhbt_T1 == <<
  Wide("mls_T1", \hfff0, \hfb00, \hf0, \h10), Narrow("mov_imm_T1", \hf800, \h2000),
  Narrow("mov_reg_T1", \hff00, \h4600), Wide("movt_T1", \hfbf0, \hf2c0, \h8000, \h0),
  Wide("mrc2_T2", \hff10, \hfe10, \h10, \h10), Narrow("mul_T1", \hffc0, \h4340),
  Narrow("mvn_reg_T1", \hffc0, \h43c0), Narrow("orr_reg_T1", \hffc0, \h4300),
  Wide("pkhbt_T1", \hffe0, \heac0, \h0, \h0)>>

Priority0_pop_T1_to_qsub8_T1 == <<
  Narrow("pop_T1", \hfe00, \hbc00), Narrow("push_T1", \hfe00, \hb400),
  Wide("qadd16_T1", \hfff0, \hfa90, \hf0f0, \hf010),
  Wide("qadd8_T1", \hfff0, \hfa80, \hf0f0, \hf010),
  Wide("qadd_T1", \hfff0, \hfa80, \hf0f0, \hf080),
  Wide("qdadd_T1", \hfff0, \hfa80, \hf0f0, \hf090),
  Wide("qdsub_T1", \hfff0, \hfa80, \hf0f0, \hf0b0),
  Wide("qsub16_T1", \hfff0, \hfad0, \hf0f0, \hf010),
  Wide("qsub8_T1", \hfff0, \hfac0, \hf0f0, \hf010)>>

Priority0_qsub_T1_to_ror_reg_T2 == <<
  Wide("qsub_T1", \hfff0, \hfa80, \hf0f0, \hf0a0),
  Wide("rbit_T1", \hfff0, \hfa90, \hf0f0, \hf0a0), Narrow("rev16_T1", \hffc0, \hba40),
  Wide("rev16_T2", \hfff0, \hfa90, \hf0f0, \hf090), Narrow("rev_T1", \hffc0, \hba00),
  Wide("rev_T2", \hfff0, \hfa90, \hf0f0, \hf080), Narrow("revsh_T1", \hffc0, \hbac0),
  Wide("revsh_T2", \hfff0, \hfa90, \hf0f0, \hf0b0), Narrow("ror_reg_T1", \hffc0, \h41c0),
  Wide("ror_reg_T2", \hffe0, \hfa60, \hf0f0, \hf000)>>

Priority0_rsb_imm_T1_to_sbc_reg_T1 == <<
  Narrow("rsb_imm_T1", \hffc0, \h4240), Wide("rsb_imm_T2", \hfbe0, \hf1c0, \h8000, \h0),
  Wide("rsb_reg_T1", \hffe0, \hebc0, \h0, \h0),
  Wide("sadd16_T1", \hfff0, \hfa90, \hf0f0, \hf000),
  Wide("sadd8_T1", \hfff0, \hfa80, \hf0f0, \hf000),
  Wide("sasx_T1", \hfff0, \hfaa0, \hf0f0, \hf000),
  Wide("sbc_imm_T1", \hfbe0, \hf160, \h8000, \h0), Narrow("sbc_reg_T1", \hffc0, \h4180)>>

Priority0_sbc_reg_T2_to_shsax_T1 == <<
  Wide("sbc_reg_T2", \hffe0, \heb60, \h0, \h0), Wide("sbfx_T1", \hfbf0, \hf340, \h8000, \h0),
  Wide("sdiv_T1", \hfff0, \hfb90, \hf0, \hf0), Wide("sel_T1", \hfff0, \hfaa0, \hf0f0, \hf080),
  Wide("shadd16_T1", \hfff0, \hfa90, \hf0f0, \hf020),
  Wide("shadd8_T1", \hfff0, \hfa80, \hf0f0, \hf020),
  Wide("shasx_T1", \hfff0, \hfaa0, \hf0f0, \hf020),
  Wide("shsax_T1", \hfff0, \hfae0, \hf0f0, \hf020)>>

Priority0_shsub16_T1_to_smull_T1 == <<
  Wide("shsub16_T1", \hfff0, \hfad0, \hf0f0, \hf020),
  Wide("shsub8_T1", \hfff0, \hfac0, \hf0f0, \hf020),
  Wide("smlal_T1", \hfff0, \hfbc0, \hf0, \h0), Wide("smlalbb_T1", \hfff0, \hfbc0, \hc0, \h80),
  Wide("smlald_T1", \hfff0, \hfbc0, \he0, \hc0), Wide("smlsld_T1", \hfff0, \hfbd0, \he0, \hc0),
  Wide("smmls_T1", \hfff0, \hfb60, \he0, \h0), Wide("smull_T1", \hfff0, \hfb80, \hf0, \h0)>>

Priority0_ssax_T1_to_str_reg_T1 == <<
  Wide("ssax_T1", \hfff0, \hfae0, \hf0f0, \hf000),
  Wide("ssub16_T1", \hfff0, \hfad0, \hf0f0, \hf000),
  Wide("ssub8_T1", \hfff0, \hfac0, \hf0f0, \hf000), Narrow("stm_T1", \hf800, \hc000),
  Wide("stm_T2", \hffd0, \he880, \ha000, \h0), Narrow("str_imm_T1", \hf800, \h6000),
  Narrow("str_imm_T2", \hf800, \h9000), Wide("str_imm_T3", \hfff0, \hf8c0, \h0, \h0),
  Narrow("str_reg_T1", \hfe00, \h5000)>>

Priority0_str_reg_T2_to_strh_reg_T2 == <<
  Wide("str_reg_T2", \hfff0, \hf840, \hfc0, \h0), Narrow("strb_imm_T1", \hf800, \h7000),
  Wide("strb_imm_T2", \hfff0, \hf880, \h0, \h0), Narrow("strb_reg_T1", \hfe00, \h5400),
  Wide("strb_reg_T2", \hfff0, \hf800, \hfc0, \h0), Narrow("strh_imm_T1", \hf800, \h8000),
  Wide("strh_imm_T2", \hfff0, \hf8a0, \h0, \h0), Narrow("strh_reg_T1", \hfe00, \h5200),
  Wide("strh_reg_T2", \hfff0, \hf820, \hfc0, \h0)>>

Priority0_sub_SPimm_T1_to_uasx_T1 == <<
  Narrow("sub_SPimm_T1", \hff80, \hb080), Narrow("sub_imm_T1", \hfe00, \h1e00),
  Narrow("sub_imm_T2", \hf800, \h3800), Narrow("sub_reg_T1", \hfe00, \h1a00),
  Narrow("sxtb_T1", \hffc0, \hb240), Narrow("sxth_T1", \hffc0, \hb200),
  Narrow("tst_reg_T1", \hffc0, \h4200), Wide("uadd16_T1", \hfff0, \hfa90, \hf0f0, \hf040),
  Wide("uadd8_T1", \hfff0, \hfa80, \hf0f0, \hf040),
  Wide("uasx_T1", \hfff0, \hfaa0, \hf0f0, \hf040)>>

Priority0_ubfx_T1_to_umaal_T1 == <<
  Wide("ubfx_T1", \hfbf0, \hf3c0, \h8000, \h0), Wide("udiv_T1", \hfff0, \hfbb0, \hf0, \hf0),
  Wide("uhadd16_T1", \hfff0, \hfa90, \hf0f0, \hf060),
  Wide("uhadd8_T1", \hfff0, \hfa80, \hf0f0, \hf060),
  Wide("uhasx_T1", \hfff0, \hfaa0, \hf0f0, \hf060),
  Wide("uhsax_T1", \hfff0, \hfae0, \hf0f0, \hf060),
  Wide("uhsub16_T1", \hfff0, \hfad0, \hf0f0, \hf060),
  Wide("uhsub8_T1", \hfff0, \hfac0, \hf0f0, \hf060),
  Wide("umaal_T1", \hfff0, \hfbe0, \hf0, \h60)>>

Priority0_umlal_T1_to_usax_T1 == <<
  Wide("umlal_T1", \hfff0, \hfbe0, \hf0, \h0), Wide("umull_T1", \hfff0, \hfba0, \hf0, \h0),
  Wide("uqadd16_T1", \hfff0, \hfa90, \hf0f0, \hf050),
  Wide("uqadd8_T1", \hfff0, \hfa80, \hf0f0, \hf050),
  Wide("uqasx_T1", \hfff0, \hfaa0, \hf0f0, \hf050),
  Wide("uqsax_T1", \hfff0, \hfae0, \hf0f0, \hf050),
  Wide("uqsub16_T1", \hfff0, \hfad0, \hf0f0, \hf050),
  Wide("uqsub8_T1", \hfff0, \hfac0, \hf0f0, \hf050),
  Wide("usax_T1", \hfff0, \hfae0, \hf0f0, \hf040)>>

Priority0_usub16_T1_to_uxth_T1 == <<
  Wide("usub16_T1", \hfff0, \hfad0, \hf0f0, \hf040),
  Wide("usub8_T1", \hfff0, \hfac0, \hf0f0, \hf040), Narrow("uxtb_T1", \hffc0, \hb2c0),
  Narrow("uxth_T1", \hffc0, \hb280)>>

Priority1_add_SPi_T4_to_ldrexh_T1 == <<
  Wide("add_SPi_T4", \hfbff, \hf20d, \h8000, \h0), Narrow("add_SPr_T2", \hff87, \h4485),
  Wide("adr_T2", \hfbff, \hf2af, \h8000, \h0), Wide("adr_T3", \hfbff, \hf20f, \h8000, \h0),
  Wide("bfc_T1", \hfbff, \hf36f, \h8000, \h0),
  Wide("cmn_imm_T1", \hfbf0, \hf110, \h8f00, \hf00),
  Wide("cmn_reg_T2", \hfff0, \heb10, \hf00, \hf00),
  Wide("cmp_reg_T3", \hfff0, \hebb0, \h8f00, \hf00),
  Wide("ldrexb_T1", \hfff0, \he8d0, \hfff, \hf4f),
  Wide("ldrexh_T1", \hfff0, \he8d0, \hfff, \hf5f)>>

Priority1_ldrh_reg_T2_to_mrrc2_T2 == <<
  Wide("ldrh_reg_T2", \hfff0, \hf830, \hfc0, \h0),
  Wide("ldrsh_T1", \hfff0, \hf930, \hf00, \he00),
  Wide("ldrsh_reg_T2", \hfff0, \hf930, \hfc0, \h0), Wide("mcrr2_T2", \hfff0, \hfc40, \h0, \h0),
  Wide("mov_imm_T2", \hfbef, \hf04f, \h8000, \h0), Narrow("mov_reg_T2", \hffc0, \h0),
  Wide("mov_reg_T3", \hffef, \hf24f, \hf0f0, \h0), Wide("mrrc2_T2", \hfff0, \hfc50, \h0, \h0)>>

Priority1_mul_T2_to_push_T2 == <<
  Wide("mul_T2", \hfff0, \hfb00, \hf0f0, \hf000),
  Wide("mvn_imm_T1", \hfbef, \hf06f, \h8000, \h0),
  Wide("mvn_reg_T2", \hffef, \hea6f, \h8000, \h0), Narrow("nop_T1", \hffff, \hbf00),
  Wide("nop_T2", \hffff, \hf3af, \hffff, \h8000),
  Wide("pld_immlit_T3", \hff7f, \hf91f, \hf000, \hf000),
  Wide("pld_lit_T1", \hff7f, \hf81f, \hf000, \hf000),
  Wide("pop_T2", \hffff, \he8bd, \h2000, \h0), Wide("pop_T3", \hffff, \hf85d, \hfff, \hb04),
  Wide("push_T2", \hffff, \he92d, \ha000, \h0)>>

Priority1_push_T3_to_smulwb_T1 == <<
  Wide("push_T3", \hffff, \hf84d, \hfff, \hd04),
  Wide("qasx_T1", \hfff0, \hfae0, \hf0f0, \hf010),
  Wide("qsax_T1", \hfff0, \hfae0, \hf0f0, \hf010),
  Wide("rrx_T1", \hffef, \hea4f, \h70f0, \h30), Narrow("sev_T1", \hffff, \hbf40),
  Wide("smmul_T1", \hfff0, \hfb50, \hf0e0, \hf000),
  Wide("smuad_T1", \hfff0, \hfb20, \hf0e0, \hf000),
  Wide("smulbb_T1", \hfff0, \hfb10, \hf0c0, \hf000),
  Wide("smulwb_T1", \hfff0, \hfb30, \hf0e0, \hf000)>>

Priority1_smusd_T1_to_sxtb16_T1 == <<
  Wide("smusd_T1", \hfff0, \hfb40, \hf0e0, \hf000),
  Wide("ssat16_T1", \hfbf0, \hf320, \hf0c0, \h0),
  Wide("strb_T1", \hfff0, \hf800, \hf00, \he00), Wide("strexb_T1", \hfff0, \he8c0, \hf0, \h40),
  Wide("strexh_T1", \hfff0, \he8c0, \hf0, \h50),
  Wide("strht_T1", \hfff0, \hf820, \hf00, \he00),
  Wide("sub_SPimm_T3", \hfbff, \hf2ad, \h8000, \h0), Narrow("svc_T1", \hff00, \hdf00),
  Wide("sxtb16_T1", \hffff, \hfa2f, \hf0c0, \hf080)>>

Priority1_sxtb_T2_to_usat16_T1 == <<
  Wide("sxtb_T2", \hffff, \hfa4f, \hf0c0, \hf080),
  Wide("sxth_T2", \hffff, \hfa0f, \hf0c0, \hf080),
  Wide("teq_imm_T1", \hfbf0, \hf090, \h8f00, \hf00),
  Wide("teq_reg_T1", \hfff0, \hea90, \hf00, \hf00),
  Wide("tst_imm_T1", \hfbf0, \hf010, \h8f00, \hf00),
  Wide("tst_reg_T2", \hfff0, \hea10, \h8f00, \hf00), Narrow("udf_T1", \hff00, \hde00),
  Wide("usad8_T1", \hfff0, \hfb70, \hf0f0, \hf000),
  Wide("usat16_T1", \hfbf0, \hf3a0, \hf0c0, \h0)>>

Priority1_uxtb16_T1_to_vmov_armscl_T1 == <<
  Wide("uxtb16_T1", \hffff, \hfa3f, \hf0c0, \hf080),
  Wide("uxtb_T2", \hffff, \hfa5f, \hf0c0, \hf080),
  Wide("uxth_T2", \hffff, \hfa1f, \hf0c0, \hf080),
  Wide("vabs_T1", \hffbf, \heeb0, \hed0, \hac0),
  Wide("vcvt_dpsp_T1", \hffbf, \heeb7, \hed0, \hac0),
  Wide("vmov_2arm2sp_T1", \hffe0, \hec40, \hfd0, \ha10),
  Wide("vmov_2armdw_T1", \hffe0, \hec40, \hfd0, \hb10),
  Wide("vmov_armscl_T1", \hffd0, \hee00, \hf70, \hb10)>>

Priority1_vmov_reg_T1_to_yield_T1 == <<
  Wide("vmov_reg_T1", \hffbf, \heeb0, \hed0, \ha40),
  Wide("vmov_sclarm_T1", \hffd0, \hee10, \hf70, \hb10),
  Wide("vneg_T1", \hffbf, \heeb1, \hed0, \ha40),
  Wide("vrinta_T1", \hffbc, \hfeb8, \hed0, \ha40),
  Wide("vrintx_T1", \hffbf, \heeb7, \hed0, \ha40),
  Wide("vsqrt_T1", \hffbf, \heeb1, \hed0, \hac0), Narrow("wfe_T1", \hffff, \hbf20),
  Narrow("wfi_T1", \hffff, \hbf30), Narrow("yield_T1", \hffff, \hbf10)>>

Priority2_add_SPi_T3_to_b_T1 == <<
  Wide("add_SPi_T3", \hfbef, \hf10d, \h8000, \h0), Narrow("add_SPr_T1", \hff78, \h4468),
  Wide("add_SPr_T3", \hffef, \heb0d, \h8000, \h0),
  Wide("add_imm_T4", \hfbf0, \hf200, \h8000, \h0),
  Wide("and_imm_T1", \hfbe0, \hf000, \h8000, \h0),
  Wide("and_reg_T2", \hffe0, \hea00, \h8000, \h0),
  Wide("asr_imm_T2", \hffef, \hea4f, \h8030, \h20), Narrow("b_T1", \hf000, \hd000)>>

Priority2_bfi_T1_to_ldrex_T1 == <<
  Wide("bfi_T1", \hfbf0, \hf360, \h8000, \h0), Wide("eor_imm_T1", \hfbe0, \hf080, \h8000, \h0),
  Wide("eor_reg_T2", \hffe0, \hea80, \h8000, \h0), Narrow("it_T1", \hff00, \hbf00),
  Wide("ldc2_lit_T2", \hfe1f, \hfc1f, \h0, \h0), Wide("ldm_T2", \hffd0, \he890, \h2000, \h0),
  Wide("ldr_lit_T2", \hff7f, \hf85f, \h0, \h0), Wide("ldrex_T1", \hfff0, \he850, \hf00, \hf00)>>

Priority2_ldrht_T1_to_mov_imm_T3 == <<
  Wide("ldrht_T1", \hfff0, \hf830, \hf00, \he00),
  Wide("ldrsb_lit_T1", \hff7f, \hf91f, \h0, \h0),
  Wide("ldrsh_imm_T2", \hfff0, \hf930, \h800, \h800), Narrow("lsl_imm_T1", \hf800, \h0),
  Wide("lsl_imm_T2", \hffef, \hea4f, \h8030, \h0),
  Wide("lsr_imm_T2", \hffef, \hea4f, \h8030, \h10), Wide("mla_T1", \hfff0, \hfb00, \hf0, \h0),
  Wide("mov_imm_T3", \hfbf0, \hf240, \h8000, \h0)>>

Priority2_orn_imm_T1_to_smlad_T1 == <<
  Wide("orn_imm_T1", \hfbe0, \hf060, \h8000, \h0),
  Wide("orn_reg_T1", \hffe0, \hea60, \h8000, \h0),
  Wide("orr_imm_T1", \hfbe0, \hf040, \h8000, \h0),
  Wide("pld_reg_T1", \hfff0, \hf810, \hffc0, \hf000),
  Wide("ror_imm_T1", \hffef, \hea4f, \h30, \h30), Wide("smlabb_T1", \hfff0, \hfb10, \hc0, \h0),
  Wide("smlad_T1", \hfff0, \hfb20, \he0, \h0)>>

Priority2_smlawb_T1_to_strb_imm_T3 == <<
  Wide("smlawb_T1", \hfff0, \hfb30, \he0, \h0), Wide("smlsd_T1", \hfff0, \hfb40, \he0, \h0),
  Wide("smmla_T1", \hfff0, \hfb50, \he0, \h0), Wide("ssat_T1", \hfbd0, \hf300, \h8000, \h0),
  Wide("stc2_T2", \hfe10, \hfc00, \h0, \h0), Wide("stmdb_T1", \hffd0, \he900, \ha000, \h0),
  Wide("strb_imm_T3", \hfff0, \hf800, \h800, \h800)>>

Priority2_strex_T1_to_sxtah_T1 == <<
  Wide("strex_T1", \hfff0, \he840, \h0, \h0),
  Wide("strh_imm_T3", \hfff0, \hf820, \h800, \h800),
  Wide("strt_T1", \hfff0, \hf840, \hf00, \he00),
  Wide("sub_SPreg_T1", \hffef, \hebad, \h8000, \h0),
  Wide("sub_imm_T4", \hfbf0, \hf2a0, \h8000, \h0),
  Wide("sxtab16_T1", \hfff0, \hfa20, \hf080, \hf080),
  Wide("sxtab_T1", \hfff0, \hfa40, \hf080, \hf080),
  Wide("sxtah_T1", \hfff0, \hfa00, \hf080, \hf080)>>

Priority2_udf_T2_to_vcmp_T2 == <<
  Wide("udf_T2", \hfff0, \hf7f0, \hf000, \ha000), Wide("usada8_T1", \hfff0, \hfb70, \hf0, \h0),
  Wide("usat_T1", \hfbd0, \hf380, \h8000, \h0),
  Wide("uxtab16_T1", \hfff0, \hfa30, \hf080, \hf080),
  Wide("uxtab_T1", \hfff0, \hfa50, \hf080, \hf080),
  Wide("uxtah_T1", \hfff0, \hfa10, \hf080, \hf080),
  Wide("vcmp_T1", \hffbf, \heeb4, \he50, \ha40), Wide("vcmp_T2", \hffbf, \heeb5, \he50, \ha40)>>

Priority2_vcvt_fltint_T1_to_vpush_T2 == <<
  Wide("vcvt_fltint_T1", \hffbc, \hfebc, \he50, \ha40),
  Wide("vcvta_T1", \hffbc, \hfebc, \he50, \ha40),
  Wide("vmrs_T1", \hfff0, \heef0, \hf10, \ha10), Wide("vmsr_T1", \hfff0, \heee0, \hf10, \ha10),
  Wide("vpop_T1", \hffbf, \hecbd, \hf00, \hb00), Wide("vpop_T2", \hffbf, \hecbd, \hf00, \ha00),
  Wide("vpush_T1", \hffbf, \hed2d, \hf00, \hb00),
  Wide("vpush_T2", \hffbf, \hed2d, \hf00, \ha00)>>

Priority2_vrintz_T1 == <<
  Wide("vrintz_T1", \hffbf, \heeb6, \he50, \ha40)>>

Priority3_add_imm_T3_to_ldrsh_lit_T1 == <<
  Wide("add_imm_T3", \hfbe0, \hf100, \h8000, \h0), Narrow("add_reg_T2", \hff00, \h4400),
  Wide("add_reg_T3", \hffe0, \heb00, \h8000, \h0),
  Wide("ldc2_imm_T2", \hfe10, \hfc10, \h0, \h0),
  Wide("ldr_reg_T2", \hfff0, \hf850, \hfc0, \h0),
  Wide("ldrh_lit_T1", \hff7f, \hf83f, \h0, \h0),
  Wide("ldrsh_lit_T1", \hff7f, \hf93f, \h0, \h0)>>

Priority3_orr_reg_T2_to_tbb_T1 == <<
  Wide("orr_reg_T2", \hffe0, \hea40, \h8000, \h0),
  Wide("pld_imm_T2", \hfff0, \hf810, \hff00, \hfc00),
  Wide("pld_immlit_T2", \hfff0, \hf910, \hff00, \hfc00),
  Wide("sev_T2", \hfff0, \hf3a0, \hd7ff, \h8004),
  Wide("str_imm_T4", \hfff0, \hf840, \h800, \h800),
  Wide("strd_imm_T1", \hfe50, \he840, \h0, \h0),
  Wide("sub_reg_T2", \hffe0, \heba0, \h8000, \h0), Wide("tbb_T1", \hfff0, \he8d0, \he0, \h0)>>

Priority3_vcvtb_T1_to_vstr_T2 == <<
  Wide("vcvtb_T1", \hffbe, \heeb2, \he50, \ha40),
  Wide("vldr_T1", \hff30, \hed10, \hf00, \hb00), Wide("vldr_T2", \hff30, \hed10, \hf00, \ha00),
  Wide("vmaxnm_T1", \hffb0, \hfe80, \he10, \ha00),
  Wide("vmov_armsp_T1", \hffe0, \hee00, \hf10, \ha10),
  Wide("vstr_T1", \hff30, \hed00, \hf00, \hb00), Wide("vstr_T2", \hff30, \hed00, \hf00, \ha00)>>

Priority3_wfe_T2_to_yield_T2 == <<
  Wide("wfe_T2", \hfff0, \hf3a0, \hd7ff, \h8002),
  Wide("wfi_T2", \hfff0, \hf3a0, \hd7ff, \h8003),
  Wide("yield_T2", \hfff0, \hf3a0, \hd7ff, \h8001)>>

Priority4_dbg_T1_to_pld_imm_T1 == <<
  Wide("dbg_T1", \hfff0, \hf3a0, \hd7f0, \h80f0),
  Wide("ldrd_lit_T1", \hfe5f, \he85f, \h0, \h0),
  Wide("ldrh_imm_T3", \hfff0, \hf830, \h800, \h800),
  Wide("ldrsh_imm_T1", \hfff0, \hf9b0, \h0, \h0),
  Wide("ldrt_T1", \hfff0, \hf850, \hf00, \he00), Wide("mcr_T1", \hff10, \hee00, \h10, \h10),
  Wide("mrc_T1", \hff10, \hee10, \h10, \h10),
  Wide("pld_imm_T1", \hfff0, \hf890, \hf000, \hf000)>>

Priority4_pld_immlit_T1_to_vstm_T1 == <<
  Wide("pld_immlit_T1", \hfff0, \hf990, \hf000, \hf000),
  Wide("vcvt_fltfpt_T1", \hffba, \heeba, \he50, \ha40),
  Wide("vldm_T1", \hfe10, \hec10, \hf00, \hb00), Wide("vldm_T2", \hfe10, \hec10, \hf00, \ha00),
  Wide("vsel_T1", \hff80, \hfe00, \he50, \ha00), Wide("vstm_T1", \hfe10, \hec00, \hf00, \hb00)>>

Priority4_vstm_T2 == <<
  Wide("vstm_T2", \hfe10, \hec00, \hf00, \ha00)>>

Priority5_cdp2_T2_to_ldrb_reg_T2 == <<
  Wide("cdp2_T2", \hff00, \hfe00, \h10, \h0), Wide("clrex_T1", \hfff0, \hf3b0, \hd0f0, \h8020),
  Wide("dmb_T1", \hfff0, \hf3b0, \hd0f0, \h8050),
  Wide("dsb_T1", \hfff0, \hf3b0, \hd0f0, \h8040),
  Wide("isb_T1", \hfff0, \hf3b0, \hd0f0, \h8060), Wide("ldc_lit_T1", \hfe1f, \hec1f, \h0, \h0),
  Wide("ldr_imm_T4", \hfff0, \hf850, \h800, \h800),
  Wide("ldrb_reg_T2", \hfff0, \hf810, \hfc0, \h0)>>

Priority5_ldrd_imm_T1_to_vmul_T1 == <<
  Wide("ldrd_imm_T1", \hfe50, \he850, \h0, \h0), Wide("ldrh_imm_T2", \hfff0, \hf8b0, \h0, \h0),
  Wide("ldrsb_reg_T2", \hfff0, \hf910, \hfc0, \h0),
  Wide("vadd_T1", \hffb0, \hee30, \he50, \ha00), Wide("vdiv_T1", \hffb0, \hee80, \he50, \ha00),
  Wide("vmov_imm_T1", \hffb0, \heeb0, \he50, \ha00),
  Wide("vmul_T1", \hffb0, \hee20, \he50, \ha00)>>

Priority5_vnmla_T2_to_vsub_T1 == <<
  Wide("vnmla_T2", \hffb0, \hee20, \he50, \ha40),
  Wide("vsub_T1", \hffb0, \hee30, \he50, \ha40)>>

Priority6_ldr_imm_T3_to_vfma_T1 == <<
  Wide("ldr_imm_T3", \hfff0, \hf8d0, \h0, \h0), Wide("ldrbt_T1", \hfff0, \hf810, \hf00, \he00),
  Wide("ldrsbt_T1", \hfff0, \hf910, \hf00, \he00), Wide("mcrr_T1", \hfff0, \hec40, \h0, \h0),
  Wide("mrrc_T1", \hfff0, \hec50, \h0, \h0), Wide("mrs_T1", \hffe0, \hf3e0, \hd000, \h8000),
  Wide("msr_T1", \hffe0, \hf380, \hd000, \h8000),
  Wide("vfma_T1", \hffb0, \heea0, \he10, \ha00)>>

Priority6_vfnma_T1_to_vnmla_T1 == <<
  Wide("vfnma_T1", \hffb0, \hee90, \he10, \ha00),
  Wide("vmla_T1", \hffb0, \hee00, \he10, \ha00),
  Wide("vnmla_T1", \hffb0, \hee10, \he10, \ha00)>>

Priority7 == <<
  Wide("cdp_T1", \hff00, \hee00, \h10, \h0), Wide("ldc_imm_T1", \hfe10, \hec10, \h0, \h0),
  Wide("ldrb_imm_T3", \hfff0, \hf810, \h800, \h800),
  Wide("ldrsb_imm_T2", \hfff0, \hf910, \h800, \h800), Wide("stc_T1", \hfe10, \hec00, \h0, \h0),
  Wide("sub_SPimm_T2", \hfbef, \hf1ad, \h8000, \h0)>>

Priority8 == <<
  Wide("cmp_imm_T2", \hfbf0, \hf1b0, \hf00, \hf00),
  Wide("ldrb_lit_T1", \hff7f, \hf81f, \h0, \h0),
  Wide("ldrsb_imm_T1", \hfff0, \hf990, \h0, \h0)>>

Priority9 == <<
  Wide("ldrb_imm_T2", \hfff0, \hf890, \h0, \h0),
  Wide("sub_imm_T3", \hfbe0, \hf1a0, \h8000, \h0)>>

Priority10 == <<
  Wide("b_T3", \hf800, \hf000, \hd000, \h8000), Wide("b_T4", \hf800, \hf000, \hd000, \h9000),
  Wide("bl_T1", \hf800, \hf000, \hd000, \hd000)>>

------------------------------------------------------------------------------
Priority0 ==
  Priority0_adc_imm_T1_to_adr_T1
  \o Priority0_and_reg_T1_to_bkpt_T1
  \o Priority0_blx_reg_T1_to_eor_reg_T1
  \o Priority0_ldm_T1_to_ldrh_imm_T1
  \o Priority0_ldrh_reg_T1_to_mcr2_T2
  \o Priority0_mls_T1_to_pkhbt_T1
  \o Priority0_pop_T1_to_qsub8_T1
  \o Priority0_qsub_T1_to_ror_reg_T2
  \o Priority0_rsb_imm_T1_to_sbc_reg_T1
  \o Priority0_sbc_reg_T2_to_shsax_T1
  \o Priority0_shsub16_T1_to_smull_T1
  \o Priority0_ssax_T1_to_str_reg_T1
  \o Priority0_str_reg_T2_to_strh_reg_T2
  \o Priority0_sub_SPimm_T1_to_uasx_T1
  \o Priority0_ubfx_T1_to_umaal_T1
  \o Priority0_umlal_T1_to_usax_T1
  \o Priority0_usub16_T1_to_uxth_T1

Priority1 ==
  Priority1_add_SPi_T4_to_ldrexh_T1
  \o Priority1_ldrh_reg_T2_to_mrrc2_T2
  \o Priority1_mul_T2_to_push_T2
  \o Priority1_push_T3_to_smulwb_T1
  \o Priority1_smusd_T1_to_sxtb16_T1
  \o Priority1_sxtb_T2_to_usat16_T1
  \o Priority1_uxtb16_T1_to_vmov_armscl_T1
  \o Priority1_vmov_reg_T1_to_yield_T1

Priority2 ==
  Priority2_add_SPi_T3_to_b_T1
  \o Priority2_bfi_T1_to_ldrex_T1
  \o Priority2_ldrht_T1_to_mov_imm_T3
  \o Priority2_orn_imm_T1_to_smlad_T1
  \o Priority2_smlawb_T1_to_strb_imm_T3
  \o Priority2_strex_T1_to_sxtah_T1
  \o Priority2_udf_T2_to_vcmp_T2
  \o Priority2_vcvt_fltint_T1_to_vpush_T2
  \o Priority2_vrintz_T1

Priority3 ==
  Priority3_add_imm_T3_to_ldrsh_lit_T1
  \o Priority3_orr_reg_T2_to_tbb_T1
  \o Priority3_vcvtb_T1_to_vstr_T2
  \o Priority3_wfe_T2_to_yield_T2

Priority4 ==
  Priority4_dbg_T1_to_pld_imm_T1
  \o Priority4_pld_immlit_T1_to_vstm_T1
  \o Priority4_vstm_T2

Priority5 ==
  Priority5_cdp2_T2_to_ldrb_reg_T2
  \o Priority5_ldrd_imm_T1_to_vmul_T1
  \o Priority5_vnmla_T2_to_vsub_T1

Priority6 ==
  Priority6_ldr_imm_T3_to_vfma_T1
  \o Priority6_vfnma_T1_to_vnmla_T1

(* InsnSet sorts by (priority, name). *)
Chain ==
  Priority0 \o Priority1 \o Priority2 \o Priority3 \o Priority4 \o Priority5
  \o Priority6 \o Priority7 \o Priority8 \o Priority9 \o Priority10
==============================================================================
