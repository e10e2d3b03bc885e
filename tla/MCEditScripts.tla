---------------------------- MODULE MCEditScripts ----------------------------
(* The trees the scripts were written for, and the scripts run on each.     *)
EXTENDS EditRules

Merge  == << "phase1_top_edit", "phase1_top_edit2", "phase2_top_edit", "phase2_top_edit2",
             "phase2_32x_edit", "phase2_asic_edit", "phase2_vdp_edit" >>
Beats  == << "phase2_telemetry", "phase3_audio_probe", "phase18_prgram_dtack", "phase19_sector_rate",
             "phase20_dtack_ratio", "phase24_sh2_pc", "hand_tel_md", "phase27_comm_regs",
             "phase29_md_addr", "phase30_trap_trail", "phase31_cd_handshake",
             "phase32_subcpu_halt", "phase33_a12_writes", "phase34_cmd_int" >>

Probes == << "phase41_jump_trail", "phase45_memset_caller" >>

MCFamilies == {
  [applied |-> << >>,
   scripts |-> {"phase1_top_edit", "phase1_top_edit2", "phase2_top_edit", "phase2_top_edit2",
                "phase11_as_select", "phase13_cram_dots"}],
  [applied |-> << >>,
   scripts |-> {"phase2_32x_edit", "phase2_asic_edit", "phase2_vdp_edit", "phase10_ys_gate",
                "phase12_disp_line", "phase17_cart_latch"}],
  [applied |-> Merge, scripts |-> (ToSet(Beats) \ {"phase20_dtack_ratio"}) \cup {"phase2_sh2_probe"}],
  [applied |-> Merge \o << "phase2_telemetry", "phase3_audio_probe" >>,
   scripts |-> {"phase18_prgram_dtack", "phase19_sector_rate", "phase20_dtack_ratio"}],
  [applied |-> Merge \o Beats,
   scripts |-> ToSet(Probes) \cup {
                "phase46_memset_caller_fix", "phase47_memset_caller_snapshot",
                "phase49_fb_select_probe", "phase51_fs_at_access", "phase53_fm_probe",
                "phase55_fbwrite_probe", "phase64_fbwrite_extent"}],
  [applied |-> Merge \o Beats \o Probes,
   scripts |-> {"phase57_post_prg_writes", "phase60_cdcport_latency", "phase61_all_sub_latency",
                "phase62_main_ga_latency", "phase63_main_cart_latency", "phase65_hsync_relock"}],
  [applied |-> Merge \o Beats,
   scripts |-> {"phase21_prg_priority", "phase42_sdram_per_port_dout", "phase54_prg_cache",
                "phase58_free_dec_frame", "phase52_fifo_carries_fb"}],
  [applied |-> Merge,
   scripts |-> {"phase28_pwm_drain", "phase35_sh_rom_latch", "phase36_cdd_idle_poll",
                "phase43_sh_rom_handshake", "phase44_cart_strobe_leak"}] }
=============================================================================
