------------------------------ MODULE EditPhases ------------------------------
(***************************************************************************)
(* The edit scripts of tools/ as data.  Each phaseN_*.py takes the source  *)
(* tree of the core through one step: for every file it names it reads the *)
(* text, replaces a list of anchors one after the other in memory, and     *)
(* writes the file back.  A file is the bag of the anchors it holds, its   *)
(* marks; text no script looks for is not represented.  An edit consumes   *)
(* its anchor and leaves marks: the anchor is among them when the          *)
(* replacement still contains the old text.  Edits of one file whose       *)
(* anchors no other script writes or destroys are one edit here, named for *)
(* what the script changes: they are found, or missing, together.          *)
(***************************************************************************)
EXTENDS Naturals, Sequences

Text(x)     == <<"text", x>>             \* a passage of the file
Port(x)     == <<"port", x>>             \* the file's module declares port x
Map(x)      == <<"map", x>>              \* the file connects x of an instance
EndPort(x)  == <<"last", x>>             \* ... x closes its port list
EndMap(x)   == <<"last map", x>>         \* ... x closes the connection list
Wire(x, v)  == <<"wire", x, v>>          \* wire x of the top is driven from v
Pend(n, w)  == <<"pend", n, w>>          \* tel_pend is w bits, comment says n
Load(n)     == <<"load", n>>             \* the timer loads tel_pend with n
Arm(k, b)   == <<"arm", k, b>>           \* tel_pend = k writes beat b
Beat(b, x)  == <<"beat", b, x>>          \* beat b carries x

Swap(at, new) == [at |-> at, new |-> new]
Keep(at, add) == Swap(at, {at} \cup add)
Part(f, edits)  == [file |-> f, edits |-> edits]
Lax(parts)    == [strict |-> FALSE, parts |-> parts]   \* assert old in s
Strict(parts) == [strict |-> TRUE, parts |-> parts]    \* and s.count(old) == 1

(* A port, a connection or a driven wire after the last one.               *)
ExtendPorts(from, to) == Swap(EndPort(from), {Port(to), EndPort(to)})
Connect(from, to)     == Swap(EndMap(from), {Map(to), EndMap(to)})

(* One more beat, the n-th, in s32x_ddr.sv: a port for it, the load value, *)
(* every arm one higher, and a last arm for the beat.                      *)
AddBeat(n, from, to, pend, pend2) ==
  << ExtendPorts(from, to), Swap(pend, {pend2}), Swap(Load(n - 1), {Load(n)}) >>
  \o [i \in 1..(n - 1) |->
        Swap(Arm(n - i, i - 1),
             {Arm(n + 1 - i, i - 1)} \cup
                (IF i = n - 1 THEN {Arm(1, n - 1), Beat(n - 1, to)} ELSE {}))]

-----------------------------------------------------------------------------
(* The merge of the 32X into the Mega CD core.                             *)

phase1_top_edit == Lax(<<
  Part("MegaCD.sv", <<
    Swap(Text("srg320's top"),
         {Text("gen MEM_RDY"), Text("gen strobes"), Text("gen BORDER"),
          Text("BIOS header region"), Text("sdram addr3")}) >>) >>)

phase1_top_edit2 == Lax(<<
  Part("MegaCD.sv", <<
    Swap(Text("gen MEM_RDY"), {}),
    Swap(Text("OSD rows and rom_mask"), {Text("download decode"), Text("cart slot")}),
    Swap(Text("BIOS header region"), {}),
    Swap(Text("sdram addr3"), {}) >>) >>)

phase2_top_edit == Lax(<<
  Part("MegaCD.sv", <<
    Swap(Text("download decode"), {}),
    Swap(Text("gen strobes"), {}),
    Swap(Text("top without the 32X"),
         {EndMap("lb_q"), Map("DBG_CA"), EndMap("DBG_CA"), Text("S32X wires"),
          Text("CART_MEM wires"), Text("SDRAM cart port"), Text("SDRAM PRG port"),
          Text("SDRAM last port")}),
    Swap(Text("cart slot"), {}) >>) >>)

phase2_top_edit2 == Lax(<<
  Part("MegaCD.sv", << Swap(Text("CART_MEM wires"), {}), Swap(Text("SDRAM cart port"), {}) >>) >>)

phase2_32x_edit == Lax(<<
  Part("32X.sv", << Swap(Text("S32X with frame buffers"), {Port("FBD"), Map("FBD"), Map("CART_EXT")}) >>),
  Part("IF.sv", << Swap(Text("vector overlay"), {Port("CART_EXT")}) >>) >>)

phase2_asic_edit == Lax(<< Part("ASIC.vhd", << Swap(Text("PRG-RAM acknowledges"), {}) >>) >>)

phase2_vdp_edit == Lax(<<
  Part("VDP.sv", << Swap(Text("asynchronous frame buffers"), {Port("FBD"), Text("FBD_FB = ~FS")}) >>) >>)

phase10_ys_gate   == Lax(<< Part("VDP.sv", << Swap(Text("YS_N"), {}) >>) >>)
phase12_disp_line == Lax(<< Part("vdp.sv", << Swap(Text("V_ACTIVE"), {}) >>) >>)
phase17_cart_latch == Lax(<< Part("IF.sv", << Swap(Text("cartridge read back"), {}) >>) >>)

phase11_as_select == Lax(<<
  Part("MegaCD.sv", << Keep(Text("row SH2 Clock"), {Text("row MCD /AS, Bus(hw)")}),
                       Swap(Text("EXT_AS_N"), {}) >>) >>)

phase13_cram_dots == Lax(<<
  Part("vdp.sv", << Keep(Text("BORDER_EN"), {Port("CRAM_DOTS")}), Swap(Text("PIX_COL_PIPE"), {}) >>),
  Part("gen.sv", << Keep(Text("BORDER connection"), {Map("CRAM_DOTS")}),
                    Keep(Text("BORDER port"), {Port("CRAM_DOTS")}) >>),
  Part("MegaCD.sv", << Keep(Text("gen BORDER"), {Map("CRAM_DOTS")}),
                       Keep(Text("row Border"), {Text("row CRAM Dots")}) >>) >>)

-----------------------------------------------------------------------------
(* The telemetry: a beat written to DDR3 for every group of counters.  The *)
(* scripts from the second on all end with s32x_ddr.sv.                    *)

phase2_telemetry == Lax(<<
  Part("s32x_ddr.sv", <<
    Swap(Text("S_IDLE"), {Pend(1, 1), Load(1), Arm(1, 0), Beat(0, "counters")}) >>) >>)

phase3_audio_probe == Lax(<<
  Part("MegaCD.sv", << Keep(Text("audio_fix"), {Wire("tel_audio", "peaks")}),
                       Connect("lb_q", "tel_audio") >>),
  Part("s32x_ddr.sv", AddBeat(2, "lb_q", "tel_audio", Pend(1, 1), Pend(2, 2))),
  Part("ba.sv", << Swap(Text("MBUS_FDC_READ"), {}) >>) >>)

(* The other use of the first beats: SH-2 program counters and 32X state.  *)
phase2_sh2_probe == Lax(<<
  Part("SH_core.sv", << Swap(EndPort("SLEEP"), {Port("DBG_PC"), EndPort("DBG_PC")}),
                        Keep(Text("SLEEP = SLP"), {}) >>),
  Part("SH7604.sv", << Swap(EndPort("MD"), {Port("DBG_PC"), EndPort("DBG_PC")}),
                       Swap(EndMap("SLEEP"), {Map("DBG_PC")}) >>),
  Part("32X.sv", << Swap(EndPort("DBG_CA"), {Text("DBG_CA,"), Port("DBG_MSH_PC"), Port("DBG_STATE"), EndPort("DBG_STATE")}),
                    Swap(EndMap("master MD"), {Map("DBG_PC")}), Swap(EndMap("slave MD"), {Map("DBG_PC")}),
                    Keep(Map("CART_EXT"), {Map("DBG_STATE")}) >>),
  Part("IF.sv", << Keep(Port("CART_EXT"), {Port("DBG_STATE")}) >>),
  Part("MegaCD.sv", << Swap(Text("row SH2 Clock"), {}), Swap(Text("SH2_DIV2"), {}),
                       Swap(EndMap("DBG_CA"), {Map("DBG_MSH_PC"), Map("DBG_STATE")}),
                       Keep(Text("S32X wires"), {Wire("tel_msh_pc", "S32X_MSH_PC"), Wire("tel_state", "S32X_DBG_STATE")}),
                       Swap(EndMap("lb_q"), {Map("tel_msh_pc"), Map("tel_state"), EndMap("tel_state")}) >>),
  Part("s32x_ddr.sv", << Swap(EndPort("lb_q"), {Port("tel_msh_pc"), Port("tel_state"), EndPort("tel_state")}),
                         Swap(Pend(1, 1), {Pend(3, 2)}), Swap(Load(1), {Load(3)}),
                         Swap(Arm(1, 0), {Arm(3, 0), Arm(2, 1), Arm(1, 2),
                                          Beat(1, "tel_msh_pc"), Beat(2, "tel_state")}) >>) >>)

phase18_prgram_dtack == Strict(<<
  Part("ASIC.vhd", << Keep(Text("PRG_RFS"), {Port("DBG_EARLY_DTACK")}),
                      Swap(Text("PRS_IDLE"), {Text("writes posted when DBG_EARLY_DTACK")}),
                      Swap(Text("PRS_WAIT"), {}) >>),
  Part("MCD.vhd", << Keep(Text("PRG_RDY port"), {Port("DBG_EARLY_DTACK")}),
                     Keep(Text("PRG_RDY connection"), {Map("DBG_EARLY_DTACK")}) >>),
  Part("MegaCD.sv", << Keep(Text("row MCD /AS"), {Text("row MCD PRG DTACK")}),
                       Keep(Text("PRG_RDY"), {Map("DBG_EARLY_DTACK"), Map("DBG_S68K_AS_N")}),
                       Keep(Wire("tel_audio", "peaks"),
                            {Text("DTACK_DEADLINE"), Wire("tel_mcdbus", "min max slow n")}),
                       Connect("tel_audio", "tel_mcdbus") >>),
  Part("s32x_ddr.sv", << Swap(Text("TELEMETRY = 0"), {}) >>
       \o AddBeat(3, "tel_audio", "tel_mcdbus", Pend(2, 2), Pend(3, 2))) >>)

phase19_sector_rate == Strict(<<
  Part("CDC.vhd", << Swap(Text("CDC last port"), {Port("DBG_SECTOR_END")}), Keep(Text("RAM_WE"), {}) >>),
  Part("MCD.vhd", << Keep(Port("DBG_EARLY_DTACK"), {Port("DBG_SECTOR_END")}),
                     Swap(Text("CDC instance"), {Map("DBG_SECTOR_END")}) >>),
  Part("MegaCD.sv", << Keep(Map("DBG_S68K_AS_N"), {Map("DBG_SECTOR_END")}),
                       Keep(Wire("tel_mcdbus", "min max slow n"), {Wire("tel_sector", "rates")}),
                       Connect("tel_mcdbus", "tel_sector") >>),
  Part("s32x_ddr.sv", AddBeat(4, "tel_mcdbus", "tel_sector", Pend(3, 2), Pend(4, 3))) >>)

phase20_dtack_ratio == Strict(<<
  Part("MegaCD.sv", << Keep(Text("row MCD PRG DTACK"), {Text("row PRG Lat Thresh")}),
                       Swap(Text("DTACK_DEADLINE"), {}),
                       Swap(Wire("tel_mcdbus", "min max slow n"), {Wire("tel_mcdbus", "slow n")}) >>) >>)

phase24_sh2_pc == Strict(<<
  Part("SH_core.sv", << Swap(EndPort("SLEEP"), {Port("DBG_PC")}), Keep(Text("Debug"), {}) >>),
  Part("SH7604.sv", << Keep(Text("DBG_REGN"), {Port("DBG_PC")}), Swap(EndMap("SLEEP"), {Map("DBG_PC")}) >>),
  Part("32X.sv", << Swap(EndPort("DBG_CA"), {Text("DBG_CA,"), Port("DBG_MSH_PC"), EndPort("DBG_SSH_PC")}),
                    Swap(EndMap("master MD"), {Map("DBG_PC")}), Swap(EndMap("slave MD"), {Map("DBG_PC")}) >>),
  Part("MegaCD.sv", << Keep(Map("DBG_SECTOR_END"), {}),
                       Keep(Wire("tel_sector", "rates"), {Wire("tel_sh2pc", "PCs")}),
                       Connect("tel_sector", "tel_sh2pc"),
                       Keep(Text("SH2_DIV2"), {Map("DBG_MSH_PC")}) >>),
  Part("s32x_ddr.sv", AddBeat(5, "tel_sector", "tel_sh2pc", Pend(4, 3), Pend(5, 3))) >>)

(* Not a script: the 68000's beat was added by hand between phases 24 and  *)
(* 27, and the comment beside tel_pend was left as phase 24 wrote it.      *)
hand_tel_md == Strict(<<
  Part("MegaCD.sv", << Keep(Wire("tel_sh2pc", "PCs"), {Wire("tel_md", "cycles")}), Connect("tel_sh2pc", "tel_md") >>),
  Part("s32x_ddr.sv", AddBeat(6, "tel_sh2pc", "tel_md", Pend(5, 3), Pend(5, 3))) >>)

phase27_comm_regs == Strict(<<
  Part("IF.sv", << ExtendPorts("SH_CP_WRITE", "DBG_COMM"), Keep(Text("CASEL_N"), {Text("assign DBG_COMM")}) >>),
  Part("32X.sv", << ExtendPorts("DBG_SSH_PC", "DBG_COMM"), Keep(Map("CART_EXT"), {Map("DBG_COMM")}) >>),
  Part("MegaCD.sv", << Keep(Map("DBG_MSH_PC"), {Map("DBG_COMM")}),
                       Keep(Wire("tel_md", "cycles"), {Wire("tel_comm", "S32X_COMM")}),
                       Connect("tel_md", "tel_comm") >>),
  Part("s32x_ddr.sv", AddBeat(7, "tel_md", "tel_comm", Pend(5, 3), Pend(7, 3))) >>)

phase29_md_addr == Strict(<<
  Part("MegaCD.sv", << Keep(Wire("tel_comm", "S32X_COMM"), {Wire("tel_mdaddr", "COMM0 traffic")}),
                       Connect("tel_comm", "tel_mdaddr") >>),
  Part("s32x_ddr.sv", AddBeat(8, "tel_comm", "tel_mdaddr", Pend(7, 3), Pend(8, 4))) >>)

phase30_trap_trail == Strict(<<
  Part("MegaCD.sv", << Keep(Wire("tel_mdaddr", "COMM0 traffic"), {Wire("tel_trap", "trap_pc")}),
                       Connect("tel_mdaddr", "tel_trap") >>),
  Part("s32x_ddr.sv", AddBeat(9, "tel_mdaddr", "tel_trap", Pend(8, 4), Pend(9, 4))) >>)

phase31_cd_handshake == Strict(<<
  Part("ASIC.vhd", << Keep(Port("DBG_EARLY_DTACK"), {Port("DBG_CFS")}), Keep(Text("EXT_DTACK_N"), {Text("DBG_CFM <= CFM")}) >>),
  Part("MCD.vhd", << Keep(Port("DBG_SECTOR_END"), {Port("DBG_CFM")}), Keep(Map("DBG_EARLY_DTACK"), {Map("DBG_CFS")}) >>),
  Part("MegaCD.sv", << Keep(Map("DBG_SECTOR_END"), {Map("DBG_CFM")}),
                       Keep(Wire("tel_trap", "trap_pc"), {Wire("tel_cd", "CFM CFS")}),
                       Connect("tel_trap", "tel_cd") >>),
  Part("s32x_ddr.sv", AddBeat(10, "tel_trap", "tel_cd", Pend(9, 4), Pend(10, 4))) >>)

phase32_subcpu_halt == Strict(<<
  Part("ASIC.vhd", << Keep(Port("DBG_CFS"), {Port("DBG_SRES")}), Keep(Text("DBG_CFM <= CFM"), {Text("DBG_SRES <= SRES")}) >>),
  Part("MCD.vhd", << Keep(Port("DBG_CFM"), {Port("DBG_SRES")}), Keep(Map("DBG_CFS"), {Map("DBG_SRES")}) >>),
  Part("MegaCD.sv", << Keep(Map("DBG_CFM"), {Map("DBG_SRES")}),
                       Keep(Wire("tel_cd", "CFM CFS"), {Wire("tel_sub", "halt")}),
                       Connect("tel_cd", "tel_sub") >>),
  Part("s32x_ddr.sv", AddBeat(11, "tel_cd", "tel_sub", Pend(10, 4), Pend(11, 4))) >>)

phase33_a12_writes == Strict(<<
  Part("MegaCD.sv", << Keep(Wire("tel_sub", "halt"), {Wire("tel_a12", "writes")}), Connect("tel_sub", "tel_a12") >>),
  Part("s32x_ddr.sv", AddBeat(12, "tel_sub", "tel_a12", Pend(11, 4), Pend(12, 4))) >>)

phase34_cmd_int == Strict(<<
  Part("IF.sv", << ExtendPorts("DBG_COMM", "DBG_INT"), Keep(Text("assign DBG_COMM"), {Text("assign DBG_INT")}) >>),
  Part("32X.sv", << ExtendPorts("DBG_COMM", "DBG_INT"), Keep(Map("DBG_COMM"), {Map("DBG_INT")}) >>),
  Part("MegaCD.sv", << Keep(Map("DBG_COMM"), {Map("DBG_INT")}),
                       Keep(Wire("tel_a12", "writes"), {Wire("tel_int", "INTM")}),
                       Connect("tel_a12", "tel_int") >>),
  Part("s32x_ddr.sv", AddBeat(13, "tel_a12", "tel_int", Pend(12, 4), Pend(13, 5))) >>)

-----------------------------------------------------------------------------
(* Fixes of the core itself.                                               *)

phase21_prg_priority == Strict(<<
  Part("MegaCD.sv", << Keep(Text("row PRG Lat Thresh by hand"), {Text("row MCD PRG Priority")}),
                       Swap(Text("SDRAM last port"), {Map("prg_first")}) >>),
  Part("sdram.sv", << Swap(Text("sdram last port"), {Port("prg_first")}) >>) >>)

phase28_pwm_drain  == Strict(<< Part("IF.sv", << Swap(Text("PWM FIFO"), {}) >>) >>)
phase35_sh_rom_latch == Strict(<< Part("IF.sv", << Swap(Text("SH ROM latch"), {}) >>) >>)
phase36_cdd_idle_poll == Strict(<< Part("ASIC.vhd", << Swap(Text("CDD poll"), {}) >>) >>)
phase42_sdram_per_port_dout == Strict(<< Part("sdram.sv", << Swap(Text("dout registers"), {}) >>) >>)
phase43_sh_rom_handshake == Strict(<< Part("IF.sv", << Swap(Text("RS_SH_WAIT"), {}) >>) >>)
phase44_cart_strobe_leak == Strict(<< Part("IF.sv", << Swap(Text("CCE0_N"), {}) >>) >>)
phase58_free_dec_frame == Strict(<< Part("CDC.vhd", << Swap(Text("DEC_FRAME"), {}) >>) >>)

phase52_fifo_carries_fb == Strict(<<
  Part("32X_mem.sv", << Swap(Text("write FIFO width"), {}) >>),
  Part("VDP.sv", << Swap(Text("write FIFO entries"), {}), Swap(Text("FBD_FB = ~FS"), {}) >>) >>)

phase54_prg_cache == Strict(<<
  Part("MegaCD.qsf", << Keep(Text("rtl/sdram.sv"), {Text("rtl/prg_cache.sv")}) >>),
  Part("MegaCD.sv", << Swap(Text("PRG busy and data"), {Text("prg_cache")}), Swap(Text("SDRAM PRG port"), {}) >>) >>)

phase57_post_prg_writes == Strict(<<
  Part("ASIC.vhd", << Keep(Port("DBG_EARLY_DTACK"), {Port("PRG_POST_WR")}),
                      Swap(Text("writes posted when DBG_EARLY_DTACK"), {}), Swap(Text("PRS_WRITE"), {}) >>),
  Part("MCD.vhd", << Keep(Port("DBG_EARLY_DTACK"), {Port("PRG_POST_WR")}),
                     Keep(Map("DBG_EARLY_DTACK"), {Map("PRG_POST_WR")}) >>),
  Part("MegaCD.sv", << Keep(Text("DBG_EARLY_DTACK ungated"), {Map("PRG_POST_WR")}),
                       Keep(Text("row PRG cache hits"), {Text("row MCD PRG posted writes")}) >>) >>)

-----------------------------------------------------------------------------
(* Probes: each takes a beat that is there and gives it another source.    *)

phase41_jump_trail == Strict(<<
  Part("IF.sv", << Swap(Text("assign DBG_COMM"), {}) >>),
  Part("MegaCD.sv", << Swap(Wire("tel_trap", "trap_pc"), {Wire("tel_trap", "jump")}),
                       Swap(Wire("tel_int", "INTM"), {Wire("tel_int", "pc_ctx")}) >>) >>)

phase45_memset_caller == Strict(<<
  Part("MegaCD.sv", << Swap(Wire("tel_trap", "jump"),
                            {Wire("tel_trap", "ms_from"), Text("ms_in"), Text("ms_cnt"), Text("ms trail")}),
                       Swap(Wire("tel_int", "pc_ctx"), {Wire("tel_int", "ms_from3 0")}) >>) >>)

phase46_memset_caller_fix == Strict(<<
  Part("MegaCD.sv", << Swap(Text("ms_in"), {}), Swap(Text("ms_cnt"), {Text("ms_entry")}) >>) >>)

phase47_memset_caller_snapshot == Strict(<<
  Part("MegaCD.sv", << Swap(Text("ms trail"), {}), Swap(Text("ms_entry"), {}),
                       Swap(Wire("tel_int", "ms_from3 0"), {Wire("tel_int", "ms_from3 ms_from4")}) >>) >>)

phase49_fb_select_probe == Strict(<<
  Part("VDP.sv", << Keep(Port("FBD"), {Port("DBG_FB")}), Keep(Text("FBD_FB = ~FS"), {Text("DBG_FB of FS")}) >>),
  Part("32X.sv", << Keep(Port("FBD"), {Port("DBG_FB")}), Keep(Map("FBD"), {Map("DBG_FB")}) >>),
  Part("MegaCD.sv", << Keep(Text("S32X wires"), {Map("DBG_FB")}),
                       Swap(Wire("tel_int", "ms_from3 ms_from4"), {Wire("tel_int", "ms_from3 DBG_FB")}) >>) >>)

phase51_fs_at_access == Strict(<< Part("VDP.sv", << Swap(Text("DBG_FB of FS"), {Text("DBG_FB at access")}) >>) >>)
phase55_fbwrite_probe == Strict(<<
  Part("VDP.sv", << Swap(Text("DBG_FB at access"), {Text("DBG_FF"), Text("DBG_FB of DBG_FF")}) >>) >>)

(* VDP.sv twice: the declarations are written before the assign is tried.  *)
phase64_fbwrite_extent == Strict(<<
  Part("VDP.sv", << Keep(Text("DBG_FF"), {Text("DBG_WPF")}) >>),
  Part("VDP.sv", << Swap(Text("DBG_FB of DBG_FF"), {Text("DBG_FB of DBG_WPF")}) >>) >>)

phase53_fm_probe == Strict(<<
  Part("IF.sv", << Swap(Text("FM"), {}), Swap(Text("assign DBG_INT"), {Text("DBG_INT of FM")}) >>),
  Part("MegaCD.sv", << Swap(Wire("tel_int", "ms_from3 DBG_FB"), {Wire("tel_int", "FM DBG_FB")}) >>) >>)

(* The latency probes and the relock probe all want the beat of tel_trap.  *)
TrapProbe(from) == Swap(Wire("tel_trap", "ms_from"), {Wire("tel_trap", from)})
phase60_cdcport_latency == Strict(<<
  Part("MegaCD.sv", << Keep(Wire("tel_mcdbus", "slow n"), {Text("cdc_lat")}), TrapProbe("CDC ports") >>) >>)
phase61_all_sub_latency == Strict(<<
  Part("MegaCD.sv", << Keep(Wire("tel_mcdbus", "slow n"), {Text("a_lat")}), TrapProbe("all accesses"),
                       Swap(Wire("tel_a12", "writes"), {Wire("tel_a12", "gate array")}) >>) >>)
phase62_main_ga_latency == Strict(<<
  Part("MegaCD.sv", << Keep(Wire("tel_mcdbus", "slow n"), {Text("m_lat")}), TrapProbe("main gate array") >>) >>)
phase63_main_cart_latency == Strict(<<
  Part("MegaCD.sv", << Keep(Wire("tel_mcdbus", "slow n"), {Text("c_lat")}), TrapProbe("main cartridge") >>) >>)

phase65_hsync_relock == Strict(<<
  Part("VDP.sv", << Swap(Text("H_CNT lock"), {Port("DBG_SYNC")}) >>),
  Part("32X.sv", << Keep(Text("DBG_CA,"), {Port("DBG_SYNC")}), Swap(Text("YSO_N"), {Map("DBG_SYNC")}) >>),
  Part("MegaCD.sv", << Keep(Text("S32X wires"), {Wire("S32X_DBG_SYNC", "32X")}), Keep(Map("DBG_CA"), {Map("DBG_SYNC")}),
                       TrapProbe("S32X_DBG_SYNC"), Keep(Text("row MCD PRG posted writes"), {Text("row 32X H-lock")}) >>) >>)

Phases == [
  phase1_top_edit |-> phase1_top_edit, phase1_top_edit2 |-> phase1_top_edit2,
  phase2_top_edit |-> phase2_top_edit, phase2_top_edit2 |-> phase2_top_edit2,
  phase2_32x_edit |-> phase2_32x_edit, phase2_asic_edit |-> phase2_asic_edit,
  phase2_vdp_edit |-> phase2_vdp_edit, phase10_ys_gate |-> phase10_ys_gate,
  phase12_disp_line |-> phase12_disp_line, phase17_cart_latch |-> phase17_cart_latch,
  phase11_as_select |-> phase11_as_select, phase13_cram_dots |-> phase13_cram_dots,
  phase2_telemetry |-> phase2_telemetry, phase3_audio_probe |-> phase3_audio_probe,
  phase2_sh2_probe |-> phase2_sh2_probe, phase18_prgram_dtack |-> phase18_prgram_dtack,
  phase19_sector_rate |-> phase19_sector_rate, phase20_dtack_ratio |-> phase20_dtack_ratio,
  phase24_sh2_pc |-> phase24_sh2_pc, hand_tel_md |-> hand_tel_md,
  phase27_comm_regs |-> phase27_comm_regs, phase29_md_addr |-> phase29_md_addr,
  phase30_trap_trail |-> phase30_trap_trail, phase31_cd_handshake |-> phase31_cd_handshake,
  phase32_subcpu_halt |-> phase32_subcpu_halt, phase33_a12_writes |-> phase33_a12_writes,
  phase34_cmd_int |-> phase34_cmd_int, phase21_prg_priority |-> phase21_prg_priority,
  phase28_pwm_drain |-> phase28_pwm_drain, phase35_sh_rom_latch |-> phase35_sh_rom_latch,
  phase36_cdd_idle_poll |-> phase36_cdd_idle_poll,
  phase42_sdram_per_port_dout |-> phase42_sdram_per_port_dout,
  phase43_sh_rom_handshake |-> phase43_sh_rom_handshake,
  phase44_cart_strobe_leak |-> phase44_cart_strobe_leak,
  phase52_fifo_carries_fb |-> phase52_fifo_carries_fb, phase54_prg_cache |-> phase54_prg_cache,
  phase57_post_prg_writes |-> phase57_post_prg_writes,
  phase58_free_dec_frame |-> phase58_free_dec_frame, phase41_jump_trail |-> phase41_jump_trail,
  phase45_memset_caller |-> phase45_memset_caller,
  phase46_memset_caller_fix |-> phase46_memset_caller_fix,
  phase47_memset_caller_snapshot |-> phase47_memset_caller_snapshot,
  phase49_fb_select_probe |-> phase49_fb_select_probe, phase51_fs_at_access |-> phase51_fs_at_access,
  phase55_fbwrite_probe |-> phase55_fbwrite_probe, phase64_fbwrite_extent |-> phase64_fbwrite_extent,
  phase53_fm_probe |-> phase53_fm_probe, phase60_cdcport_latency |-> phase60_cdcport_latency,
  phase61_all_sub_latency |-> phase61_all_sub_latency,
  phase62_main_ga_latency |-> phase62_main_ga_latency,
  phase63_main_cart_latency |-> phase63_main_cart_latency,
  phase65_hsync_relock |-> phase65_hsync_relock ]
=============================================================================
