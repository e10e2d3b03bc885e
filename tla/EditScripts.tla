----------------------------- MODULE EditScripts -----------------------------
(***************************************************************************)
(* Running the edit scripts of tools/ on one source tree: in any order, a  *)
(* second time, and with the process dying on the way.  A script treats    *)
(* its files one after the other; the edits of a file are made in memory   *)
(* and the file is written once, so a missing anchor (AssertionError)      *)
(* leaves this file as it was and the earlier ones written.  open(p, "w")  *)
(* empties the file before the text goes in.  The tree is the one before   *)
(* the first script; the scripts a family takes to be applied are run on   *)
(* it in order, undisturbed, before those of the family.                   *)
(*                                                                         *)
(* Bounds: MaxRuns runs of a script that write something, MaxDeaths deaths *)
(* of the process.                                                         *)
(***************************************************************************)
EXTENDS EditPhases, Bags, FiniteSets, SequencesExt

CONSTANTS
  Script,       \* the scripts by name: [strict, parts]
  Families,     \* [applied |-> the scripts run first, scripts |-> those run then]
  MaxRuns,
  MaxDeaths

ASSUME FamiliesAssumption ==
  \A fam \in Families : /\ fam.scripts \subseteq DOMAIN Script
                        /\ fam.applied \in Seq(DOMAIN Script \ fam.scripts)
ASSUME BoundsAssumption == MaxRuns \in Nat /\ MaxDeaths \in Nat

VARIABLES
  text,         \* the tree: file -> bag of marks
  on,           \* the script running and the part it is at, or Idle
  before,       \* the applied scripts not yet run
  runs,         \* runs of each script of this time that wrote at least one file
  ended,        \* runs of each script that wrote all of them
  cut,          \* files emptied by a death while writing
  deaths

vars == <<text, on, before, runs, ended, cut, deaths>>

Idle  == [script |-> "none", part |-> 0]
Names == DOMAIN Script
Parts == UNION {ToSet(Script[s].parts) : s \in Names}
Files == {p.file : p \in Parts}

(* The tree before the first script: the anchors no script writes, the     *)
(* upstream text and the steps made by hand among them.                    *)
Base ==
  LET EditsOf(f) == UNION {ToSet(p.edits) : p \in {q \in Parts : q.file = f}}
      Needed(f)  == {e.at : e \in EditsOf(f)}
      Written(f) == UNION {e.new \ {e.at} : e \in EditsOf(f)}
  IN [f \in Files |-> SetToBag(Needed(f) \ Written(f))]

(* The text after a list of edits: one bag, or none when an anchor is      *)
(* missing, or, in a strict script, there twice.                           *)
Fits(strict, marks, e) == e.at \in DOMAIN marks /\ (strict => marks[e.at] = 1)
Replace(marks, e) == (marks (-) SetToBag({e.at})) (+) SetToBag(e.new)

(* Broken: no assert, a missing anchor changes nothing.                    *)
X_NoAssert(strict, marks, edits) ==
  LET found[n \in 0..Len(edits)] ==
        IF n = 0 THEN {marks}
        ELSE {IF Fits(strict, m, edits[n]) THEN Replace(m, edits[n]) ELSE m : m \in found[n - 1]}
  IN found[Len(edits)]

Edited(strict, marks, edits) ==
  LET found[n \in 0..Len(edits)] ==
        IF n = 0 THEN {marks}
        ELSE {Replace(m, edits[n]) : m \in {x \in found[n - 1] : Fits(strict, x, edits[n])}}
  IN found[Len(edits)]

Init ==
  \E fam \in Families :
    /\ before = fam.applied
    /\ ended = [s \in fam.scripts |-> 0]
    /\ runs = ended
    /\ text = Base
    /\ on = Idle
    /\ cut = {}
    /\ deaths = 0

(* Broken: begins with the last file, the one the others are for.          *)
X_TopFirst(s) == Script[s].parts[Len(Script[s].parts) + 1 - on.part]

At(s) == Script[s].parts[on.part]
Result == Edited(Script[on.script].strict, text[At(on.script).file], At(on.script).edits)

(* Nothing goes wrong for a script that was applied in its time.           *)
Tried == on # Idle /\ on.script \in DOMAIN runs

Apply ==
  /\ on = Idle
  /\ before # << >>
  /\ on' = [script |-> Head(before), part |-> 1]
  /\ before' = Tail(before)
  /\ UNCHANGED <<text, runs, ended, cut, deaths>>

Start(s) ==
  /\ on = Idle
  /\ before = << >>
  /\ runs[s] < MaxRuns
  /\ on' = [script |-> s, part |-> 1]
  /\ UNCHANGED <<text, before, runs, ended, cut, deaths>>

(* One more of the script that runs, if it is one of the family's.         *)
Counted(count) == [s \in DOMAIN count |-> IF s = on.script THEN count[s] + 1 ELSE count[s]]
CountRun == runs' = IF on.part = 1 THEN Counted(runs) ELSE runs

(* Broken: goes on after the last file.                                    *)
X_NeverEnds ==
  /\ on # Idle
  /\ \E m \in Result : text' = [text EXCEPT ![At(on.script).file] = m]
  /\ CountRun
  /\ on' = [on EXCEPT !.part = @ + 1]
  /\ UNCHANGED <<before, cut, deaths, ended>>

(* The file is edited and written; the script goes on or ends.             *)
WriteFile ==
  LET s == on.script IN
  /\ on # Idle
  /\ \E m \in Result : text' = [text EXCEPT ![At(s).file] = m]
  /\ CountRun
  /\ \/ /\ on.part = Len(Script[s].parts)
        /\ on' = Idle
        /\ ended' = Counted(ended)
     \/ /\ on.part < Len(Script[s].parts)
        /\ on' = [on EXCEPT !.part = @ + 1]
        /\ UNCHANGED ended
  /\ UNCHANGED <<before, cut, deaths>>

(* Broken: opens the file for writing before the edits are tried.          *)
X_OpensFirst ==
  /\ Tried
  /\ Result = {}
  /\ text' = [text EXCEPT ![At(on.script).file] = EmptyBag]
  /\ on' = Idle
  /\ UNCHANGED <<before, runs, ended, cut, deaths>>

(* AssertionError: anchor missing, or not unique.                          *)
Refuse ==
  /\ Tried
  /\ Result = {}
  /\ on' = Idle
  /\ UNCHANGED <<text, before, runs, ended, cut, deaths>>

(* The process dies between two files, ...                                 *)
Die ==
  /\ Tried
  /\ on.part > 1
  /\ deaths < MaxDeaths
  /\ on' = Idle
  /\ deaths' = deaths + 1
  /\ UNCHANGED <<text, before, runs, ended, cut>>

(* Broken: the file is written after every edit, the process dies with the *)
(* last still to be made.                                                  *)
X_EveryEdit ==
  LET p == At(on.script) IN
  /\ Tried
  /\ Result # {}
  /\ deaths < MaxDeaths
  /\ \E m \in Edited(Script[on.script].strict, text[p.file], Front(p.edits)) :
       text' = [text EXCEPT ![p.file] = m]
  /\ CountRun
  /\ on' = Idle
  /\ deaths' = deaths + 1
  /\ UNCHANGED <<before, ended, cut>>

(* ... or inside the write, with the file open and empty.                  *)
DieWriting ==
  LET f == At(on.script).file IN
  /\ Tried
  /\ Result # {}
  /\ deaths < MaxDeaths
  /\ text' = [text EXCEPT ![f] = EmptyBag]
  /\ cut' = cut \cup {f}
  /\ CountRun
  /\ on' = Idle
  /\ deaths' = deaths + 1
  /\ UNCHANGED <<before, ended>>

Next ==
  \/ Apply
  \/ \E s \in DOMAIN runs : Start(s)
  \/ WriteFile
  \/ Refuse
  \/ Die
  \/ DieWriting

Spec == Init /\ [][Next]_vars

-----------------------------------------------------------------------------
Has(f, m) == BagIn(m, text[f])

TypeOK ==
  /\ \A f \in Files : IsABag(text[f])
  /\ on = Idle \/ (on.script \in Names /\ on.part \in DOMAIN Script[on.script].parts)
  /\ \E fam \in Families : /\ before \in Seq(Names \ fam.scripts)
                           /\ runs \in [fam.scripts -> 0..MaxRuns]
                           /\ ended \in [fam.scripts -> 0..MaxRuns]
  /\ cut \subseteq Files
  /\ deaths \in 0..MaxDeaths

(* Whatever was run, run twice, refused or broken off, the telemetry in    *)
(* s32x_ddr.sv is whole: tel_pend is wide enough for the value loaded, the *)
(* n arms from that value down to one write beats 0 to n-1, each once, and *)
(* every beat but the counters has its port.                               *)
BeatsWhole ==
  LET ddr   == DOMAIN text["s32x_ddr.sv"]
      Loads == {m[2] : m \in {x \in ddr : x[1] = "load"}}
      Arms  == {m \in ddr : m[1] = "arm"}
      Ports == {m[2] : m \in {x \in ddr : x[1] = "port"}}
  IN \/ Loads = {} /\ Arms = {}
     \/ \E n \in Loads :
          /\ Loads = {n}
          /\ Arms = {Arm(n - b, b) : b \in 0..(n - 1)}
          /\ \E m \in ddr : m[1] = "pend"
          /\ \A m \in ddr : m[1] = "pend" => n < 2 ^ m[3]
          /\ \A m \in ddr : m[1] = "beat" => m[2] < n /\ (m[2] > 0 => m[3] \in Ports)

(* The way of each probe from the top down to the module that drives it.   *)
Path == {
  <<"DBG_EARLY_DTACK", "MegaCD.sv", "MCD.vhd">>, <<"DBG_EARLY_DTACK", "MCD.vhd", "ASIC.vhd">>,
  <<"DBG_SECTOR_END", "MegaCD.sv", "MCD.vhd">>, <<"DBG_SECTOR_END", "MCD.vhd", "CDC.vhd">>,
  <<"DBG_STATE", "MegaCD.sv", "32X.sv">>,
  <<"DBG_MSH_PC", "MegaCD.sv", "32X.sv">>, <<"DBG_PC", "32X.sv", "SH7604.sv">>,
  <<"DBG_PC", "SH7604.sv", "SH_core.sv">>,
  <<"DBG_COMM", "MegaCD.sv", "32X.sv">>, <<"DBG_COMM", "32X.sv", "IF.sv">>,
  <<"DBG_CFM", "MegaCD.sv", "MCD.vhd">>, <<"DBG_CFS", "MCD.vhd", "ASIC.vhd">>,
  <<"DBG_SRES", "MegaCD.sv", "MCD.vhd">>, <<"DBG_SRES", "MCD.vhd", "ASIC.vhd">>,
  <<"DBG_INT", "MegaCD.sv", "32X.sv">>, <<"DBG_INT", "32X.sv", "IF.sv">>,
  <<"DBG_FB", "MegaCD.sv", "32X.sv">>, <<"DBG_FB", "32X.sv", "VDP.sv">>,
  <<"DBG_SYNC", "MegaCD.sv", "32X.sv">>, <<"DBG_SYNC", "32X.sv", "VDP.sv">>,
  <<"PRG_POST_WR", "MegaCD.sv", "MCD.vhd">>, <<"PRG_POST_WR", "MCD.vhd", "ASIC.vhd">>,
  <<"CRAM_DOTS", "MegaCD.sv", "gen.sv">>, <<"CRAM_DOTS", "gen.sv", "vdp.sv">> }

(* What an edit, and all the edits of a part, put in.                      *)
Gain(e)   == e.new \ {e.at}
Gained(p) == UNION {Gain(e) : e \in ToSet(p.edits)}

(* No file connects a probe its instance does not have, wherever a script  *)
(* stopped: they write the lower file first.                               *)
LowerFirst ==
  \A p \in Path :
    Has(p[2], Map(p[1])) => Has(p[3], Port(p[1])) \/ p[3] \in cut

(* The others write the connection first: phase21 prg_first, the probe of  *)
(* the SH-2 DBG_STATE in 32X.sv, every beat its wire in the top.  Such one *)
(* has no port while its script runs, nor after it was refused or died; it *)
(* has one when the script has ended, whatever was refused or died since.  *)
Delivered ==
  \A s \in DOMAIN ended : ended[s] > 0 =>
    \A p \in ToSet(Script[s].parts) : \A m \in Gained(p) :
      m[1] = "port" => Has(p.file, m) \/ p.file \in cut

(* So a connection whose port the same script declares dangles, if at all, *)
(* only where that script never ended.                                     *)
NoDangling == LowerFirst /\ Delivered

(* No beat is silently zero: a telemetry port of s32x_ddr.sv is connected  *)
(* in the top, and every telemetry wire the top hands over has exactly one *)
(* driver, whichever probes took the beat over - in every tree a script    *)
(* leaves.                                                                 *)
Connected ==
  "MegaCD.sv" \notin cut =>
    \A m \in DOMAIN text["s32x_ddr.sv"] : m[1] = "port" => Has("MegaCD.sv", Map(m[2]))

OneDriver ==
  LET top == text["MegaCD.sv"] IN
  \A m \in DOMAIN top :
    (m[1] = "last map" \/ m[1] = "map") /\ (\E x \in DOMAIN top : x[1] = "wire" /\ x[2] = m[2])
      => LET drivers == {x \in DOMAIN top : x[1] = "wire" /\ x[2] = m[2]}
         IN \E x \in drivers : drivers = {x} /\ top[x] = 1

(* So every beat is driven, by one probe.                                  *)
Wired == Connected /\ OneDriver

(* The beats in the order of their scripts.                                *)
Chain == << "phase18_prgram_dtack", "phase19_sector_rate", "phase24_sh2_pc", "hand_tel_md",
            "phase27_comm_regs", "phase29_md_addr", "phase30_trap_trail", "phase31_cd_handshake",
            "phase32_subcpu_halt", "phase33_a12_writes", "phase34_cmd_int" >>

NotEnded(s) == s \notin DOMAIN ended \/ ended[s] = 0

(* A script of the chain writes s32x_ddr.sv only on a tree every earlier   *)
(* script of it has changed in full.                                       *)
BeatOnWhole ==
  \A i \in 1..Len(Chain) :
    ~ NotEnded(Chain[i]) => \A j \in 1..i : Chain[j] \in DOMAIN ended => ended[Chain[j]] > 0
=============================================================================
