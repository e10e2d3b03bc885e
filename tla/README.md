# Verification of the MiSTer Mega Drive + Mega CD + 32X core

The repository is an FPGA core, in SystemVerilog and VHDL, that joins three
machines which were built separately: a Mega Drive, the Mega CD expansion and the
32X expansion. The three share one SDRAM chip, the HPS's DDR3, the cartridge
connector and the clocks. Most of the defects that `src/HANDOFF.md` and
`src/UPSTREAM_BUGS.md` record are of one family: a handshake that worked for one
master stops working when a second one makes it wait. This directory models those
handshakes in TLA+, checks them with TLC and proves their safety with TLAPS.

The repository's second half is `src/tools`: the Python that made this core out of the
three trees, one edit script per step, and that tests it on the hardware. The scripts
are run by hand, again after a failure and in orders nobody planned; the test programs
drive a MiSTer that answers late or not at all, and what they print is the evidence the
core's fixes rest on. These are modelled too.

## 1. The system

### Parts, state, operations

The own logic is under `src/core`. `src/phase0`, `src/S32X_MiSTer_upstream`,
`src/32X` and `src/SH` are pristine copies of what was imported, `src/core/sys` is the
MiSTer framework, and FX68K, T80, jt12 and jt89 are third-party cores; none of them
is modelled.

| Part | Source (`src/core/rtl`) | State it keeps | Operations | What makes it correct |
|---|---|---|---|---|
| SDRAM controller | `sdram.sv` | the access cycle, one-hot request and its echoes, old strobes, refresh timer, one data register per port | accept a port, refresh, power-up | each request once; each port samples its own word; refresh in time; no starvation of the first ports |
| PRG-RAM cache | `prg_cache.sv` | state, tag/data store, pending requests | look up, fill, write through, bypass, clear | transparent: a read returns the last write; `busy` means what the gate array takes it to mean |
| PRG-RAM bus machines | `MCD/ASIC.vhd` 1436-1698 | PRMS, PRSS, the shared lines, /DTACK, posted flag, PR_DMA_RUN | main CPU window, sub-CPU cycle, DMA word | one access at a time; one acknowledge per cycle; every cycle ends |
| CDC host transfer | `MCD/CDC.vhd` 549-728, `MCD/ASIC.vhd` 396-564 | TS, WAIT, DTEN, DBC; DS, HRD, EDT, DSR, DMA_ADDR | trigger, byte handshake, abort, FF8004/FF800A rewrite | every byte once, in order, at its address; no mutual wait; flags tell the truth |
| 32X memories in DDR3 | `s32x_ddr.sv` | two line caches, write FIFO, line buffer, request machine | SH-2 read/write/burst, draw read/write, line prefetch | reads see the last write, no write dropped, lines whole, everybody served |
| 32X VDP draw path | `S32X/VDP.sv` 99-268, `S32X/32X_mem.sv` | access machine, 8-entry FIFO, auto-fill, FS | register, palette and frame-buffer accesses, fill, drain | no access lost or sent to the wrong buffer |
| 32X interface | `S32X/IF.sv` | ROM arbiter, DREQ FIFO, PWM FIFOs, interrupts, registers | see the plan | no stale ROM word, no lost DREQ word, no lost interrupt |
| SH7604 | `SH/` | CPU, cache, BSC, DMAC, INTC, timers | | imported; its SDRAM bus cycle is the environment of the DDR3 model |
| Word RAM, CDD, interrupts, graphics | `MCD/ASIC.vhd` | ownership bits, pending bits, command state | | see the plan |
| Mega Drive | `GEN/` | bus arbiter, VDP, pads | | imported with few changes |
| Cartridge | `CART/` | mapper, EEPROM state | | see the plan |

and in `src/tools`:

| Part | Source | State it keeps | Operations | What makes it correct |
|---|---|---|---|---|
| Edit scripts | `phase*.py` | the source tree | edit a list of files, refuse, die | a tree is changed whole or the next script refuses it; each telemetry beat has an arm, a port and one driver |
| Keyboard driver | `mister/uinput_kbd.py`, `kbd_chord.py` | pid file, FIFO, a virtual keyboard per process | keys, --daemon, --send, chord | one daemon; no line left behind; a dead daemon locks nobody out |
| OSD driver | `mister/osd.py`, `cartdisc_test.sh` | its belief that the menu is closed | goto, select, close | the row hit is the row meant |
| Test harnesses | `mister/sweeptest.py`, `ntsweep.py`, `ntshot.py`, `crashrate.py` | pid before, attempts, captures, static polls | load, capture, sample, poll, report | every line is about the title it names |
| Readers, viewers, build helpers | the rest | none | read, parse, print | pure functions of memory or a file |

### How they interact

* The five SDRAM ports: 0 cartridge (68000 and both SH-2s through the 32X's ROM
  arbiter), 1 BIOS ROM, 2 PRG-RAM (through the cache), 3 and 4 the Mega CD's PCM and
  backup areas. A master raises a strobe, sees `busy` rise, and takes its word
  when `busy` falls. The controller runs on clk_ram, the masters on clk_sys, half as fast.
* Gate array and cache: the gate array reads `busy` rising as "accepted" and
  drops its write strobe there, `busy` falling as "done". The cache stands between
  and must preserve both meanings.
* CDC and gate array: strobe HRD and answer WAIT, a byte at a time; software polls
  EDT, DSR and DTEI and may rewrite the destination at any clock.
* DDR3: three clients, one Avalon bridge that stalls at will.
* Edit scripts: each reads what the ones before it left in the files; anchors (text
  that must be there, once) are the only protocol between them.
* Keyboard: programs to the daemon through a FIFO, daemon to MiSTer's Main through
  a device Main opens in its own time; the menu the keys drive cannot be seen.
* Harnesses: commands to Main through /dev/MiSTer_cmd, answers by a changed pid, files
  that appear, and DDR3 the core may not have written yet.

### What is hard here

In the core everything is concurrent and clocked, and nothing is persisted. The hard
behaviours are: (1) strobes that are edges for one side and levels for the other; (2) a `busy`
that has two readers with different ideas of it; (3) two state machines assigning
one register in one clock, where the later assignment wins; (4) software that
rewrites a register in the worst clock; (5) resets that reach one side of a
handshake and not the other; (6) a fixed order of service under saturation. In the
tools: (7) scripts broken off between two files and run again; (8) processes that
check, then act; (9) a command sent again while the first is still on its way;
(10) a reading that is still the one before. The hazards, each at its line, are
listed in `PROJECT.json`.

## 2. Modules

| Module | Models | Properties |
|---|---|---|
| `PortMemory` | what a memory with several ports promises; no code | (abstract specification) |
| `OnePort` | one port of `sdram.sv` as its master sees it | |
| `Sdram`, `MCSdram` | `sdram.sv`, the chip, its consumers | `TypeOK ExactlyOnce SampleCorrect RefreshBound IsPortMemory FirstTwoServed` |
| `SdramProofs` | proofs about `Sdram` | |
| `PrgPort`, `MCPrgPort` | `prg_cache.sv`, PRMS/PRSS, port 2 | `TypeOK ReadsLatest OneAtATime NoStaleDtack Settled SubServed` |
| `PrgPortProofs` | proofs about `PrgPort` | |
| `CdcDma`, `MCCdcDma` | CDC `TS` and gate array `DS` | `TypeOK Delivered EdtTells NoMutualWait TransferEnds` |
| `CdcDmaProofs`, `CdcDmaOrder` | proofs about `CdcDma` | |
| `S32xDdr`, `MCS32xDdr` | `s32x_ddr.sv`, the SH-2's bus cycle, the bridge | `TypeOK ReadsLatest WritesLand LineWhole Served` |
| `S32xDdrProofs` | proofs about `S32xDdr` | |
| `EditPhases` | the edit scripts as lists of anchors and what replaces them | |
| `EditScripts`, `MCEditScripts` | running the scripts on a tree | `TypeOK BeatsWhole NoDangling Wired BeatOnWhole` |
| `EditRules` | what each script keeps to, as assumptions on its edits | |
| `EditScriptsProofs` | proofs about `EditScripts` | |
| `Keyboard` | `uinput_kbd.py`: processes, pid file, FIFO | |
| `Osd`, `MCOsd` | `osd.py`, the menu, on top of `Keyboard` | `TypeOK RightRow OneDaemon Drained` |
| `OsdProofs` | proofs about `Keyboard` and the menu of `Osd` | |
| `Harness`, `MCHarness` | sweeptest, ntsweep, ntshot, crashrate and Main | `TypeOK RightTitle SurvivalRight Finishes` |
| `HarnessProofs` | proofs about `Harness` | |

In a module a definition named `X_Something` just before `X` is a variant of `X` with a
plausible mistake in it. No specification uses it; it is there to be put in `X`'s place to
see that a property notices.

### Sdram

One step is one edge of clk_ram. `Manager`, `Pipeline`, `PowerUp` and `Chip` are the
always blocks; `Next` is their conjunction, because every register moves at once.
`Clock` moves the consumers on every other edge. `state` 0, 1, 3 and 6 are
STATE_IDLE, START, CONT and READY. `ram_req` and the echoes that stretch `busy` are sets of
ports of at most one element; `we = {}` is a read. A consumer is idle, waiting for
`busy` to rise, or waiting for it to fall; a *posted* one (the gate array) drops
a write when it sees `busy`, the others hold it until `busy` falls; a *prompt*
one samples on the edge `busy` falls, the others at any time later. The commands,
banks and column addresses on the chip's pins are abstracted: an access reads or
writes one word in the state in which the data moves. In `MCSdram.cfg` the refresh
interval is 9 instead of 766, so that refreshes fall between and against all accesses.

`History` holds what no register holds: how often a request reached the chip, the
word it found there, how long the data register has been still.

`IsPortMemory` is a refinement: the mapping takes a port as *asked* from the strobe, as
*done* from the clock its access reaches the chip, and its answer from the port's
register once `busy` has fallen.

### PrgPort

One step is an edge of clk_ram; the gate array, the processors and the OSD move
where `phase = 0`. `SdramPort` is the SDRAM controller at port 2: `OnePort!Step`, which
takes a risen strobe when it pleases, completes it in fixed time and keeps `busy` up two
cycles more, with two assumptions about the other ports: they keep this one waiting for
at most `load.wait` cycles each time, and none of them writes PRG-RAM, which has an area of its own
(`MegaCD.sv:1347-1385`). That `Sdram` does at every port what `OnePort` says is a theorem,
and for the port in front so is a bound on the wait. `Cache` is `prg_cache.sv`, an action per state; the
synchronous store may return the old or the new line when it is read in the clock it
is written (the `no_rw_check` of the source). `GateArray` is PRMS and PRSS together:
the two assign the same lines, PRSS after PRMS, which `SubBus(MainBus)` says.
`sbrq` stands for "SBRQ = 1 or SRES = 0", the condition of lines 1463 and 1557.
`Users` is the processors: the sub-CPU may end its cycle at any time after /DTACK and
start the next at once, and may start one up to `HaltLag` clk_sys after BUSREQ. The main CPU's
window cycle comes at least `load.gap` clk_sys after the write of BUSREQ, a bus cycle of
its own, and `load.between` after its last one; a reset keeps it off the bus for
`Boot` clk_sys. `Loads` lists what the masters ask for; one is chosen at the start of a
behaviour.

`OneAtATime` rests on that gap: PRMS looks neither at PRSS nor at `busy`
(`ASIC.vhd:1463`), so nothing in the gate array stops it while a DMA word is on its way, and
`sdram.sv` bounds the wait of port 2 only with `prg_first`, at 13 clk_ram for each access. So the four
properties cannot hold of every behaviour (finding 8), and the model does not limit the waits to
those for which they do. Two history variables say how far they go. `kept` counts, from BUSREQ and
`HaltLag` on, the clk_ram in which port 2 is put off. `late` is set when the main CPU's cycle begins
with `kept` above `Budget`, which is 2 * (gap - HaltLag - 18): two accesses that nobody puts off, the one
under way and the one a waiting sub-CPU still starts, are over in 18 clk_sys, and the rest of the gap
may be waits. The properties hold while `late` is not set, and a workload without a window never
sets it. A 68000 on a clock of 7 clk_sys needs four of its clocks, 28 clk_sys, from BUSREQ to the next
cycle and one, 7, between two: `Budget` is 16 clk_ram, one wait of the longest that `prg_first` leaves
and not two.

`TimingAssumption` is about the 68000 alone: `gap` is at least HaltLag + 18, `between` at least 6, the tail
of a write, and `2 * Boot + 1` at least `Lines`: S_INIT clears a line a clk_ram. The cache of 512 lines
needs 256 clk_sys, and the 68000 fetches its reset vectors and its program from elsewhere first. In the
workload `Window` TLC finds the first overlap with `kept` at 22, so that the proof's 16 leaves 5 clk_ram
of it unclaimed.

### CdcDma

The gate array's `DS` moves in every clk_sys. The CDC moves only in those in which the sub-CPU's
clock has an edge (`EN`, `CDC.vhd:188`; S68K_CE_R and S68K_CE_F, `MCD.vhd:373`), four or five apart
and not evenly, and `TS` in every second of those. `Tick` is a clock with such an edge and
`OffTick` one without, any number of them between two `Tick`s: nothing in the handshake may rest on
the ratio of the two machines, so none is assumed. Register writes of the sub-CPU replace the CDC's step, as
they do in the code. `GivenX` is what the top of the process (lines 411-463) assigns
to X; the branches of the case may override it. Bytes are numbers, in the order
the CDC sends them. The memories' arbiters answer after any delay.
`clean` says whether the running transfer was set up at rest and left alone since: only
then is the whole of it promised.

### S32xDdr

`Clock` is one clk_sys of `s32x_ddr.sv`. A beat is one word and a line is two, byte
enables are left out, the line table holds a start of beat within a buffer of `FbWords`
beats. The bridge (`Bridge`, external) stalls at will, answers in order, after any
delay. The SH-2 side is its bus controller's SDRAM cycle (`BSC.sv` 274-324, 480-494),
with a burst of two beats. Each kind of request has a budget; `Workloads` lists the
budgets and a behaviour starts with one.

Assumptions about the users, each read from the code that uses the port: the VDP
asks for a line in HBLANK, and a line is fetched long before the next
(`LineRequest`); it writes only if `fbd_busy` was low in the clock before
(`ungranted`) and not while its own read is pending (`VDP.sv` 187-208); reset outlasts
every answer of the bridge (`Resetting`).

### EditPhases and EditScripts

A file is a bag of marks, one for each passage some script looks for or leaves. An
edit takes its anchor out and puts marks in; `Keep` leaves the anchor, as an edit does
whose new text still contains the old. Edits of one file whose anchors no other script
touches are one edit, since they are found or missing together. `Strict` and `Lax` are the
two `edit` functions: with and without `s.count(old) == 1`. Each script is a
constant of `EditPhases` under its file's name, in the order of its files and edits;
`hand_tel_md` is the one step of the chain that was made by hand and left a stale comment,
on which the anchor of phase27 depends.

`EditScripts` runs them. The edits of a file are made in memory, so `WriteFile` is one
step and an assertion (`Refuse`) leaves that file alone but the earlier ones written.
`Die` is a death between two files; `DieWriting` one after `open(p, "w")` has emptied
the file. The scripts are the constant `Script`; `MCEditScripts.cfg` gives it `Phases`, all of
those in `EditPhases`. The tree starts as the one before the first script, `Base`. The scripts
that a family takes to be `applied` run on it first, one after the other and undisturbed (`Apply`),
then the family's own in any order (`Start`).

`EditRules` says what every script keeps to so that this is safe: ports, connections and beats are
never taken out (`LastingAssumption`); a connection is written after the port it needs
(`NeedsAssumption`); a script that adds to the telemetry of the top or of `s32x_ddr.sv` takes out
the end it found and leaves the one end that follows, or replaces the wire it drives
(`TopAssumption`, `DdrAssumption`); a script of the chain looks in its last file for what the one
before left there (`ChainAssumption`). No rule mentions a run, a refusal or a death: each can be read
off the lists of edits, and TLC evaluates all of them on the real ones in `edit_scripts`.

### Keyboard and Osd

A process is a record of what it does, where it is and what it still types. The FIFO
has POSIX's semantics: `open` waits for the other end, the end of file is seen when
nobody has it open to write, and what is in it is gone with the last descriptor
(`Kept`). Main opens a keyboard some time after it appears (`Notice`); a key typed before
reaches nobody. A fault is a
process that dies, or a keyboard that Main opens only after the 1.2 s. `Osd` adds
the menu: `Rows` is page 0 of CONF_STR with the debug rows the chord shows, `Menu` (external,
Main) what a key does to it. `belief` is the operator's: a command is given only when the
menu is taken to be closed, `close` when it is taken to be open. Lines are sent on each
other's heels, and a daemon is started at any time, also while another has looked for the pid file
and not written its own: both come up then, and both serve (finding 13). The history variable
`overlapped` is set by the start that looks while another daemon is up or coming up and is not
refused; `RightRow`, `Drained` and the second half of `OneDaemon` are about the time before, and
`OneDaemon` says that nothing else brings up a daemon beside one that serves.

### Harness

One harness runs down its list of titles. `Begin`, `Send`, `Changed`, `Timeout` and `GiveUp`
are the load loop all of them share; `kind` says which measurement follows. Main (external)
takes commands from its FIFO one by one, passes over a load_core that names no file, may
miss any command, and is gone between `TakeLoad` and `Restart`. The core writes its telemetry
some time after that. Every harness but crashrate checks its MGLs first (`Admitted`).
`Prompt` names what they take for granted of Main and cannot check: when a wait is
over, what was not carried out never will be. Without it `RightTitle` does not hold (finding 7),
and nothing in the programs could make it. What the programs say of their screenshots is not a
property of a run: it fails without `Prompt` (finding 10), or with it as soon as one screenshot is missed
(finding 11). `SurvivalRight` does not rest on `Prompt`.

## 3. Runs

Every passing run is exhaustive within its bounds.

| Run | Instance | Shows |
|---|---|---|
| `sdram` | ports 0 and 2, both with reads and writes, the PLL losing lock once, both settings of `prg_first` | safety, refinement of `PortMemory` |
| `sdram_served` | ports 0, 1, 2, reads, refresh every 22 cycles | the first two ports in the order of service cannot be starved |
| `prg_port` | two words in one cache line, two byte lanes; sub-CPU + DMA + one reset, waits up to 4; or sub-CPU + DMA + main CPU window, waits up to 13 | safety of the cache and the two machines |
| `prg_served` | sub-CPU, DMA, BUSREQ, a protected word, the cache switched once | every cycle ends |
| `cdc_dma` | main CPU and PCM RAM, 3 and 4 bytes, two transfers, one rewrite, one abort | safety of the transfer |
| `cdc_ends` | PRG-RAM, word RAM and no destination, 3 bytes, two transfers, one rewrite, one peripheral reset | every transfer ends |
| `cdc_wedge` | PRG-RAM retargeted to the sub-CPU | finding 1 |
| `s32x_ddr` | five workloads: one of each kind; five draw accesses; three SH-2 accesses and telemetry; two SH-2 accesses and a reset; two lines and a reset | safety of the DDR3 engine |
| `s32x_ddr_served` | three small workloads | every SH-2 access and every line is served |
| `edit_scripts` | eight stages of the tree with the scripts of each, in any order, each at most twice, one death | the tree is whole or the scripts refuse it; every script keeps the rules |
| `osd` | four processes, one fault; four targets, two lines sent; daemons started at any time | the row hit is the row meant, one daemon, nothing left behind, until two starts overlap |
| `harness` | three titles, one without an MGL, one with a frozen picture; 6 attempts, 3 captures, 9 polls | each line is about its title; the run ends |

### Bounds, and why they are enough

* Two addresses that share a cache line give every hit, miss, conflict and merge of a
  direct-mapped cache. Two byte lanes are what the write strobes have.
* `Boot = 0` there, since one line is cleared in one cycle; `gap = 28` and `between = 7` are
  the 68000's.
* Each workload has its bound on a wait, `load.wait`. 4 for the sub-CPU and the DMA with a reset: a
  strobe withdrawn early is lost only if the port keeps it waiting for more than the phase
  difference of the clocks; 4 is past that point. 13 for the window, what `FrontInTime` allows with
  `prg_first`: two such waits are above `Budget`, so that `late` is set. `prg_served` uses 1: a longer
  wait only repeats the state. The run has 1.6 million states.
* Two transfers show what one leaves for the next; 3 and 4 bytes are the odd and the
  even length; one rewrite at any clock reaches each branch of `DS`, since the
  machine is back at rest between.
* Five draw accesses fill the FIFO of `WfSize = 4` (three usable entries) past the
  `fbd_busy` mark. Telemetry writes one beat, not 13: it only occupies the engine.
* Three ports are enough for the order of service: port 3 and 4 differ from 2 only in
  their place. They *can* starve when the three in front never pause, and no property
  claims otherwise.
* A script run twice meets both its own marks and those of every other one in between; one
  death, since two only add up what the first left. The stages follow the repository's order;
  scripts of different stages share no anchors but those of `applied`.
* Four keyboard processes are a daemon, two senders and a restart, or a daemon, its
  killer's successor and a command, or two daemons that overlap, a third that is refused and a
  sender (924 thousand states). Two faults are one too many for the code, not the model: a keyboard
  opened late after a daemon died with the menu open makes `RightRow` fail.
* 9 polls are past DEAD_POLLS = 6, so that a run dies early, late, never, or was never alive.
  Two loads in a row and a missing one in between show what one leaves to the next.
* `since` in `Sdram` saturates past the bound `RefreshBound` states. The budgets of
  `S32xDdr` count down, so that a spent budget is one state.

### Fairness

`WF(Next)` or `WF(Tick)`: the clock runs. In `PrgPort` nothing else is needed, because
the SDRAM serves port 2 within `load.wait`. In `CdcDma` `WF(Tick)` says that the sub-CPU's clock goes
on; a host that was told of a word reads it and each memory serves a word it is offered
(`Fairness`), which is what the arbiters do; starting a transfer, rewriting a register and clearing
DOUTEN are free. In `S32xDdr` strong fairness of `Progress` says that the bridge, over and over, takes a
command and returns a beat: the Avalon contract. It does not say that it does so at the
clock the engine would like, which is why the liveness property can fail. Its first half
holds because the competitors' budgets are finite: the SH-2 is last in the order of
service (line 368), and the code promises it nothing against an endless stream.

In `Osd` each process is weakly fair, because the kernel schedules it; that includes
Main's noticing its keyboard. Starting, sending and dying are free. `Harness` has weak
fairness of Main, taken as a whole, and of the script, whose waits are all bounded by time.
`EditScripts` has no liveness property.

CHECK_DEADLOCK FALSE stands where the system may really stop: a harness has come to the end
of its list, and a sender may wait in open() for a daemon that died.

## 4. Proofs

TLAPS proves, for all values of the constants that meet the named assumptions:

| Theorem | Statement |
|---|---|
| `SdramProofs!TypeCorrect` | `Spec => []TypeOK` |
| `SdramProofs!OnceEach` | `Spec => []ExactlyOnce` |
| `SdramProofs!SampledWord` | `Spec => []SampleCorrect` |
| `SdramProofs!RefreshInTime` | `Spec => []RefreshBound` |
| `SdramProofs!Implements` | `Spec => IsPortMemory` |
| `SdramProofs!AsSeen` | `Spec => PortsAsSeen`, with `Seen(p)!Init` and the same `busy` |
| `SdramProofs!FrontInTime` | `RfsCnt > LAST`: `Spec => TurnComes`, with `Delay` at most 13 |
| `PrgPortProofs!TypeCorrect` | `Spec => []TypeOK` |
| `PrgPortProofs!ReadsAreLatest` | `CacheStaysOn`: `Spec => []ReadsLatest` |
| `PrgPortProofs!OneAccessAtATime` | `CacheStaysOn`: `Spec => []OneAtATime` |
| `PrgPortProofs!DtackIsFresh` | `CacheStaysOn`: `Spec => []NoStaleDtack` |
| `PrgPortProofs!WritesSettle` | `CacheStaysOn`: `Spec => []Settled` |
| `CdcDmaProofs!TypeCorrect` | `Spec => []TypeOK` |
| `CdcDmaProofs!NeverMutual` | `Spec => []NoMutualWait` |
| `CdcDmaProofs!EdtIsRight` | `Spec => []EdtTells` |
| `CdcDmaOrder!TransferIsWhole` | `Spec => []Delivered` |
| `S32xDdrProofs!TypeCorrect` | `Spec => []TypeOK` |
| `S32xDdrProofs!ReadsAreLatest` | `Spec => []ReadsLatest` |
| `S32xDdrProofs!NoWriteIsLost` | `Spec => []WritesLand` |
| `S32xDdrProofs!LinesAreWhole` | `Spec => []LineWhole` |
| `OsdProofs!TypeCorrect` | `Spec => []TypeOK` |
| `OsdProofs!StartsAlone` | `Spec => OneDaemon` |
| `OsdProofs!RowsAreRight` | `Reachable`, `MaxFaults <= 1`: `Spec => []RightRow` |
| `HarnessProofs!TypeCorrect` | `Prompt`: `Spec => []TypeOK` |
| `HarnessProofs!LinesAreRight` | `Prompt`: `Spec => []RightTitle` |
| `HarnessProofs!SurvivalIsRight` | `Spec => []SurvivalRight` |
| `EditScriptsProofs!TypeCorrect` | `Spec => []TypeOK` |
| `EditScriptsProofs!BeatsAreWhole` | `Spec => []BeatsWhole` |
| `EditScriptsProofs!NothingDangles` | `Spec => []NoDangling` |
| `EditScriptsProofs!EverythingWired` | `Spec => []Wired` |
| `EditScriptsProofs!BeatsOnWholeTrees` | `Spec => []BeatOnWhole` |

*Sdram.* Neither property is inductive: both speak of a consumer when `busy` has
fallen, and say nothing of the six cycles before. `IInv` follows an access through
them. `ServiceInv` says, state by state, which of `ram_req`, `ram_req_d`, `ram_req_d2`
and `dout_sel` agree, so that a single port is in service. `NoticeInv` says that a
consumer that has not seen `busy` can only be in the first two cycles of its
access: `busy` lasts long enough, and the clocks are in phase, so that it cannot miss the
whole of it. `OldInv` says that a strobe already served is old until it falls (hence
"at most once"), `AccessInv` ties the latched access to the one asked for and
counts it (hence "at least once"), `DataInv` carries the word from `dout` to the port's
register. `ServiceStep`, `EchoStep` and `ConsumerStep` say once what a step can do to a port;
each part of `IInv` then has one lemma.

`RefreshInTime` needs an upper bound on `since` at every clock, not only when it is
sampled: `RefreshInv` bounds it by what the timer has counted while the timer runs, and
by the place in the cycle once it has run out. `Implements` rests on `IInv` alone. An operation
takes effect when its access reaches the chip, a write in CONT and a read in READY
(`Commits`); in that step every other consumer asks, finishes or stays (`Others`), and
`Shown` says that what a port shows once `busy` has fallen is the word its read found.

`AsSeen` ties `Sdram` to `PrgPort`. `Seen(p)` maps the controller's registers to what they hold of
port p: an access of another port, or a refresh, is hidden in a `sc` that stays 0. By `IInv` only one port is
in service, so that every step of the controller is a step of `OnePort` at every port. `FrontInTime` is
about the port no other goes before: port 2 with `prg_first`, the first port without. `Delay`
counts the rest of the running cycle, and a refresh if the timer runs out by its end; it falls by
one each edge, and at 0 the port is taken. TLC finds 13 reached, so the bound is the best. Without
`prg_first` nothing in `sdram.sv` bounds the wait of port 2, and it is not `sdram.sv` that keeps the other
ports out of PRG-RAM: the two assumptions of `SdramPort`. TLC checked `PortsAsSeen` and `TurnComes`
on `MCSdram` (318 thousand states) before they were proved; no run holds them.

*PrgPort.* All four properties rest on one invariant, `InTime`, since none of them holds alone:
a read is right because nobody else's access is under way, and nobody else's is because
every access ends in time, which it does because the cache never forgets one. `ReadStage`
and `WriteStage` say for each stage of a strobe where the cache and the port must be;
they carry the phase of clk_sys, as the strobe is seen by the cache in the clk_ram between
two of the gate array's clocks, so that `busy` is up in time. `Landing` says that `shadow`
is the memory with the one write under way put into it, `Fetch` what a read under way carries,
`LinesOk` that every valid line, as it will be once the store is written, is what `shadow` says but
for that write. `SubData` and `MainData` tie a read to its CPU and an acknowledge to its bus
cycle. `IInv` is `InTime` until `late` is set, and the types after.

`Timing` is for the main CPU's window. `Left` bounds the clk_ram cycles that the cache and the
port still need when nobody puts port 2 off, `Rank` adds those of the access a waiting sub-CPU may yet
start: at most 37. `RankStep` shows that it falls by one each clock in which port 2 is not put off, and
does not rise in one in which it is. `Need` adds the waits that are left of `Budget`, as long as anything
is there that may ask for the port (`Asks`); a wait takes one of them, so `Need` falls by one in every
clock once BUSREQ and `HaltLag` have passed (`NeedStep`). It begins at 37 + `Budget` or less, which is
what the gap has room for, and at the end of `gap` it is zero: nothing is on its way when the main CPU
begins. If `kept` has passed `Budget` there is no such argument, and `late` is what the step sets.
`Timing` is vacuous for a workload without a main CPU, and the proof is of all workloads and all waits.

The hypothesis `CacheStaysOn` leaves out what the code does not survive: the OSD switching the
cache, a download resetting the gate array alone (findings 2 and 3), and the debug setting
DBG_EARLY_DTACK. `prg_port` runs under it; `TypeCorrect` does not need it.
Proving it found the model wrong where the gap between two accesses of the main CPU was the
whole of `load.gap`, which a 68000 does not wait: hence `between`.

*CdcDma.* The documented deadlock needs HRD up in `DS_IDLE`. `StrobeHeld`, `hrd` exactly in
`cdc_read`, is inductive because `GivenHrd` drops the strobe in the clock that `GivenDs` forces
`DS_IDLE`: the repair of `ASIC.vhd:436` is sufficient for every interleaving. For `EdtTells`, `EdtInv` says what
is behind the
history variable `flag`: while it is armed no transfer has ended and EDT is clear, or is cleared by
the clock that follows; once it is done the CDC is idle with DTEN down, and either the end is
seen by that clock or EDT is up.

`TransferIsWhole` counts. Of the running transfer the CDC has sent p bytes, the gate array
has taken t and made w words of them, and n have arrived; `RunInv` says that such counts
exist. Where `TS` is says whether p = t or one byte is on the port (`Sent`); whether a byte is
held over says if t is even (`Paired`); where `DS` and the destination's handshake are says
whether n = w or a word is on its way, and what the address counter reads, modulo `Size`
(`Landed`, one case for the hosts, one for the memories, one for no destination). So an
entry is made only of the next word. `ReadyInv` is where the induction starts: what a
setup at rest leaves over (`dma_byte`, a strobe, `dsr`) is gone by the clock that
applies the written address, before the first byte. The proof has one lemma per branch of
`DS` and destination, and needs `StrobeHeld`.

*S32xDdr.* The four properties speak of the moment a word is latched, lands or a line ends; the
engine works for many clocks before. `EngineInv` says, for each state, what is asked of the
bridge and what it still holds: it does one thing at a time, so that what arrives is
of that thing, and nothing is written while a read is under way. Reset is the exception,
and `Resetting` waits for the bridge to run dry. `LineInv` counts the beats of a line:
`Got` have arrived, `lp_left` are to come of this burst and `lp_2nd` of the next, and together
they are `LpBeats`; the address of the next follows from `Got` alone. The other half of `IInv` holds
out of reset. `SdrData` and `FbdData` say of each word where its last value is: in the SH-2's
cycle, last for it in the queue, in the command shown, or in memory (`PutAgrees` and `TakeAgrees`
are the two steps of the queue). `SdrCache` and `FbdCache` say that a valid line agrees
with that, `SdrFill` and `FbdFill` that a line being filled is the one the waiting read is
of and so far what memory holds. `FbdFill` needs the queue empty, which is what the order of
service gives (line 368: queued writes before a draw read): with the order swapped
(`Pick_ReadsFirst`) the invariant and the property both fail. `TypeOK` needs `ungranted`: the user stopped
two entries early, so that the write under way still has room.

The proof found the model wrong in one place: a fetch that reset cut off left
`table` behind, and `LineWhole` then spoke of a line that was never fetched. A cut-off
fetch leaves no line now.

*Keyboard.* The daemon checks the pid file and writes it only 1.2 s later, so the file is
wrong in between. `FileInv` holds whatever overlaps: the file names a daemon that serves or a dead
process, so that a refused start has one that serves. Until two starts have overlapped more is true
(`SoleLaw`): there is one daemon at most between its check and its end, and when it serves the file is
its own. A step that makes no second daemon keeps that (`Keeps`), since only the dying daemon
takes the file away and only one that comes up writes it; a start that looks while the file names a
serving daemon is refused. `TypeCorrect` needs the length of the menu (`RowsAre`) and that its rows come
and go only while it is closed and the selection at the top (`MenuTypes`).

`RightRow` speaks of one enter; `RowInv`, which holds until two starts have overlapped, of every process
at every key. A line to a row is
F12, some steps one way, and enter. Once begun it is either `Aimed`, the steps still to be
typed lead from the selection to the row whatever the debug rows are, or it goes to a closed menu,
which ignores it (`KeysLaw`, `DaemonLaw`). What makes a line begin in the right state is that the
operator's belief is right when nobody types (`SyncLaw`), that a command has the keyboard to itself
(`AloneLaw`) and that lines are sent only while the menu is taken to be closed (`FlightLaw`). After
a fault belief may be wrong for good: what remains true (`Trust`) is that it is right before the
fault, or when the fault was only that Main did not open the daemon's keyboard, for then
nothing the daemon types arrives. A line begun with the wrong belief lands in a
closed menu, and that is harmless. A second fault can type half of a line into a menu
that the first left open, and finding 6 is that case, so `MaxFaults <= 1` is needed. `Reachable`
says that the rows asked for are where the map counts them from; finding 5 is a row that is not.
`MCOsd` asserts it of its targets. The number of processes, of lines and of targets is any.

*Harness.* `RightTitle` speaks of the moment a line is written, when it is too late to know
why the core is the right one. `IInv` follows the one load_core there may be. `Loading`:
during the wait the pid is still the old one and at most this command is on its way, or
the pid has changed, the command is gone and the core is the title's. `Idle`: nothing is
on its way before an attempt and after a change. Then `Own`, the core while measuring, and
after the warm-up its telemetry, are the title's. `Shooting` does the same for the
screenshot: it is this capture's, or it has been taken and every new file is. The proof has
one lemma per action and one step per part of `IInv`. It holds for any lists of titles,
any of them missing, and any limits; it assumes `Prompt`.
`SurvivalIsRight` is crashrate's loop: `Counted` says that `last_change` is the last change
and `static` the polls since, and that a change which `DEAD_POLLS` static polls follow is
the last one, since the watch ends there; so there is at most one to report.

*Edit scripts.* TLC runs the repository's scripts, each twice, with one death; the theorems hold for
any scripts that keep the rules of `EditRules`, any families of them, any number of runs and of
deaths. The ground is what a list of edits does to a file. `Edited` is a recursive function of the
list, and the library's induction over numbers cannot be instantiated here; so a set of numbers
without a least element stands in for it (`Least`, from `WFMin`; `Upwards`), and every text that
`Edited` returns gets a history, one replacement per edit (`EditedTrace`). The copies of a mark are
counted along it (`Rises`, `Falls`), and `Changes` sums up what a part leaves: which marks stay, come
and go, and how many of each. From there on no edit is looked at singly but the one that widens
`tel_pend` (`HistoryWidens`).

`EditInv` is the invariant. `TopWhole`: the connection list has one end, no telemetry wire belongs to a
beat behind that end, and no wire has two drivers; so a script that carries the list on brings only wires
the tree does not have, and any other must take out the wire it replaces, or refuses. `DdrWhole`: no
telemetry, or that of n beats; the anchor Load(k) or the idle state makes a script for k beats refuse
all other trees. `PutIn`: what the running script's earlier files gained of ports and connections is
still there, hence `NeedsMet`: whatever a mark needs in another file is there, or that file was
cut. `EndedAll`: what a script that has ended gained of ports is there, which is the second half of
`NoDangling`. `ChainInv`: the end of the port list that a script of the chain leaves is in `s32x_ddr.sv` only
when the scripts up to it have ended, and the next script looks for it. A cut file is an empty bag: it is
whole, and no script finds an anchor in it. The properties are not inductive without these.
Before the proof TLC checked `EditInv` along 235 thousand states of `MCEditScripts`.

Only model-checked: liveness (`FirstTwoServed`, `SubServed`, `TransferEnds`, `Served`, `Drained`,
`Finishes`), since fairness and ENABLED are beyond the prover. Every other property of a passing run has
its theorem, those of `PrgPort`, `Osd` and `Harness` under the hypotheses in the table.

## 5. Findings

1. `cdc_wedge`: FF8004 written in the clock of DS_WRITE (`ASIC.vhd:501`): the branch
   overrides the forced DS_IDLE and the transfer never ends.

The passing runs stay inside limits at which the code does break. Each of these is found
within a few minutes by changing the constants or checking the property named:

2. `Toggles = 1`, `EnFirst = {FALSE}`, `Lines = 3`, `Boot = 1`, `Lanes = {"l"}` in `MCPrgPort.cfg`:
   turning the PRG-RAM cache on while a write waits for the SDRAM loses the write, since
   `busy_int` is up throughout S_INIT (`prg_cache.sv:187`); `Settled` is violated.
3. `ResetsCache = {FALSE}` there: a download resets the gate array and not the
   cache (`MegaCD.sv:1316` against 601). The cache keeps the withdrawn write and stores it as
   valid when the next one finishes; `Settled` is violated.
4. The last step of a CPU transfer may override the address an FF8004 or FF800A write has just
   set (`ASIC.vhd:540`): in `CdcDma`, `addr_set /\ ~addr_set' => dma_addr' = dmaa` is not
   an action property.
5. A target counted from the other end, `[label |-> "Backup RAM", force |-> "none"]`, in
   `MCOsd`: `osd.py select "Backup RAM"` presses enter on "Save Backup RAM". `MAIN_PAGE`
   (`osd.py:100`) has 17 rows; CONF_STR (`MegaCD.sv:172`) has 15 and other ones.
6. `MaxFaults = 2` in `MCOsd.cfg`: see the bounds above.
7. `Prompt = FALSE` in `MCHarness.cfg`: a load_core taken after its 8 s reloads the core in the
   middle of a measurement, or is taken for the next title's; `RightTitle` is violated. `sweeptest.py:2` says
   "prove each load" and lines 11-13 that every load waits for MiSTer's pid to change: it does, but the
   pid does not tell which of two loads changed it.
8. `OneAtATime` without `late \/`, that is `~(prms \in {"wait", "read", "write"} /\ prss \in {"wait", "read",
   "write", "dma_wait", "dma_write"})` as an invariant of `prg_port`: a DMA word and the sub-CPU's read after
   it are both put off, 22 clk_ram in all, and PRMS, which looks neither at PRSS nor at `busy`
   (`ASIC.vhd:1463`), issues the main CPU's access 28 clk_sys after BUSREQ while the read is on its way.
   `sdram.sv` does not exclude such waits: 13 is what `FrontInTime` allows for one access, with `prg_first`
   and a refresh; without it there is no bound.
9. `conf_bits.py` keeps one owner of each status bit (`setdefault`), so that it does not report
   bit 36, claimed by "Disc Insert" and "MCD PRG cache", and bit 38, by "Eject Disc" and "PRG
   cache hits" (`MegaCD.sv:176,236,237,248`). Read, not modelled.
10. `Prompt = FALSE` in `MCHarness.cfg`, with the invariant `report.says = "captured" => report.screen =
   report.dump`: a screenshot that comes after its 3 s is the new file of the next capture and is filed
   beside its dump (`ntsweep.py:71`). `ntshot.py:2` says "Capture the 32X frame buffer and the screen at
   the same instant". With `Prompt = TRUE` it holds.
11. The invariant `report.says = "swept" /\ report.title \in Moving => report.frames # 1` in `MCHarness`,
   also with `Prompt = TRUE`: one of the two screenshots is missed, the line counts one frame of a title
   that moves (`sweeptest.py:69`), which `sweeptest.py:9` explains as "1 = frozen".
12. `LowerFirst` for two more connections, as invariants of `edit_scripts`: `Has("MegaCD.sv",
   Map("prg_first")) => Has("sdram.sv", Port("prg_first"))` and `Has("32X.sv", Map("DBG_STATE")) =>
   Has("IF.sv", Port("DBG_STATE"))`. phase21 and phase2_sh2_probe write the upper file first; refused or
   killed in between they leave a connection without its port, and for good: run again, each is refused
   at its first file, whose anchor is gone. So `Path` holds the connections whose port is written first,
   and of the others `NoDangling` says (`Delivered`) that they have their port once the script has ended.
13. `Cardinality(Readers) <= 1` in `MCOsd`, without a fault: two daemons started less than 1.2 s apart
   both look for the pid file before either writes it (`uinput_kbd.py:115` and 122) and both serve the
   FIFO; the first that is interrupted unlinks the file of the other (line 142). The comment at
   `uinput_kbd.py:108` says "Exactly one daemon". `RightRow` without `~ overlapped` fails in the same way: two
   lines typed by two daemons at once.

## 6. Plan

Done: `Sdram`, `PrgPort`, `CdcDma`, `S32xDdr`, the tools, and the proofs above. Next, in this
order:

1. `RomArbiter`: RS_* of `IF.sv` 804-967, the strobe mux and `cart.sv`, against port 0 as
   `Sdram` promises it. No stale word; no endless wait on a cycle nothing answers; an SH-2
   request whose edge a raw 68000 strobe hides.
2. `FrameBuffer`: `VDP.sv` 99-268 and 551-562 with the FM arbitration of `IF.sv` 981-1053,
   against the draw port as `S32xDdr` promises it. Each write lands once, in the bank FS
   named when it was made; fills and queued writes; reads across refresh.
3. `DreqFifo`: `IF.sv` 371-383, 485-498, 602-683 with channel 0 of `DMAC.sv`; every word once
   and in order while software respects FULL; each full bank is requested.
4. `WordRam` and `McdInts`: ownership and arbiters of the word RAM; pending bits.
5. `Pwm`, `S32xInts`, `VdpSync`: smaller, one hazard each.

Proofs: the safety of the new modules. `OnePort` is there for `RomArbiter` too. `Budget`
could be larger by what the text on `PrgPort` names: a DMA word under way at BUSREQ is a write, shorter
than a read, and `HaltLag` of it is over when `Rank` begins to count.

## 7. Not modelled

The greyed rows and sub-pages of the menu, `osd.py shot`, ntshot's `running` mode, boottest and
verifrun (the same load loop; boottest reads telemetry at once, without a warm-up, so that its
first lines are those of the core before), the readers and viewers. A script's replacement
texts are marks: whether the RTL they make is right is the other modules' question.

Data paths (rendering, sound synthesis, the rotation engine, pixel priority), the
instruction sets of the five CPUs, the chip's command encoding, OSD and video glue, and
everything third-party. The reasons are with each component in `PROJECT.json`.
