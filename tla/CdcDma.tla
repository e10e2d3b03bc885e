------------------------------- MODULE CdcDma -------------------------------
(***************************************************************************)
(* The host side of a Mega CD sector transfer.  The CDC (CDC.vhd, TS) puts *)
(* one byte at a time on its host port and counts DBC down; the gate array *)
(* (ASIC.vhd, DS) takes the bytes, pairs them into words and hands them to *)
(* the destination chosen by FF8004: a CPU that reads the host data        *)
(* register, or the DMA side of PRG-RAM, word RAM or PCM RAM.              *)
(*                                                                         *)
(* The two machines share a clock and a strobe/wait handshake.  The gate   *)
(* array moves in every clock, the CDC only where the sub-CPU's own        *)
(* clock has an edge (CLKEN_N, CLKEN_P), four or five apart: here at any   *)
(* distance, so that DS may pass through several states between two steps   *)
(* of TS.  Tick is a clock with such an edge, OffTick one without.  CPUs    *)
(* and memories act between clocks, at any distance.                       *)
(* The active-low signals WAIT_N, DTEN_N, DTBSY and DTEI are named for     *)
(* what they say when low.                                                 *)
(***************************************************************************)
EXTENDS Integers, Sequences

CONSTANTS Dests,         \* values of DD in use
          Lengths,       \* bytes of a transfer, DBC + 1
          Starts,        \* what is written to FF800A
          Size,          \* the range of DMA_ADDR
          MaxTransfers, MaxRetargets, MaxAborts, MaxResets     \* bounds

Hosts    == {"main", "sub"}
Memories == {"pcm", "prg", "wram"}                \* DD(2) = 1

ASSUME DestAssumption == Dests \subseteq Hosts \cup Memories \cup {"none"} /\ Dests # {}
ASSUME SizeAssumption == /\ Size \in Nat \ {0} /\ Starts \subseteq 0 .. Size - 1
                         /\ Lengths \subseteq Nat \ {0}
ASSUME BoundAssumption == {MaxTransfers, MaxRetargets, MaxAborts, MaxResets} \subseteq Nat

VARIABLES
  douten, dt_en, ts, wait, dten, busy, dtei, dbc, dac, fifo,           \* the CDC
  ds, hrd, edt, dsr, old_dten, dma_addr, dma_byte, dma_dat, dma_run, hd,   \* the gate array
  dd, dmaa, addr_set, edt_clr, cpu_read,                               \* its registers
  run,                                                                 \* the memories
  polled,                                                              \* the host CPU
  transfers, retargets, aborts, resets,
  out, clean, first, length, flag                                      \* history

cdc  == <<douten, dt_en, ts, wait, dten, busy, dtei, dbc, dac, fifo>>
ga   == <<ds, hrd, edt, dsr, old_dten, dma_addr, dma_byte, dma_dat, dma_run, hd>>
regs == <<dd, dmaa, addr_set, edt_clr, cpu_read>>
used == <<transfers, retargets, aborts, resets>>
past == <<out, clean, first, length, flag>>
vars == <<cdc, ga, regs, run, polled, used, past>>

-----------------------------------------------------------------------------
(* The CDC: EN is a clock with CLKEN_N or CLKEN_P, and TS steps in every   *)
(* second of those while DOUTEN is set.                                    *)
CdcIdle ==
  /\ ts = "idle"
  /\ IF busy THEN wait' = FALSE /\ ts' = "wait" ELSE UNCHANGED <<wait, ts>>
  /\ UNCHANGED <<dten, busy, dtei, dbc, dac, fifo>>

CdcWait == ts = "wait" /\ ts' = "fifo" /\ UNCHANGED <<wait, dten, busy, dtei, dbc, dac, fifo>>

CdcFifo ==
  /\ ts = "fifo"
  /\ fifo' = dac /\ dac' = dac + 1 /\ dten' = TRUE /\ ts' = "send_wait"
  /\ UNCHANGED <<wait, busy, dtei, dbc>>

CdcSendWait ==
  /\ ts = "send_wait"
  /\ IF hrd THEN wait' = TRUE /\ ts' = "send" ELSE UNCHANGED <<wait, ts>>
  /\ UNCHANGED <<dten, busy, dtei, dbc, dac, fifo>>

CdcSend_OneMore ==       \* DBC bytes and two, not one, more
  /\ ts = "send"
  /\ IF hrd THEN UNCHANGED <<wait, dten, busy, dtei, dbc, ts>>
     ELSE /\ wait' = FALSE /\ dbc' = dbc - 1
          /\ IF dbc = -1
             THEN dten' = FALSE /\ busy' = FALSE /\ dtei' = TRUE /\ ts' = "idle"
             ELSE ts' = "wait" /\ UNCHANGED <<dten, busy, dtei>>
  /\ UNCHANGED <<dac, fifo>>

CdcSend ==
  /\ ts = "send"
  /\ IF hrd THEN UNCHANGED <<wait, dten, busy, dtei, dbc, ts>>
     ELSE /\ wait' = FALSE
          /\ IF dbc = 0
             THEN /\ dten' = FALSE /\ busy' = FALSE /\ dtei' = TRUE
                  /\ ts' = "idle" /\ UNCHANGED dbc
             ELSE dbc' = dbc - 1 /\ ts' = "wait" /\ UNCHANGED <<dten, busy, dtei>>
  /\ UNCHANGED <<dac, fifo>>

CdcStep ==
  /\ IF douten /\ dt_en
     THEN CdcIdle \/ CdcWait \/ CdcFifo \/ CdcSendWait \/ CdcSend
     ELSE UNCHANGED <<ts, wait, dten, busy, dtei, dbc, dac, fifo>>
  /\ dt_en' = ~dt_en /\ UNCHANGED douten

CdcHolds == UNCHANGED cdc                          \* a clock without EN

(* DTTRG, with the DBC written before it; the clock is no TS step.         *)
CdcTrigger(n) ==
  /\ dbc' = n - 1 /\ busy' = (busy \/ douten)
  /\ dt_en' = ~dt_en /\ UNCHANGED <<douten, ts, wait, dten, dtei, dac, fifo>>

(* DTACK; the TS machine is idle when software gives it.                   *)
CdcAck ==
  /\ dtei' = FALSE
  /\ dt_en' = ~dt_en /\ UNCHANGED <<douten, ts, wait, dten, busy, dbc, dac, fifo>>

(* IFCTRL with DOUTEN clear, or R15; WAIT_N keeps the value it has.        *)
CdcAbort ==
  /\ douten' = FALSE /\ busy' = FALSE /\ dten' = FALSE /\ dtei' = FALSE /\ ts' = "idle"
  /\ dt_en' = ~dt_en /\ UNCHANGED <<wait, dbc, dac, fifo>>

CdcEnable ==
  /\ douten' = TRUE
  /\ dt_en' = ~dt_en /\ UNCHANGED <<ts, wait, dten, busy, dtei, dbc, dac, fifo>>

(* A peripheral reset (FF8000) resets the CDC, not the gate array's DMA.   *)
CdcReset ==
  /\ douten' = FALSE /\ dt_en' = FALSE /\ ts' = "idle" /\ wait' = TRUE
  /\ dten' = FALSE /\ busy' = FALSE /\ dtei' = FALSE /\ dbc' = 0 /\ dac' = 0 /\ fifo' = 0

-----------------------------------------------------------------------------
(* The gate array.  A written address (addr_set) is applied first, and the *)
(* machine's own assignments of the same clock override it.                *)
Running(m) == run[m] # "no"          \* PR_DMA_RUN, WR_DMA_RUN, PCM_DMA_RUN
ended == ~dten /\ old_dten

GivenDs   == ds'       = IF addr_set THEN "idle" ELSE ds
GivenHrd_Held == hrd' = hrd                        \* the strobe stays when DS is forced
GivenHrd  == hrd'      = (hrd /\ ~addr_set)
GivenByte_Kept == dma_byte' = dma_byte             \* an odd transfer leaves it set
GivenByte == dma_byte' = (dma_byte /\ ~addr_set)
GivenAddr == dma_addr' = IF addr_set THEN dmaa ELSE dma_addr
GivenEdt_Live == edt' = ~dten                      \* no latch
GivenEdt  == edt'      = (ended \/ (edt /\ ~edt_clr))
GivenDsr  == dsr'      = (dsr /\ ~edt_clr)
NextAddr  == dma_addr' = (dma_addr + 1) % Size

DsIdle ==
  /\ ds = "idle"
  /\ IF dten
     THEN /\ edt' = FALSE /\ GivenDsr
          /\ IF wait THEN GivenHrd /\ GivenDs /\ UNCHANGED dma_run
             ELSE hrd' = TRUE /\ ds' = "cdc_read" /\ dma_run' = (dd \in Memories)
     ELSE /\ GivenEdt /\ GivenHrd /\ GivenDs
          /\ dma_run' = FALSE
          /\ dsr' = (dsr /\ ~edt_clr /\ ~(dma_run /\ dd \in Memories))
  /\ GivenByte /\ GivenAddr /\ UNCHANGED <<dma_dat, hd>>

DsCdcRead ==
  /\ ds = "cdc_read"
  /\ IF ~wait THEN GivenHrd /\ GivenDs /\ GivenByte /\ GivenDsr /\ UNCHANGED dma_dat
     ELSE /\ hrd' = FALSE
          /\ IF ~dma_byte /\ dd # "pcm"
             THEN /\ dma_dat' = [dma_dat EXCEPT ![1] = fifo] /\ dma_byte' = TRUE
                  /\ ds' = "idle" /\ GivenDsr
             ELSE /\ dma_dat' = [dma_dat EXCEPT ![2] = fifo] /\ dma_byte' = FALSE
                  /\ ds' = "write" /\ dsr' = TRUE
  /\ GivenAddr /\ GivenEdt /\ UNCHANGED <<dma_run, hd>>

DsWrite_Unasked ==       \* goes on without the memory's answer
  /\ ds = "write"
  /\ IF dd \in Hosts THEN hd' = dma_dat ELSE UNCHANGED hd
  /\ ds' = IF dd = "none" THEN "idle" ELSE "write_wait"
  /\ GivenAddr /\ GivenByte /\ GivenHrd /\ GivenEdt /\ GivenDsr /\ UNCHANGED <<dma_dat, dma_run>>

DsWrite ==
  /\ ds = "write"
  /\ IF dd \in Hosts THEN hd' = dma_dat /\ ds' = "write_wait"
     ELSE /\ UNCHANGED hd
          /\ IF dd = "none" THEN ds' = "idle"
             ELSE IF Running(dd) THEN ds' = "write_wait" ELSE GivenDs
  /\ GivenAddr /\ GivenByte /\ GivenHrd /\ GivenEdt /\ GivenDsr /\ UNCHANGED <<dma_dat, dma_run>>

DsWriteWait ==
  /\ ds = "write_wait"
  /\ CASE dd \in Hosts /\ cpu_read[dd]  -> ds' = "idle" /\ dsr' = FALSE /\ GivenAddr
       [] dd \in Memories /\ ~Running(dd) -> ds' = "idle" /\ GivenDsr /\ NextAddr
       [] dd = "none"                   -> ds' = "idle" /\ GivenDsr /\ GivenAddr
       [] OTHER                         -> GivenDs /\ GivenDsr /\ GivenAddr
  /\ GivenByte /\ GivenHrd /\ GivenEdt /\ UNCHANGED <<dma_dat, dma_run, hd>>

GateArray ==
  /\ DsIdle \/ DsCdcRead \/ DsWrite \/ DsWriteWait
  /\ old_dten' = dten
  /\ addr_set' = FALSE /\ edt_clr' = FALSE
  /\ cpu_read' = [c \in Hosts |-> cpu_read[c] /\ ds # "idle"]
  /\ UNCHANGED <<dd, dmaa>>

(* The memories' arbiters: a word offered by DS_WRITE is taken, with its   *)
(* address, at any time, and the access lasts a clock or more.             *)
Record(x) == out' = IF clean = "running" THEN Append(out, x) ELSE out
MemoryTakes(m) ==
  /\ ds = "write" /\ dd = m /\ ~Running(m)
  /\ run' = [run EXCEPT ![m] = "new"] /\ Record([to |-> dd, a |-> dma_addr, w |-> dma_dat])
  /\ UNCHANGED <<cdc, ga, regs, polled, used, clean, first, length, flag>>

MemoryEnds(m) ==
  /\ run[m] = "on" /\ run' = [run EXCEPT ![m] = "no"]
  /\ UNCHANGED <<cdc, ga, regs, polled, used, past>>

-----------------------------------------------------------------------------
(* Software.  A host polls DSR and reads the data register in a later bus  *)
(* cycle; a register write or read has taken effect by the next one.       *)
HostPoll ==
  /\ dd \in Hosts /\ dsr /\ polled = "no" /\ polled' = "asked"
  /\ ~addr_set /\ \A c \in Hosts : ~cpu_read[c]
  /\ UNCHANGED <<cdc, ga, regs, run, used, past>>

HostRead ==
  /\ dd \in Hosts /\ polled = "yes" /\ polled' = "no"
  /\ cpu_read' = [cpu_read EXCEPT ![dd] = TRUE]
  /\ Record([to |-> dd, a |-> 0, w |-> hd])
  /\ UNCHANGED <<cdc, ga, dd, dmaa, addr_set, edt_clr, run, used, clean, first, length, flag>>

(* At rest the last transfer is over and its last word has been taken:     *)
(* software comes many clocks after the CDC's last step.                   *)
AtRest == /\ ~busy /\ ~ended /\ polled = "no"
          /\ ds = "idle" \/ (ds = "write_wait" /\ dd \in Hosts) \/ (ds = "cdc_read" /\ ~wait)
          /\ \A m \in Memories : ~Running(m)
          /\ \A c \in Hosts : ~cpu_read[c]

Retargets == \/ AtRest /\ UNCHANGED retargets
             \/ ~AtRest /\ retargets < MaxRetargets /\ retargets' = retargets + 1

(* FF8004 and FF800A written: a new destination, a new address.  clean     *)
(* says that a transfer was set up at rest and not disturbed since, with   *)
(* no word or DSR left over from the one before (FF800A leaves DSR alone); *)
(* flag says what EDT has to tell: armed, no transfer has ended since;     *)
(* done, one has.                                                          *)
SetDd(d) ==
  /\ ~addr_set /\ Retargets
  /\ dd' = d /\ dmaa' = 0 /\ addr_set' = TRUE /\ edt_clr' = TRUE
  /\ clean' = (IF AtRest /\ ds # "write_wait" THEN "ready" ELSE "no")
  /\ flag' = (IF AtRest THEN "armed" ELSE "unknown")
  /\ UNCHANGED <<cdc, ga, cpu_read, run, polled, transfers, aborts, resets, out, first, length>>

SetAddr(a) ==
  /\ ~addr_set /\ Retargets
  /\ dmaa' = a /\ addr_set' = TRUE
  /\ clean' = (IF AtRest /\ ds # "write_wait" /\ (clean = "ready" \/ ~dsr)
               THEN "ready" ELSE "no")
  /\ UNCHANGED <<cdc, ga, dd, edt_clr, cpu_read, run, polled, transfers, aborts, resets,
                 out, first, length, flag>>

-----------------------------------------------------------------------------
(* One clock: the gate array's machine and, with EN, one step of the CDC's,*)
(* which is a register write when the sub-CPU makes one.                   *)
Clock ==
  /\ GateArray
  /\ run' = [m \in Memories |-> IF run[m] = "new" THEN "on" ELSE run[m]]
  /\ polled' = IF polled = "asked" THEN "yes" ELSE polled

Tick ==
  /\ Clock /\ CdcStep
  /\ flag' = IF dten /\ ~dten' /\ flag = "armed" THEN "done" ELSE flag
  /\ UNCHANGED <<used, out, clean, first, length>>

OffTick == Clock /\ CdcHolds /\ UNCHANGED <<used, past>>

Trigger(n) ==
  /\ douten /\ ~busy /\ transfers < MaxTransfers
  /\ Clock /\ CdcTrigger(n)
  /\ transfers' = transfers + 1 /\ first' = dac /\ length' = n /\ out' = <<>>
  /\ clean' = IF clean = "ready" THEN "running" ELSE "no"
  /\ flag'  = IF flag = "armed" THEN "armed" ELSE "unknown"
  /\ UNCHANGED <<retargets, aborts, resets>>

Ack ==
  /\ ~busy /\ dtei /\ Clock /\ CdcAck /\ UNCHANGED <<used, past>>

Disturbed == clean' = "no" /\ flag' = "unknown" /\ UNCHANGED <<out, first, length>>

Abort ==
  /\ aborts < MaxAborts /\ aborts' = aborts + 1
  /\ Clock /\ CdcAbort /\ Disturbed /\ UNCHANGED <<transfers, retargets, resets>>

Enable ==
  /\ ~douten /\ Clock /\ CdcEnable /\ UNCHANGED <<used, past>>

PeripheralReset ==
  /\ resets < MaxResets /\ resets' = resets + 1
  /\ Clock /\ CdcReset /\ Disturbed /\ UNCHANGED <<transfers, retargets, aborts>>

Init ==
  /\ douten = FALSE /\ dt_en = FALSE /\ ts = "idle" /\ wait = TRUE
  /\ dten = FALSE /\ busy = FALSE /\ dtei = FALSE /\ dbc = 0 /\ dac = 0 /\ fifo = 0
  /\ ds = "idle" /\ hrd = FALSE /\ edt = FALSE /\ dsr = FALSE /\ old_dten = FALSE
  /\ dma_addr = 0 /\ dma_byte = FALSE /\ dma_dat = <<0, 0>> /\ dma_run = FALSE /\ hd = <<0, 0>>
  /\ dd \in Dests /\ dmaa = 0 /\ addr_set = FALSE /\ edt_clr = FALSE
  /\ cpu_read = [c \in Hosts |-> FALSE] /\ run = [m \in Memories |-> "no"] /\ polled = "no"
  /\ transfers = 0 /\ retargets = 0 /\ aborts = 0 /\ resets = 0
  /\ out = <<>> /\ clean = "no" /\ first = 0 /\ length = 0 /\ flag = "unknown"

Next ==
  \/ Tick \/ OffTick \/ Ack \/ Abort \/ Enable \/ PeripheralReset \/ HostPoll \/ HostRead
  \/ \E n \in Lengths : Trigger(n)
  \/ \E m \in Memories : MemoryTakes(m) \/ MemoryEnds(m)
  \/ \E d \in Dests : SetDd(d)
  \/ \E a \in Starts : SetAddr(a)

(* The sub-CPU's clock goes on; a host that polls goes on polling and      *)
(* reads; each memory serves the word it is offered and finishes.          *)
Fairness == /\ WF_vars(Tick) /\ WF_vars(HostPoll) /\ WF_vars(HostRead)
            /\ \A m \in Memories : WF_vars(MemoryTakes(m)) /\ WF_vars(MemoryEnds(m))

Spec == Init /\ [][Next]_vars /\ Fairness

-----------------------------------------------------------------------------
TypeOK ==
  /\ {douten, dt_en, wait, dten, busy, dtei} \subseteq BOOLEAN
  /\ ts \in {"idle", "wait", "fifo", "send_wait", "send"} /\ {dbc, dac, fifo} \subseteq Nat
  /\ ds \in {"idle", "cdc_read", "write", "write_wait"}
  /\ {hrd, edt, dsr, old_dten, dma_byte, dma_run, addr_set, edt_clr} \subseteq BOOLEAN
  /\ dma_addr \in 0 .. Size - 1 /\ dmaa \in 0 .. Size - 1
  /\ dma_dat \in Nat \X Nat /\ hd \in Nat \X Nat /\ dd \in Dests
  /\ cpu_read \in [Hosts -> BOOLEAN] /\ run \in [Memories -> {"no", "new", "on"}]
  /\ polled \in {"no", "asked", "yes"}
  /\ clean \in {"no", "ready", "running"} /\ flag \in {"unknown", "armed", "done"}

(* A transfer set up at rest reaches its destination word by word: the     *)
(* bytes in the order the CDC sent them, the addresses one after another   *)
(* from the one written, no byte paired with one of an earlier transfer.   *)
Expected(k) ==
  [to |-> dd, a |-> IF dd \in Hosts THEN 0 ELSE (dmaa + k - 1) % Size,
   w |-> IF dd = "pcm" THEN <<out[k].w[1], first + k - 1>>
         ELSE <<first + 2 * k - 2, first + 2 * k - 1>>]
Words == CASE dd = "none" -> 0 [] dd = "pcm" -> length [] OTHER -> length \div 2

InOrder == clean = "running" =>
             Len(out) <= Words /\ \A k \in 1 .. Len(out) : out[k] = Expected(k)

(* When both machines have come to rest the whole transfer is there.       *)
NoneLost == clean = "running" /\ AtRest /\ ds = "idle" => Len(out) = Words

(* A transfer arrives whole, each byte once and in its place.              *)
Delivered == InOrder /\ NoneLost

(* EDT, which software polls, stays clear from the FF8004 write until a    *)
(* transfer has ended, and then stays set.                                 *)
EdtTells == /\ flag = "armed" /\ ~edt_clr => ~edt
            /\ flag = "done" /\ ~ended => edt

(* The documented deadlock: the CDC holds WAIT until the strobe is dropped, *)
(* the gate array holds the strobe and waits in DS_IDLE for WAIT to go.    *)
NoMutualWait == ~(ts = "send" /\ hrd /\ ds = "idle" /\ wait)

(* A transfer ends, whatever is rewritten in the middle of it: the two     *)
(* machines never wait for each other.                                     *)
TransferEnds == busy ~> ~busy
=============================================================================
