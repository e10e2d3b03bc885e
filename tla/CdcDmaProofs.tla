---------------------------- MODULE CdcDmaProofs ----------------------------
(***************************************************************************)
(* The types of CdcDma and the freedom from its documented deadlock, for   *)
(* every set of destinations, lengths and addresses and every bound.       *)
(***************************************************************************)
EXTENDS CdcDma, TLAPS

(* What the CDC's registers may hold, and what the gate array's may: the   *)
(* flags apart from the numbers and states.                                *)
CdcFlags ==
  /\ douten \in BOOLEAN /\ dt_en \in BOOLEAN /\ wait \in BOOLEAN
  /\ dten \in BOOLEAN /\ busy \in BOOLEAN /\ dtei \in BOOLEAN
CdcNumbers ==
  /\ dbc \in Nat /\ dac \in Nat /\ fifo \in Nat
  /\ ts \in {"idle", "wait", "fifo", "send_wait", "send"}
CdcTyped == CdcFlags /\ CdcNumbers
GaFlags ==
  /\ hrd \in BOOLEAN /\ edt \in BOOLEAN /\ dsr \in BOOLEAN /\ old_dten \in BOOLEAN
  /\ dma_byte \in BOOLEAN /\ dma_run \in BOOLEAN
GaNumbers ==
  /\ ds \in {"idle", "cdc_read", "write", "write_wait"}
  /\ dma_addr \in 0 .. Size - 1 /\ dma_dat \in Nat \X Nat /\ hd \in Nat \X Nat
GaTyped == GaFlags /\ GaNumbers
RegsTyped ==
  /\ dd \in Dests /\ dmaa \in 0 .. Size - 1 /\ addr_set \in BOOLEAN /\ edt_clr \in BOOLEAN
  /\ cpu_read \in [Hosts -> BOOLEAN]
RestTyped ==
  /\ run \in [Memories -> {"no", "new", "on"}] /\ polled \in {"no", "asked", "yes"}
  /\ clean \in {"no", "ready", "running"} /\ flag \in {"unknown", "armed", "done"}

(* The parts are the type invariant.                                       *)
LEMMA Parts == TypeOK <=> CdcTyped /\ GaTyped /\ RegsTyped /\ RestTyped
  BY DEF TypeOK, CdcTyped, CdcFlags, CdcNumbers, GaTyped, GaFlags, GaNumbers, RegsTyped, RestTyped

(* A register write of the CDC keeps its types.                            *)
LEMMA CdcWrites ==
  ASSUME CdcTyped,
         (\E n \in Lengths : CdcTrigger(n)) \/ CdcAck \/ CdcAbort \/ CdcEnable \/ CdcReset
  PROVE  CdcTyped'
<1>1. \A n \in Lengths : n - 1 \in Nat
  BY SizeAssumption
<1>2. CdcFlags'
  BY Zenon DEF CdcTyped, CdcFlags, CdcTrigger, CdcAck, CdcAbort, CdcEnable, CdcReset
<1>3. CdcNumbers'
  BY <1>1 DEF CdcTyped, CdcNumbers, CdcTrigger, CdcAck, CdcAbort, CdcEnable, CdcReset
<1>4. QED  BY <1>2, <1>3 DEF CdcTyped

(* So does a step of its transfer machine.                                 *)
LEMMA CdcSteps ==
  ASSUME CdcTyped, CdcStep
  PROVE  CdcTyped'
<1>1. CdcFlags'
  <2>1. douten' \in BOOLEAN /\ dt_en' \in BOOLEAN
    BY Zenon DEF CdcTyped, CdcFlags, CdcStep
  <2>2. wait' \in BOOLEAN /\ dten' \in BOOLEAN
    BY Zenon DEF CdcTyped, CdcFlags, CdcStep, CdcIdle, CdcWait, CdcFifo, CdcSendWait, CdcSend
  <2>3. busy' \in BOOLEAN /\ dtei' \in BOOLEAN
    BY Zenon DEF CdcTyped, CdcFlags, CdcStep, CdcIdle, CdcWait, CdcFifo, CdcSendWait, CdcSend
  <2>4. QED  BY <2>1, <2>2, <2>3 DEF CdcFlags
<1>2. CdcNumbers'
  <2>1. CASE CdcSend
    <3>1. dbc \in Nat => dbc = 0 \/ dbc - 1 \in Nat
      OBVIOUS
    <3>2. QED  BY <2>1, <3>1 DEF CdcTyped, CdcNumbers, CdcSend
  <2>2. CASE CdcIdle \/ CdcWait \/ CdcFifo \/ CdcSendWait
    BY <2>2 DEF CdcTyped, CdcNumbers, CdcIdle, CdcWait, CdcFifo, CdcSendWait
  <2>3. CASE UNCHANGED <<ts, wait, dten, busy, dtei, dbc, dac, fifo>>
    BY <2>3 DEF CdcTyped, CdcNumbers
  <2>4. QED  BY <2>1, <2>2, <2>3 DEF CdcStep
<1>3. QED  BY <1>1, <1>2 DEF CdcTyped

(* The gate array's machine keeps its types in each of its states.         *)
LEMMA GaSteps ==
  ASSUME GaTyped, RegsTyped, CdcTyped, DsIdle \/ DsCdcRead \/ DsWrite \/ DsWriteWait,
         old_dten' = dten
  PROVE  GaTyped'
<1>1. hrd' \in BOOLEAN /\ edt' \in BOOLEAN
  BY Zenon DEF GaTyped, GaFlags, RegsTyped, CdcTyped, CdcFlags, DsIdle, DsCdcRead, DsWrite,
     DsWriteWait, GivenHrd, GivenEdt, ended
<1>2. dma_byte' \in BOOLEAN /\ dma_run' \in BOOLEAN
  <2>1. dma_byte' \in BOOLEAN
    BY Zenon DEF GaTyped, GaFlags, DsIdle, DsCdcRead, DsWrite, DsWriteWait, GivenByte
  <2>2. dma_run' \in BOOLEAN
    <3>1. dma_run' = dma_run \/ dma_run' = FALSE \/ dma_run' = (dd \in Memories)
      BY DEF DsIdle, DsCdcRead, DsWrite, DsWriteWait
    <3>2. (dd \in Memories) \in BOOLEAN
      OBVIOUS
    <3>3. dma_run \in BOOLEAN /\ FALSE \in BOOLEAN
      BY DEF GaTyped, GaFlags
    <3>4. QED  BY <3>1, <3>2, <3>3
  <2>3. QED  BY <2>1, <2>2
<1>3. dsr' \in BOOLEAN /\ old_dten' \in BOOLEAN
  BY Zenon DEF GaTyped, GaFlags, CdcTyped, CdcFlags, DsIdle, DsCdcRead, DsWrite, DsWriteWait, GivenDsr
<1>4. ds' \in {"idle", "cdc_read", "write", "write_wait"}
  BY DEF GaTyped, GaNumbers, DsIdle, DsCdcRead, DsWrite, DsWriteWait, GivenDs
<1>5. dma_addr' \in 0 .. Size - 1
  <2>1. dma_addr' = dma_addr \/ dma_addr' = dmaa \/ dma_addr' = (dma_addr + 1) % Size
    BY DEF DsIdle, DsCdcRead, DsWrite, DsWriteWait, GivenAddr, NextAddr
  <2>2. dma_addr \in Nat /\ Size \in Nat \ {0}
    BY SizeAssumption DEF GaTyped, GaNumbers
  <2>3. (dma_addr + 1) % Size \in 0 .. Size - 1
    BY <2>2
  <2>4. QED  BY <2>1, <2>3 DEF GaTyped, GaNumbers, RegsTyped
<1>6. dma_dat' \in Nat \X Nat /\ hd' \in Nat \X Nat
  <2>1. dma_dat' = dma_dat \/ dma_dat' = [dma_dat EXCEPT ![1] = fifo]
                           \/ dma_dat' = [dma_dat EXCEPT ![2] = fifo]
    BY DEF DsIdle, DsCdcRead, DsWrite, DsWriteWait
  <2>2. fifo \in Nat /\ dma_dat \in Nat \X Nat
    BY DEF CdcTyped, CdcNumbers, GaTyped, GaNumbers
  <2>3. [dma_dat EXCEPT ![1] = fifo] \in Nat \X Nat
    BY <2>2
  <2>4. [dma_dat EXCEPT ![2] = fifo] \in Nat \X Nat
    BY <2>2
  <2>5. hd' = hd \/ hd' = dma_dat
    BY DEF DsIdle, DsCdcRead, DsWrite, DsWriteWait
  <2>6. QED  BY <2>1, <2>2, <2>3, <2>4, <2>5 DEF GaTyped, GaNumbers
<1>7. QED  BY <1>1, <1>2, <1>3, <1>4, <1>5, <1>6 DEF GaTyped, GaFlags, GaNumbers

(* One clock of the gate array and of what it synchronises.                *)
LEMMA Clocks ==
  ASSUME GaTyped, RegsTyped, CdcTyped, RestTyped, Clock
  PROVE  /\ GaTyped' /\ RegsTyped'
         /\ (run \in [Memories -> {"no", "new", "on"}] /\ polled \in {"no", "asked", "yes"})'
<1>1. GaTyped'
  BY GaSteps DEF Clock, GateArray
<1>2. RegsTyped'
  BY DEF RegsTyped, Clock, GateArray
<1>3. QED  BY <1>1, <1>2 DEF Clock, RestTyped

(* Every variable keeps its type.                                          *)
THEOREM TypeCorrect == Spec => []TypeOK
<1>1. Init => TypeOK
  <2> SUFFICES ASSUME Init PROVE CdcTyped /\ GaTyped /\ RegsTyped /\ RestTyped
    BY Parts
  <2>1. 0 \in 0 .. Size - 1
    BY SizeAssumption
  <2>2. CdcTyped /\ GaTyped
    BY <2>1 DEF Init, CdcTyped, CdcFlags, CdcNumbers, GaTyped, GaFlags, GaNumbers
  <2>3. RegsTyped /\ RestTyped
    BY <2>1 DEF Init, RegsTyped, RestTyped
  <2>4. QED  BY <2>2, <2>3
<1>2. TypeOK /\ [Next]_vars => TypeOK'
  <2> SUFFICES ASSUME CdcTyped, GaTyped, RegsTyped, RestTyped, [Next]_vars
               PROVE  CdcTyped' /\ GaTyped' /\ RegsTyped' /\ RestTyped'
    BY Parts DEF TypeOK, CdcTyped, CdcFlags, CdcNumbers, GaTyped, GaFlags, GaNumbers,
       RegsTyped, RestTyped
  <2>1. CASE Tick
    BY <2>1, CdcSteps, Clocks DEF Tick, RestTyped, past
  <2>2. ASSUME NEW n \in Lengths, Trigger(n) PROVE CdcTyped' /\ GaTyped' /\ RegsTyped' /\ RestTyped'
    BY <2>2, CdcWrites, Clocks DEF Trigger, RestTyped
  <2>3. CASE Ack \/ Enable
    BY <2>3, CdcWrites, Clocks DEF Ack, Enable, RestTyped, past
  <2>4. CASE Abort \/ PeripheralReset
    BY <2>4, CdcWrites, Clocks DEF Abort, PeripheralReset, Disturbed, RestTyped
  <2>5. ASSUME NEW m \in Memories, MemoryTakes(m) \/ MemoryEnds(m)
        PROVE  CdcTyped' /\ GaTyped' /\ RegsTyped' /\ RestTyped'
    BY <2>5 DEF MemoryTakes, MemoryEnds, CdcTyped, CdcFlags, CdcNumbers, GaTyped, GaFlags, GaNumbers,
       RegsTyped, RestTyped, cdc, ga, regs, past
  <2>6. CASE HostPoll \/ HostRead
    <3>1. CdcTyped' /\ GaTyped'
      BY <2>6 DEF HostPoll, HostRead, CdcTyped, CdcFlags, CdcNumbers, GaTyped, GaFlags, GaNumbers,
         cdc, ga
    <3>2. cpu_read' \in [Hosts -> BOOLEAN]
      BY <2>6 DEF HostPoll, HostRead, RegsTyped, regs
    <3>3. RegsTyped' /\ RestTyped'
      BY <2>6, <3>2 DEF HostPoll, HostRead, RegsTyped, RestTyped, regs, past
    <3>4. QED  BY <3>1, <3>3
  <2>7. ASSUME NEW d \in Dests, SetDd(d) PROVE CdcTyped' /\ GaTyped' /\ RegsTyped' /\ RestTyped'
    BY <2>7, SizeAssumption DEF SetDd, CdcTyped, CdcFlags, CdcNumbers, GaTyped, GaFlags, GaNumbers,
       RegsTyped, RestTyped, cdc, ga
  <2>8. ASSUME NEW a \in Starts, SetAddr(a) PROVE CdcTyped' /\ GaTyped' /\ RegsTyped' /\ RestTyped'
    BY <2>8, SizeAssumption DEF SetAddr, CdcTyped, CdcFlags, CdcNumbers, GaTyped, GaFlags, GaNumbers,
       RegsTyped, RestTyped, cdc, ga
  <2>9. CASE OffTick
    <3>1. CdcTyped'
      BY <2>9 DEF OffTick, CdcHolds, cdc, CdcTyped, CdcFlags, CdcNumbers
    <3>2. QED  BY <2>9, <3>1, Clocks DEF OffTick, RestTyped, past
  <2>10. CASE UNCHANGED vars
    BY <2>10 DEF vars, cdc, ga, regs, past, CdcTyped, CdcFlags, CdcNumbers, GaTyped, GaFlags, GaNumbers, RegsTyped, RestTyped
  <2>11. QED
    BY <2>1, <2>2, <2>3, <2>4, <2>5, <2>6, <2>7, <2>8, <2>9, <2>10 DEF Next
<1>3. QED  BY <1>1, <1>2, PTL DEF Spec

-----------------------------------------------------------------------------
(* The strobe is up exactly while the gate array reads: that is what the   *)
(* release of CDC_HRD beside the forced DS_IDLE preserves.                 *)
StrobeHeld == hrd = (ds = "cdc_read")

LEMMA StrobeStep ==
  ASSUME TypeOK, StrobeHeld, GateArray
  PROVE  StrobeHeld'
<1> USE DEF TypeOK, StrobeHeld, GivenDs, GivenHrd
<1>1. CASE DsIdle
  BY <1>1 DEF DsIdle
<1>2. CASE DsCdcRead
  BY <1>2 DEF DsCdcRead
<1>3. CASE DsWrite
  BY <1>3 DEF DsWrite
<1>4. CASE DsWriteWait
  BY <1>4 DEF DsWriteWait
<1>5. QED  BY <1>1, <1>2, <1>3, <1>4 DEF GateArray

(* HRD is up exactly in CDC_READ, always.                                  *)
LEMMA StrobeAlways == Spec => []StrobeHeld
<1>1. Init => StrobeHeld
  BY DEF Init, StrobeHeld
<1>2. TypeOK /\ StrobeHeld /\ [Next]_vars => StrobeHeld'
  <2> SUFFICES ASSUME TypeOK, StrobeHeld, [Next]_vars PROVE StrobeHeld'
    OBVIOUS
  <2>1. CASE Clock
    BY <2>1, StrobeStep DEF Clock
  <2>2. CASE UNCHANGED ga
    BY <2>2 DEF ga, StrobeHeld
  <2>3. Clock \/ UNCHANGED ga
    BY DEF Next, Tick, OffTick, Ack, Abort, Enable, PeripheralReset, Trigger, HostPoll, HostRead,
           MemoryTakes, MemoryEnds, SetDd, SetAddr, vars
  <2> QED BY <2>1, <2>2, <2>3
<1> QED BY <1>1, <1>2, TypeCorrect, PTL DEF Spec

(* The CDC and the gate array never wait for each other: the deadlock that *)
(* ASIC.vhd:411-436 describes needs HRD up in DS_IDLE.                     *)
THEOREM NeverMutual == Spec => []NoMutualWait
<1>1. StrobeHeld => NoMutualWait
  BY DEF StrobeHeld, NoMutualWait
<1>2. QED  BY <1>1, StrobeAlways, PTL DEF Spec

-----------------------------------------------------------------------------
(* EDT follows the end of a transfer one clock later, by way of ended; and *)
(* once it has ended nothing moves until the next trigger, which is why    *)
(* DS_IDLE has no DTEN to clear EDT for.                                   *)
Armed == ~ended /\ (edt_clr \/ ~edt)
Over  == ~edt_clr /\ ~dten /\ ~busy /\ ts = "idle" /\ (ended \/ edt)
EdtInv == (flag = "armed" => Armed) /\ (flag = "done" => Over)

(* What a clock makes of EDT and of its two causes.                        *)
LEMMA EdtClock ==
  ASSUME Clock
  PROVE  /\ Armed => ~edt'
         /\ ~dten /\ ~edt_clr /\ (ended \/ edt) => edt'
         /\ ~edt_clr' /\ old_dten' = dten
  BY DEF Clock, GateArray, DsIdle, DsCdcRead, DsWrite, DsWriteWait, GivenEdt, Armed

(* The CDC's own step: DTEN falls at the end of a transfer only, and rises *)
(* in one only.                                                            *)
LEMMA DtenStep ==
  ASSUME CdcStep
  PROVE  /\ dten /\ ~dten' => ~busy' /\ ts' = "idle"
         /\ ~dten /\ ~busy /\ ts = "idle" => ~dten' /\ ~busy' /\ ts' = "idle"
  BY DEF CdcStep, CdcIdle, CdcWait, CdcFifo, CdcSendWait, CdcSend

(* A clock that leaves flag and DTEN alone leaves EDT as it must be.       *)
LEMMA EdtKept ==
  ASSUME EdtInv, Clock, dten' = dten, flag' = flag, busy' = busy, ts' = ts
  PROVE  EdtInv'
<1>1. ASSUME Armed PROVE Armed'
  <2>1. ~edt'
    BY <1>1, EdtClock
  <2>2. ~ended'
    BY EdtClock, Zenon DEF ended
  <2> QED BY <2>1, <2>2 DEF Armed
<1>2. ASSUME Over PROVE Over'
  <2>1. edt' /\ ~edt_clr'
    BY <1>2, EdtClock DEF Over
  <2>2. ~dten' /\ ~busy' /\ ts' = "idle"
    BY <1>2, Zenon DEF Over
  <2> QED BY <2>1, <2>2 DEF Over
<1> QED BY <1>1, <1>2 DEF EdtInv

(* EDT tells software whether a transfer has ended since it last wrote     *)
(* FF8004, for every interleaving (ASIC.vhd:448-462).                      *)
THEOREM EdtIsRight == Spec => []EdtTells
<1>1. Init => EdtInv
  BY DEF Init, EdtInv
<1>2. EdtInv /\ [Next]_vars => EdtInv'
  <2> SUFFICES ASSUME EdtInv, [Next]_vars PROVE EdtInv'
    OBVIOUS
  <2>1. CASE Tick
    <3>1. CASE flag = "armed" /\ dten /\ ~dten'
      BY <2>1, <3>1, EdtClock, DtenStep, Zenon DEF Tick, EdtInv, Over, ended
    <3>2. CASE flag = "armed" /\ ~(dten /\ ~dten')
      BY <2>1, <3>2, EdtClock DEF Tick, EdtInv, Armed, ended
    <3>3. CASE flag # "armed"
      BY <2>1, <3>3, EdtClock, DtenStep DEF Tick, EdtInv, Over, ended
    <3> QED BY <3>1, <3>2, <3>3
  <2>2. ASSUME NEW n \in Lengths, Trigger(n) PROVE EdtInv'
    <3>1. Clock /\ dten' = dten /\ (flag' = "armed" => flag = "armed") /\ flag' # "done"
      BY <2>2 DEF Trigger, CdcTrigger
    <3>2. flag' = "armed" => ~edt' /\ ~ended'
      <4>1. flag' = "armed" => ~edt'
        BY <3>1, EdtClock DEF EdtInv
      <4>2. ~ended'
        BY <3>1, EdtClock, Zenon DEF ended
      <4> QED BY <4>1, <4>2
    <3> QED BY <3>1, <3>2 DEF EdtInv, Armed
  <2>3. CASE Ack
    BY <2>3, EdtKept DEF Ack, CdcAck, past
  <2>4. CASE Enable
    BY <2>4, EdtKept DEF Enable, CdcEnable, past
  <2>5. CASE Abort \/ PeripheralReset
    BY <2>5 DEF Abort, PeripheralReset, Disturbed, EdtInv
  <2>6. ASSUME NEW d \in Dests, SetDd(d) PROVE EdtInv'
    BY <2>6 DEF SetDd, AtRest, EdtInv, Armed, ended, cdc, ga
  <2>7. CASE OffTick
    BY <2>7, EdtKept DEF OffTick, CdcHolds, cdc, past
  <2>8. CASE UNCHANGED <<dten, old_dten, edt, edt_clr, busy, ts, flag>>
    BY <2>8 DEF EdtInv, Armed, Over, ended
  <2>9. \/ Tick \/ OffTick \/ Ack \/ Enable \/ Abort \/ PeripheralReset
        \/ \E n \in Lengths : Trigger(n)
        \/ \E d \in Dests : SetDd(d)
        \/ UNCHANGED <<dten, old_dten, edt, edt_clr, busy, ts, flag>>
    BY DEF Next, HostPoll, HostRead, MemoryTakes, MemoryEnds, SetAddr, vars, cdc, ga, regs, past
  <2> QED BY <2>1, <2>2, <2>3, <2>4, <2>5, <2>6, <2>7, <2>8, <2>9
<1>3. EdtInv => EdtTells
  BY DEF EdtInv, EdtTells, Armed, Over
<1> QED BY <1>1, <1>2, <1>3, PTL DEF Spec
=============================================================================
