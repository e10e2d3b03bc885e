----------------------------- MODULE CdcDmaOrder -----------------------------
(***************************************************************************)
(* Every byte of a transfer arrives once and in its place, for every       *)
(* length, destination and address, whatever the CPUs and the memories     *)
(* take their time for.                                                    *)
(*                                                                         *)
(* The invariant counts: the CDC has put p bytes on its port, the gate     *)
(* array has taken t of them and made w words, n words have reached the    *)
(* destination.  Where the two machines are says how far one count may be  *)
(* ahead of the next.                                                      *)
(***************************************************************************)
EXTENDS CdcDmaProofs

(* The CDC between transfers and inside one.                               *)
CdcRest ==
  /\ ts = "idle" => ~ dten
  /\ ~ busy => ts = "idle"
  /\ ts \in {"wait", "fifo", "send_wait"} => ~ wait
  /\ ts = "send" => wait

(* Set up and not begun: all is at rest, but for what the clock that        *)
(* applies the written address has yet to clear.                           *)
ReadyInv ==
  /\ ~ busy
  /\ \A m \in Memories : run[m] = "no"
  /\ polled = "no"
  /\ \A c \in Hosts : ~ cpu_read[c]
  /\ dsr => addr_set /\ edt_clr
  /\ IF addr_set THEN ds = "idle" \/ (ds = "cdc_read" /\ ~ wait)
                 ELSE ds = "idle" /\ ~ dma_byte /\ dma_addr = dmaa

(* The CDC has put p bytes on its port, and the gate array taken t.        *)
Sent(p, t) ==
  /\ dac = first + p
  /\ \/ ts = "idle" /\ ~ hrd /\ busy /\ p = 0 /\ t = 0 /\ dbc + 1 = length
     \/ ts = "idle" /\ ~ hrd /\ ~ busy /\ p = length /\ t = p
     \/ ts \in {"wait", "fifo"} /\ t = p /\ dbc + p + 1 = length
     \/ ts = "send_wait" /\ p = t + 1 /\ dbc + p = length /\ fifo + 1 = dac
     \/ ts = "send" /\ hrd /\ p = t + 1 /\ dbc + p = length /\ fifo + 1 = dac
     \/ ts = "send" /\ ~ hrd /\ t = p /\ dbc + p = length

(* Of t bytes it has made w words and holds the byte over.                 *)
Paired(t, w) ==
  IF dd = "pcm" THEN t = w /\ ~ dma_byte
  ELSE IF dma_byte THEN t = 2 * w + 1 /\ dma_dat[1] + 1 = first + t
  ELSE t = 2 * w

(* A word offered to the destination is the last one made.                 *)
IsWord(x, w) ==
  /\ w > 0
  /\ IF dd = "pcm" THEN x[2] + 1 = first + w
     ELSE x[1] + 2 = first + 2 * w /\ x[2] + 1 = first + 2 * w

(* n of the w words are there.                                             *)
ToHost(w, n) ==
  /\ \A m \in Memories : run[m] = "no"
  /\ \A c \in Hosts : cpu_read[c] => c = dd /\ ds \in {"idle", "write_wait"}
  /\ polled # "no" => ds \in {"write", "write_wait"} /\ ~ cpu_read[dd]
  /\ polled = "yes" => ds = "write_wait"
  /\ ds \in {"idle", "cdc_read"} => ~ dsr /\ n = w
  /\ ds = "write" => ~ dma_byte /\ IsWord(dma_dat, w) /\ w = n + 1
  /\ ds = "write_wait" /\ cpu_read[dd] => n = w
  /\ ds = "write_wait" /\ ~ cpu_read[dd] => IsWord(hd, w) /\ w = n + 1

ToMemory(w, n) ==
  /\ \A m \in Memories \ {dd} : run[m] = "no"
  /\ \A c \in Hosts : ~ cpu_read[c]
  /\ polled = "no"
  /\ ds \in {"idle", "cdc_read"} => run[dd] = "no" /\ n = w
  /\ ds = "write" => ~ dma_byte /\ IsWord(dma_dat, w)
  /\ ds = "write" /\ run[dd] = "no" => w = n + 1
  /\ ds = "write" /\ run[dd] # "no" => run[dd] = "new" /\ n = w
  /\ ds = "write_wait" => run[dd] # "new" /\ n = w
  /\ IF (ds = "write" /\ run[dd] # "no") \/ ds = "write_wait"
       THEN n > 0 /\ dma_addr = (dmaa + n - 1) % Size
       ELSE dma_addr = (dmaa + n) % Size

Nowhere(n) ==
  /\ \A m \in Memories : run[m] = "no"
  /\ \A c \in Hosts : ~ cpu_read[c]
  /\ polled = "no"
  /\ n = 0
  /\ ds # "write_wait"
  /\ ds = "write" => ~ dma_byte

Landed(w, n) ==
  /\ dd \in Hosts => ToHost(w, n)
  /\ dd \in Memories => ToMemory(w, n)
  /\ dd = "none" => Nowhere(n)

Entry == [to : Dests, a : Nat, w : Nat \X Nat]

RunInv ==
  /\ ~ addr_set
  /\ length \in Nat \ {0} /\ first \in Nat
  /\ out \in Seq(Entry)
  /\ \A k \in 1 .. Len(out) : out[k] = Expected(k)
  /\ \E p, t, w \in Nat :
       /\ Sent(p, t)
       /\ Paired(t, w)
       /\ Landed(w, Len(out))

OrderInv ==
  /\ CdcRest
  /\ clean = "ready" => ReadyInv
  /\ clean = "running" => RunInv

-----------------------------------------------------------------------------
(* Addresses go round at Size.                                             *)
LEMMA Less ==
  ASSUME NEW s \in Nat \ {0}, NEW q \in Int, NEW p \in Int,
         NEW r \in 0 .. s - 1, NEW t \in 0 .. s - 1, s * q + r = s * p + t
  PROVE  ~ q < p
<1> SUFFICES ASSUME q < p PROVE FALSE
    OBVIOUS
<1>1. PICK d \in Nat : p = q + 1 + d
  BY p - q - 1 \in Nat
<1>2. s * p = s * q + s + s * d
  BY <1>1
<1>3. s * d \in Nat
  OBVIOUS
<1>4. s * q \in Int
  OBVIOUS
<1> QED BY <1>2, <1>3, <1>4

LEMMA Remainder ==
  ASSUME NEW s \in Nat \ {0}, NEW x \in Nat, NEW q \in Nat, NEW r \in 0 .. s - 1,
         x = s * q + r
  PROVE  x % s = r
<1>1. /\ x = s * (x \div s) + (x % s)
      /\ x % s \in 0 .. s - 1 /\ x \div s \in Int
  OBVIOUS
<1>2. x \div s = q
  BY <1>1, Less
<1> QED BY <1>1, <1>2

LEMMA NextMod ==
  ASSUME NEW s \in Nat \ {0}, NEW x \in Nat
  PROVE  ((x % s) + 1) % s = (x + 1) % s
<1>1. PICK q \in Nat, r \in 0 .. s - 1 : x % s = r /\ x = s * q + r
  <2>1. x = s * (x \div s) + (x % s) /\ x % s \in 0 .. s - 1 /\ x \div s \in Nat
    OBVIOUS
  <2> QED BY <2>1
<1>2. x + 1 \in Nat /\ 0 \in 0 .. s - 1 /\ q + 1 \in Nat
  OBVIOUS
<1>3. CASE r + 1 \in 0 .. s - 1
  <2>1. x + 1 = s * q + (r + 1)
    BY <1>1
  <2>2. (x + 1) % s = r + 1
    BY <1>2, <1>3, <2>1, Remainder, Zenon
  <2>3. (r + 1) % s = r + 1
    BY <1>3
  <2> QED BY <1>1, <2>2, <2>3
<1>4. CASE r + 1 = s
  <2>1. x + 1 = s * (q + 1) + 0
    BY <1>1, <1>4
  <2>2. (x + 1) % s = 0
    BY <1>2, <2>1, Remainder, Zenon
  <2>3. s % s = 0
    OBVIOUS
  <2> QED BY <1>1, <1>4, <2>2, <2>3
<1> QED BY <1>3, <1>4

LEMMA ModStep ==
  ASSUME NEW a \in Nat, NEW n \in Nat \ {0}
  PROVE  (((a + n - 1) % Size) + 1) % Size = (a + n) % Size
<1>1. a + n - 1 \in Nat /\ (a + n - 1) + 1 = a + n
  OBVIOUS
<1> QED BY <1>1, SizeAssumption, NextMod

LEMMA RestInit == Init => CdcRest
  BY DEF Init, CdcRest

LEMMA RestStep ==
  ASSUME TypeOK, CdcRest, [Next]_vars
  PROVE  CdcRest'
<1>1. CASE CdcStep
  <2>1. ts' = "idle" => ~ dten'
    BY <1>1 DEF CdcRest, CdcStep, CdcIdle, CdcWait, CdcFifo, CdcSendWait, CdcSend
  <2>2. ~ busy' => ts' = "idle"
    BY <1>1 DEF CdcRest, CdcStep, CdcIdle, CdcWait, CdcFifo, CdcSendWait, CdcSend
  <2>3. ts' \in {"wait", "fifo", "send_wait"} => ~ wait'
    BY <1>1 DEF CdcRest, CdcStep, CdcIdle, CdcWait, CdcFifo, CdcSendWait, CdcSend
  <2>4. ts' = "send" => wait'
    BY <1>1 DEF CdcRest, CdcStep, CdcIdle, CdcWait, CdcFifo, CdcSendWait, CdcSend
  <2> QED BY <2>1, <2>2, <2>3, <2>4 DEF CdcRest
<1>2. ASSUME NEW n \in Lengths, Trigger(n) PROVE CdcRest'
  BY <1>2 DEF CdcRest, Trigger, CdcTrigger
<1>3. CASE Ack \/ Enable
  BY <1>3 DEF CdcRest, Ack, CdcAck, Enable, CdcEnable
<1>4. CASE Abort \/ PeripheralReset
  BY <1>4 DEF CdcRest, Abort, CdcAbort, PeripheralReset, CdcReset
<1>5. CASE UNCHANGED cdc
  BY <1>5 DEF CdcRest, cdc
<1>6. \/ CdcStep \/ Ack \/ Enable \/ Abort \/ PeripheralReset
      \/ \E n \in Lengths : Trigger(n)
      \/ UNCHANGED cdc
  BY DEF Next, Tick, OffTick, CdcHolds, HostPoll, HostRead, MemoryTakes, MemoryEnds, SetDd, SetAddr, vars
<1> QED BY <1>1, <1>2, <1>3, <1>4, <1>5, <1>6

-----------------------------------------------------------------------------
(* A clock, with a step of the CDC or without: a byte is taken where the   *)
(* gate array reads and the CDC holds WAIT.                                *)
Takes == ds = "cdc_read" /\ wait
CdcMoves == CdcStep \/ UNCHANGED <<ts, busy, dbc, dac, fifo>>

LEMMA TakesLast ==
  ASSUME TypeOK, StrobeHeld, CdcRest, first \in Nat,
         NEW p \in Nat, NEW t \in Nat, Sent(p, t), Takes
  PROVE  ts = "send" /\ hrd /\ p = t + 1 /\ dbc + p = length /\ fifo = first + t
<1>1. hrd
  BY DEF StrobeHeld, Takes
<1>2. ts = "send"
  <2>1. wait /\ ds = "cdc_read" /\ hrd
    BY <1>1 DEF Takes
  <2>2. ts # "idle"
    BY <2>1 DEF Sent
  <2> QED BY <2>1, <2>2 DEF CdcRest, TypeOK
<1>3. p = t + 1 /\ dbc + p = length /\ fifo + 1 = dac /\ dac = first + p
  BY <1>1, <1>2 DEF Sent
<1>4. dac \in Nat /\ fifo \in Nat
  BY DEF TypeOK
<1> QED BY <1>1, <1>2, <1>3, <1>4

(* What the CDC's step does with p, ...                                    *)
LEMMA CdcCounts ==
  ASSUME TypeOK, StrobeHeld, CdcRest, first \in Nat, length \in Nat,
         NEW p \in Nat, NEW t \in Nat, Sent(p, t), ~ Takes, ~ addr_set,
         GateArray, CdcMoves, first' = first, length' = length
  PROVE  \E x \in Nat : Sent(x, t)'
<1> USE DEF TypeOK
<1>1. /\ ds = "cdc_read" <=> hrd
      /\ hrd => hrd'
      /\ ~ dten \/ wait => (hrd' <=> hrd)
  BY DEF StrobeHeld, Takes, GateArray, DsIdle, DsCdcRead, DsWrite, DsWriteWait, GivenHrd
<1>2. CASE CdcIdle
  <2>1. ts = "idle" /\ ~ dten /\ (hrd' <=> hrd) /\ UNCHANGED <<busy, dbc, dac, fifo>>
    BY <1>1, <1>2 DEF CdcIdle, CdcRest
  <2>2. CASE busy
    <3>1. p = 0 /\ t = 0 /\ dbc + 1 = length /\ ts' = "wait"
      BY <1>2, <2>1, <2>2 DEF CdcIdle, Sent
    <3>2. dac' = first' + p
      BY <2>1 DEF Sent
    <3> QED BY <2>1, <3>1, <3>2 DEF Sent
  <2>3. CASE ~ busy
    <3>1. ts' = ts
      BY <1>2, <2>3 DEF CdcIdle
    <3> QED BY <2>1, <2>3, <3>1 DEF Sent
  <2> QED BY <2>2, <2>3
<1>3. CASE CdcWait
  BY <1>1, <1>3 DEF CdcWait, CdcRest, Sent
<1>4. CASE CdcFifo
  <2>1. Sent(p + 1, t)'
    BY <1>4 DEF CdcFifo, Sent
  <2> QED BY <2>1
<1>5. CASE CdcSendWait
  BY <1>1, <1>5 DEF CdcSendWait, CdcRest, Sent
<1>6. CASE CdcSend
  <2>1. wait /\ (hrd' <=> hrd)
    BY <1>1, <1>6 DEF CdcSend, CdcRest
  <2>2. CASE hrd
    BY <1>6, <2>1, <2>2 DEF CdcSend, Sent
  <2>3. CASE ~ hrd
    <3>1. t = p /\ dbc + p = length /\ dac' = first' + p
      BY <1>6, <2>3 DEF CdcSend, Sent
    <3>2. CASE dbc = 0
      <4>1. ts' = "idle" /\ ~ hrd' /\ ~ busy' /\ p = length
        BY <1>6, <2>1, <2>3, <3>1, <3>2 DEF CdcSend
      <4> QED BY <3>1, <4>1 DEF Sent
    <3>3. CASE dbc # 0
      <4>1. ts' = "wait" /\ dbc' = dbc - 1
        BY <1>6, <2>3, <3>3 DEF CdcSend
      <4>2. dbc' + p + 1 = length
        BY <3>1, <4>1
      <4> QED BY <3>1, <4>1, <4>2 DEF Sent
    <3> QED BY <3>2, <3>3
  <2> QED BY <2>2, <2>3
<1>7. CASE UNCHANGED <<ts, busy, dbc, dac, fifo>>
  BY <1>1, <1>7 DEF CdcRest, Sent
<1> QED BY <1>2, <1>3, <1>4, <1>5, <1>6, <1>7 DEF CdcMoves, CdcStep

(* ... and with a byte taken in the same clock.                            *)
LEMMA CdcTaken ==
  ASSUME TypeOK, StrobeHeld, CdcRest, first \in Nat, length \in Nat,
         NEW p \in Nat, NEW t \in Nat, Sent(p, t), Takes,
         GateArray, CdcMoves, first' = first, length' = length
  PROVE  Sent(p, t + 1)'
<1>1. ts = "send" /\ hrd /\ p = t + 1 /\ dbc + p = length /\ dac = first + p
  BY TakesLast DEF Sent
<1>2. ~ hrd'
  BY DEF Takes, GateArray, DsIdle, DsCdcRead, DsWrite, DsWriteWait
<1>3. UNCHANGED <<ts, dbc, dac>>
  BY <1>1 DEF CdcMoves, CdcStep, CdcIdle, CdcWait, CdcFifo, CdcSendWait, CdcSend
<1> QED BY <1>1, <1>2, <1>3 DEF Sent

(* What becomes of the byte.                                               *)
LEMMA ByteTaken ==
  ASSUME TypeOK, Takes, ~ addr_set, GateArray, first \in Nat, first' = first,
         NEW t \in Nat, NEW w \in Nat, Paired(t, w), fifo = first + t
  PROVE  \/ ds' = "idle" /\ Paired(t + 1, w)' /\ (~ dsr => ~ dsr')
         \/ ds' = "write" /\ ~ dma_byte' /\ Paired(t + 1, w + 1)' /\ IsWord(dma_dat, w + 1)'
<1>1. DsCdcRead /\ wait /\ dd' = dd
  BY DEF Takes, GateArray, DsIdle, DsCdcRead, DsWrite, DsWriteWait
<1>2. dma_dat \in Nat \X Nat /\ fifo \in Nat
  BY DEF TypeOK
<1>3. CASE ~ dma_byte /\ dd # "pcm"
  <2>1. dma_dat' = [dma_dat EXCEPT ![1] = fifo] /\ dma_byte' /\ ds' = "idle" /\ GivenDsr
    BY <1>1, <1>3 DEF DsCdcRead
  <2>2. dma_dat'[1] = fifo
    BY <1>2, <2>1
  <2>3. t = 2 * w
    BY <1>3 DEF Paired
  <2>4. t + 1 = 2 * w + 1 /\ dma_dat'[1] + 1 = first' + (t + 1)
    BY <1>2, <2>2, <2>3
  <2> QED BY <1>1, <1>3, <2>1, <2>4 DEF Paired, GivenDsr
<1>4. CASE dma_byte \/ dd = "pcm"
  <2>1. dma_dat' = [dma_dat EXCEPT ![2] = fifo] /\ dma_byte' = FALSE /\ ds' = "write"
    BY <1>1, <1>4 DEF DsCdcRead
  <2>2. dma_dat'[1] = dma_dat[1] /\ dma_dat'[2] = fifo /\ dma_dat[1] \in Nat
    BY <1>2, <2>1
  <2>3. CASE dd = "pcm"
    <3>1. t = w
      BY <2>3 DEF Paired
    <3>2. dma_dat'[2] + 1 = first' + (w + 1)
      BY <1>2, <2>2, <3>1
    <3> QED BY <1>1, <2>1, <2>3, <3>1, <3>2 DEF Paired, IsWord
  <2>4. CASE dd # "pcm"
    <3>1. t = 2 * w + 1 /\ dma_dat[1] + 1 = first + t
      BY <1>4, <2>4 DEF Paired
    <3>2. t + 1 = 2 * (w + 1) /\ dma_dat'[1] + 2 = first' + 2 * (w + 1)
          /\ dma_dat'[2] + 1 = first' + 2 * (w + 1)
      BY <1>2, <2>2, <3>1
    <3> QED BY <1>1, <2>1, <2>4, <3>2 DEF Paired, IsWord
  <2> QED BY <2>3, <2>4
<1> QED BY <1>3, <1>4

LEMMA NoByte ==
  ASSUME TypeOK, ~ Takes, ~ addr_set, GateArray, first' = first,
         NEW t \in Nat, NEW w \in Nat, Paired(t, w)
  PROVE  Paired(t, w)' /\ dma_dat' = dma_dat /\ (dma_byte' <=> dma_byte)
<1>1. dma_dat' = dma_dat /\ dma_byte' = (dma_byte /\ ~ addr_set) /\ dd' = dd
  BY DEF Takes, GateArray, DsIdle, DsCdcRead, DsWrite, DsWriteWait, GivenByte
<1> QED BY <1>1 DEF Paired, TypeOK

-----------------------------------------------------------------------------
(* A word on its way to a host, ...                                        *)
LEMMA HostClock ==
  ASSUME TypeOK, Clock, ~ addr_set, dd \in Hosts, first' = first, ~ Takes,
         NEW w \in Nat, NEW n \in Nat, ToHost(w, n),
         dma_dat' = dma_dat, dma_byte' <=> dma_byte
  PROVE  ToHost(w, n)'
<1>1. /\ dd' = dd /\ dd \notin Memories /\ dd # "none"
      /\ cpu_read' = [c \in Hosts |-> cpu_read[c] /\ ds # "idle"]
      /\ polled' = IF polled = "asked" THEN "yes" ELSE polled
      /\ \A m \in Memories : run'[m] = "no"
  BY DEF Clock, GateArray, Hosts, Memories, ToHost
<1>2. IsWord(dma_dat, w) => IsWord(dma_dat, w)'
  BY <1>1 DEF IsWord
<1>3. hd' = hd /\ IsWord(hd, w) => IsWord(hd, w)'
  BY <1>1 DEF IsWord
<1>4. hd' = dma_dat /\ IsWord(dma_dat, w) => IsWord(hd, w)'
  BY <1>1 DEF IsWord
<1>5. CASE DsIdle
  <2>1. ds' \in {"idle", "cdc_read"} /\ (~ dsr => ~ dsr')
    BY <1>5 DEF DsIdle, GivenDs, GivenDsr
  <2> QED BY <1>1, <1>5, <2>1 DEF DsIdle, ToHost
<1>6. CASE DsCdcRead
  <2>1. ds = "cdc_read" /\ ds' = "cdc_read" /\ (~ dsr => ~ dsr')
    BY <1>6 DEF DsCdcRead, Takes, GivenDs, GivenDsr
  <2> QED BY <1>1, <2>1 DEF ToHost
<1>7. CASE DsWrite
  <2>1. ds = "write" /\ ds' = "write_wait" /\ hd' = dma_dat
    BY <1>1, <1>7 DEF DsWrite
  <2> QED BY <1>1, <1>4, <2>1 DEF ToHost
<1>8. CASE DsWriteWait
  <2>1. CASE cpu_read[dd]
    <3>1. ds = "write_wait" /\ ds' = "idle" /\ ~ dsr'
      BY <1>1, <1>8, <2>1 DEF DsWriteWait
    <3> QED BY <1>1, <2>1, <3>1 DEF ToHost
  <2>2. CASE ~ cpu_read[dd]
    <3>1. ds = "write_wait" /\ ds' = "write_wait" /\ hd' = hd
      BY <1>1, <1>8, <2>2 DEF DsWriteWait, GivenDs
    <3> QED BY <1>1, <1>3, <2>2, <3>1 DEF ToHost
  <2> QED BY <2>1, <2>2
<1> QED BY <1>5, <1>6, <1>7, <1>8 DEF Clock, GateArray

LEMMA HostByte ==
  ASSUME TypeOK, StrobeHeld, Clock, ~ addr_set, dd \in Hosts, first' = first, Takes,
         NEW w \in Nat, NEW n \in Nat, ToHost(w, n),
         NEW x \in Nat,
         \/ ds' = "idle" /\ x = w /\ (~ dsr => ~ dsr')
         \/ ds' = "write" /\ x = w + 1 /\ ~ dma_byte' /\ IsWord(dma_dat, x)'
  PROVE  ToHost(x, n)'
<1>1. /\ dd' = dd /\ ds = "cdc_read"
      /\ cpu_read' = [c \in Hosts |-> cpu_read[c] /\ ds # "idle"]
      /\ polled' = IF polled = "asked" THEN "yes" ELSE polled
      /\ \A m \in Memories : run'[m] = "no"
  BY DEF Clock, GateArray, Hosts, Memories, ToHost, Takes
<1>2. /\ \A c \in Hosts : ~ cpu_read'[c]
      /\ polled' = "no" /\ ~ dsr /\ n = w
  BY <1>1 DEF ToHost
<1> QED BY <1>1, <1>2 DEF ToHost

(* ... to a memory, ...                                                    *)
LEMMA MemoryClock ==
  ASSUME TypeOK, Clock, ~ addr_set, dd \in Memories, first' = first, ~ Takes,
         NEW w \in Nat, NEW n \in Nat, ToMemory(w, n),
         dma_dat' = dma_dat, dma_byte' <=> dma_byte
  PROVE  ToMemory(w, n)'
<1>1. /\ dd' = dd /\ dd \notin Hosts /\ dd # "none" /\ dmaa' = dmaa
      /\ cpu_read' = [c \in Hosts |-> cpu_read[c] /\ ds # "idle"]
      /\ polled' = "no"
      /\ run' = [m \in Memories |-> IF run[m] = "new" THEN "on" ELSE run[m]]
      /\ Running(dd) <=> run[dd] # "no"
  BY DEF Clock, GateArray, Hosts, Memories, ToMemory, Running
<1>2. IsWord(dma_dat, w) => IsWord(dma_dat, w)'
  BY <1>1 DEF IsWord
<1>3. (\A m \in Memories \ {dd} : run'[m] = "no") /\ \A c \in Hosts : ~ cpu_read'[c]
  BY <1>1 DEF ToMemory
<1>4. CASE DsIdle \/ DsCdcRead
  <2>1. ds \in {"idle", "cdc_read"} /\ ds' \in {"idle", "cdc_read"} /\ dma_addr' = dma_addr
    BY <1>4 DEF DsIdle, DsCdcRead, Takes, GivenDs, GivenAddr
  <2> QED BY <1>1, <1>3, <2>1 DEF ToMemory
<1>5. CASE DsWrite
  <2>1. /\ ds = "write" /\ dma_addr' = dma_addr
        /\ ds' = IF run[dd] # "no" THEN "write_wait" ELSE "write"
    BY <1>1, <1>5 DEF DsWrite, GivenDs, GivenAddr
  <2>2. CASE run[dd] = "no"
    BY <1>1, <1>2, <1>3, <2>1, <2>2 DEF ToMemory
  <2>3. CASE run[dd] # "no"
    <3>1. ds' = "write_wait" /\ run'[dd] = "on"
      BY <1>1, <2>1, <2>3 DEF ToMemory
    <3> QED BY <1>1, <1>3, <2>1, <2>3, <3>1 DEF ToMemory
  <2> QED BY <2>2, <2>3
<1>6. CASE DsWriteWait
  <2>1. ds = "write_wait" /\ n > 0 /\ dma_addr = (dmaa + n - 1) % Size /\ n = w
    BY <1>6 DEF DsWriteWait, ToMemory
  <2>2. CASE run[dd] # "no"
    <3>1. ds' = "write_wait" /\ run'[dd] = "on" /\ dma_addr' = dma_addr
      BY <1>1, <1>6, <2>2 DEF DsWriteWait, GivenDs, GivenAddr, TypeOK
    <3> QED BY <1>1, <1>3, <2>1, <3>1 DEF ToMemory
  <2>3. CASE run[dd] = "no"
    <3>1. ds' = "idle" /\ run'[dd] = "no" /\ dma_addr' = (dma_addr + 1) % Size
      BY <1>1, <1>6, <2>3 DEF DsWriteWait, NextAddr
    <3>2. dmaa \in Nat /\ n \in Nat \ {0}
      BY <2>1, SizeAssumption DEF TypeOK
    <3>3. (((dmaa + n - 1) % Size) + 1) % Size = (dmaa + n) % Size
      BY <3>2, ModStep, Zenon
    <3>4. dma_addr' = (dmaa + n) % Size
      BY <2>1, <3>1, <3>3
    <3> QED BY <1>1, <1>3, <2>1, <3>1, <3>4 DEF ToMemory
  <2> QED BY <2>2, <2>3
<1> QED BY <1>4, <1>5, <1>6 DEF Clock, GateArray

LEMMA MemoryByte ==
  ASSUME TypeOK, Clock, dd \in Memories, first' = first, ~ addr_set, Takes,
         NEW w \in Nat, NEW n \in Nat, ToMemory(w, n), NEW x \in Nat,
         \/ ds' = "idle" /\ x = w
         \/ ds' = "write" /\ x = w + 1 /\ ~ dma_byte' /\ IsWord(dma_dat, x)'
  PROVE  ToMemory(x, n)'
<1>1. /\ dd' = dd /\ dmaa' = dmaa /\ ds = "cdc_read" /\ DsCdcRead
      /\ cpu_read' = [c \in Hosts |-> cpu_read[c] /\ ds # "idle"]
      /\ polled' = "no"
      /\ run' = [m \in Memories |-> IF run[m] = "new" THEN "on" ELSE run[m]]
  BY DEF Clock, GateArray, DsIdle, DsWrite, DsWriteWait, Hosts, Memories, ToMemory, Takes
<1>2. dma_addr' = dma_addr
  BY <1>1 DEF DsCdcRead, GivenAddr
<1>3. /\ \A c \in Hosts : ~ cpu_read'[c]
      /\ \A m \in Memories : run'[m] = "no"
      /\ n = w /\ dma_addr = (dmaa + n) % Size
  BY <1>1 DEF ToMemory
<1> QED BY <1>1, <1>2, <1>3 DEF ToMemory

(* ... and nowhere.                                                        *)
LEMMA NowhereClock ==
  ASSUME TypeOK, Clock, ~ addr_set, dd = "none", NEW n \in Nat, Nowhere(n)
  PROVE  Nowhere(n)'
<1>1. /\ cpu_read' = [c \in Hosts |-> cpu_read[c] /\ ds # "idle"]
      /\ polled' = "no"
      /\ run' = [m \in Memories |-> IF run[m] = "new" THEN "on" ELSE run[m]]
  BY DEF Clock, GateArray, Nowhere
<1>2. ds' # "write_wait"
  BY DEF Clock, GateArray, Nowhere, DsIdle, DsCdcRead, DsWrite, DsWriteWait, GivenDs, Hosts
<1>3. ds' = "write" => ~ dma_byte'
  BY DEF Clock, GateArray, DsIdle, DsCdcRead, DsWrite, DsWriteWait, GivenDs, Nowhere, Hosts
<1> QED BY <1>1, <1>2, <1>3 DEF Nowhere

(* A clock in the middle of a transfer.                                    *)
LEMMA WordClock ==
  ASSUME TypeOK, StrobeHeld, Clock, ~ addr_set, first \in Nat, first' = first,
         NEW t \in Nat, NEW w \in Nat, NEW n \in Nat, Paired(t, w), Landed(w, n),
         Takes => fifo = first + t
  PROVE  IF Takes THEN \E x \in Nat : Paired(t + 1, x)' /\ Landed(x, n)'
                  ELSE Paired(t, w)' /\ Landed(w, n)'
<1>1. dd' = dd /\ GateArray
  BY DEF Clock, GateArray
<1>2. CASE Takes
  <2>1. PICK x \in Nat :
          /\ Paired(t + 1, x)'
          /\ \/ ds' = "idle" /\ x = w /\ (~ dsr => ~ dsr')
             \/ ds' = "write" /\ x = w + 1 /\ ~ dma_byte' /\ IsWord(dma_dat, x)'
    <3>1. w \in Nat /\ w + 1 \in Nat
      OBVIOUS
    <3> QED BY <1>1, <1>2, <3>1, ByteTaken
  <2>2. dd \in Hosts => ToHost(x, n)'
    BY <1>2, <2>1, HostByte DEF Landed
  <2>3. dd \in Memories => ToMemory(x, n)'
    BY <1>2, <2>1, MemoryByte DEF Landed
  <2>4. dd = "none" => Nowhere(n)'
    BY NowhereClock DEF Landed
  <2> QED BY <1>1, <1>2, <2>1, <2>2, <2>3, <2>4 DEF Landed
<1>3. CASE ~ Takes
  <2>1. Paired(t, w)' /\ dma_dat' = dma_dat /\ (dma_byte' <=> dma_byte)
    BY <1>1, <1>3, NoByte
  <2>2. dd \in Hosts => ToHost(w, n)'
    BY <1>3, <2>1, HostClock DEF Landed
  <2>3. dd \in Memories => ToMemory(w, n)'
    BY <1>3, <2>1, MemoryClock DEF Landed
  <2>4. dd = "none" => Nowhere(n)'
    BY NowhereClock DEF Landed
  <2> QED BY <1>1, <1>3, <2>1, <2>2, <2>3, <2>4 DEF Landed
<1> QED BY <1>2, <1>3

LEMMA RunClock ==
  ASSUME TypeOK, StrobeHeld, CdcRest, RunInv, Clock, CdcMoves,
         UNCHANGED <<out, first, length>>
  PROVE  RunInv'
<1>1. first \in Nat /\ length \in Nat /\ ~ addr_set /\ GateArray
  BY DEF RunInv, Clock
<1>2. PICK p \in Nat, t \in Nat, w \in Nat :
        Sent(p, t) /\ Paired(t, w) /\ Landed(w, Len(out))
  BY DEF RunInv
<1>3. Len(out) \in Nat
  BY DEF RunInv
<1>4. \E x, s, y \in Nat : Sent(x, s)' /\ Paired(s, y)' /\ Landed(y, Len(out))'
  <2>1. CASE Takes
    <3>1. fifo = first + t
      BY <1>1, <1>2, <2>1, TakesLast
    <3>2. Sent(p, t + 1)'
      BY <1>1, <1>2, <2>1, CdcTaken
    <3>3. PICK y \in Nat : Paired(t + 1, y)' /\ Landed(y, Len(out))'
      BY <1>1, <1>2, <1>3, <2>1, <3>1, WordClock
    <3> QED BY <3>2, <3>3
  <2>2. CASE ~ Takes
    <3>1. PICK x \in Nat : Sent(x, t)'
      BY <1>1, <1>2, <2>2, CdcCounts
    <3>2. Paired(t, w)' /\ Landed(w, Len(out))'
      BY <1>1, <1>2, <1>3, <2>2, WordClock
    <3> QED BY <3>1, <3>2
  <2> QED BY <2>1, <2>2
<1>5. ~ addr_set' /\ dd' = dd /\ dmaa' = dmaa
  BY DEF Clock, GateArray
<1>6. out' \in Seq(Entry) /\ \A k \in 1 .. Len(out') : out'[k] = Expected(k)'
  BY <1>5 DEF RunInv, Expected
<1> QED BY <1>4, <1>5, <1>6 DEF RunInv

-----------------------------------------------------------------------------
(* A word that arrives is the next one expected.                           *)
LEMMA WordIs ==
  ASSUME NEW x \in Nat \X Nat, NEW n \in Nat, first \in Nat, IsWord(x, n + 1)
  PROVE  x = IF dd = "pcm" THEN <<x[1], first + (n + 1) - 1>>
             ELSE <<first + 2 * (n + 1) - 2, first + 2 * (n + 1) - 1>>
<1>1. x = <<x[1], x[2]>> /\ x[1] \in Nat /\ x[2] \in Nat
  OBVIOUS
<1>2. CASE dd = "pcm"
  <2>1. x[2] = first + (n + 1) - 1
    BY <1>1, <1>2 DEF IsWord
  <2> QED BY <1>1, <1>2, <2>1
<1>3. CASE dd # "pcm"
  <2>1. x[1] = first + 2 * (n + 1) - 2 /\ x[2] = first + 2 * (n + 1) - 1
    BY <1>1, <1>3 DEF IsWord
  <2> QED BY <1>1, <1>3, <2>1
<1> QED BY <1>2, <1>3

LEMMA Arrives ==
  ASSUME RunInv, NEW n \in Nat, n = Len(out), NEW x \in Nat \X Nat, IsWord(x, n + 1),
         NEW addr \in Nat, addr = IF dd \in Hosts THEN 0 ELSE (dmaa + n) % Size,
         dd \in Dests, dmaa \in Nat,
         out' = Append(out, [to |-> dd, a |-> addr, w |-> x]),
         UNCHANGED <<dd, dmaa, first>>
  PROVE  /\ out' \in Seq(Entry) /\ Len(out') = n + 1
         /\ \A k \in 1 .. Len(out') : out'[k] = Expected(k)'
<1> DEFINE e == [to |-> dd, a |-> addr, w |-> x]
<1>1. e \in Entry /\ out \in Seq(Entry) /\ first \in Nat
  BY DEF Entry, RunInv
<1>2. /\ out' \in Seq(Entry) /\ Len(out') = n + 1
      /\ \A k \in 1 .. n : out'[k] = out[k]
      /\ out'[n + 1] = e
  BY <1>1
<1>3. ASSUME NEW k \in 1 .. n PROVE out'[k] = Expected(k)'
  <2>1. out[k] = Expected(k)
    BY DEF RunInv
  <2> QED BY <1>2, <2>1 DEF Expected
<1>4. out'[n + 1] = Expected(n + 1)'
  <2>1. dmaa + (n + 1) - 1 = dmaa + n
    OBVIOUS
  <2>2. out'[n + 1].w = x
    BY <1>2
  <2>3. Expected(n + 1)' =
          [to |-> dd, a |-> IF dd \in Hosts THEN 0 ELSE (dmaa + (n + 1) - 1) % Size,
           w |-> IF dd = "pcm" THEN <<x[1], first + (n + 1) - 1>>
                 ELSE <<first + 2 * (n + 1) - 2, first + 2 * (n + 1) - 1>>]
    BY <2>2 DEF Expected
  <2> QED BY <1>1, <1>2, <2>1, <2>3, WordIs
<1> QED BY <1>2, <1>3, <1>4

(* What the CPUs and the memories do between clocks.                       *)
LEMMA Between ==
  ASSUME RunInv, UNCHANGED <<cdc, ga, dd, dmaa, addr_set, first, length>>,
         NEW n \in Nat, NEW k \in Nat, n = Len(out), k = Len(out'),
         out' \in Seq(Entry), \A i \in 1 .. Len(out') : out'[i] = Expected(i)',
         \A w \in Nat : Landed(w, n) => Landed(w, k)'
  PROVE  RunInv'
<1>1. PICK p \in Nat, t \in Nat, w \in Nat : Sent(p, t) /\ Paired(t, w) /\ Landed(w, n)
  BY DEF RunInv
<1>2. Sent(p, t)' /\ Paired(t, w)'
  BY <1>1 DEF Sent, Paired, cdc, ga
<1>3. Landed(w, Len(out))'
  BY <1>1
<1> QED BY <1>2, <1>3 DEF RunInv

LEMMA TakesStep ==
  ASSUME TypeOK, RunInv, clean = "running", NEW m \in Memories, MemoryTakes(m)
  PROVE  RunInv'
<1>1. /\ dd = m /\ ds = "write" /\ run[dd] = "no" /\ dd \notin Hosts /\ dd # "none"
      /\ UNCHANGED <<cdc, ga, dd, dmaa, addr_set, first, length, cpu_read, polled, ds, dma_dat,
                     dma_byte, dma_addr>>
      /\ run' = [run EXCEPT ![m] = "new"]
      /\ out' = Append(out, [to |-> dd, a |-> dma_addr, w |-> dma_dat])
  BY DEF MemoryTakes, Running, Record, regs, ga, Hosts, Memories
<1>2. PICK n \in Nat : n = Len(out)
  BY DEF RunInv
<1>3. PICK w \in Nat : ToMemory(w, n)
  BY <1>1, <1>2 DEF RunInv, Landed
<1>4. IsWord(dma_dat, n + 1) /\ dma_addr = (dmaa + n) % Size
  BY <1>1, <1>3 DEF ToMemory
<1>5. dma_dat \in Nat \X Nat /\ dma_addr \in Nat /\ dd \in Dests /\ dmaa \in Nat
  BY SizeAssumption DEF TypeOK
<1>6. /\ out' \in Seq(Entry) /\ Len(out') = n + 1
      /\ \A k \in 1 .. Len(out') : out'[k] = Expected(k)'
  BY <1>1, <1>2, <1>4, <1>5, Arrives
<1>7. ASSUME NEW y \in Nat, Landed(y, n) PROVE Landed(y, n + 1)'
  <2>1. ToMemory(y, n)
    BY <1>1, <1>7 DEF Landed
  <2>2. run'[dd] = "new" /\ \A k \in Memories \ {dd} : run'[k] = "no"
    BY <1>1, <2>1 DEF TypeOK, ToMemory
  <2>3. IsWord(dma_dat, y)' /\ y = n + 1 /\ dma_addr' = (dmaa + (n + 1) - 1) % Size
    BY <1>1, <1>4, <2>1 DEF ToMemory, IsWord
  <2>4. ToMemory(y, n + 1)'
    BY <1>1, <2>1, <2>2, <2>3 DEF ToMemory
  <2> QED BY <1>1, <2>4 DEF Landed
<1> QED BY <1>1, <1>2, <1>6, <1>7, Between

LEMMA MemoryEndsStep ==
  ASSUME TypeOK, RunInv, NEW m \in Memories, MemoryEnds(m)
  PROVE  RunInv'
<1>1. /\ run[m] = "on" /\ run' = [run EXCEPT ![m] = "no"]
      /\ UNCHANGED <<cdc, ga, dd, dmaa, addr_set, first, length, out, cpu_read, polled, ds, dma_dat,
                     dma_byte, dma_addr>>
  BY DEF MemoryEnds, regs, ga, past
<1>2. out' \in Seq(Entry) /\ \A k \in 1 .. Len(out') : out'[k] = Expected(k)'
  BY <1>1 DEF RunInv, Expected
<1>3. PICK n \in Nat : n = Len(out) /\ n = Len(out')
  BY <1>1 DEF RunInv
<1>4. ASSUME NEW y \in Nat, Landed(y, n) PROVE Landed(y, n)'
  <2>1. CASE dd \in Memories
    <3>1. ToMemory(y, n) /\ dd \notin Hosts /\ dd # "none"
      BY <1>4, <2>1 DEF Landed, Hosts, Memories
    <3>2. m = dd /\ ds = "write_wait"
      BY <1>1, <3>1 DEF ToMemory, TypeOK
    <3>3. run'[dd] = "no" /\ \A k \in Memories \ {dd} : run'[k] = "no"
      BY <1>1, <3>1, <3>2 DEF ToMemory, TypeOK
    <3> QED BY <1>1, <3>1, <3>2, <3>3 DEF Landed, ToMemory
  <2>2. CASE dd \notin Memories
    BY <1>1, <1>4, <2>2, DestAssumption DEF Landed, ToHost, Nowhere, TypeOK
  <2> QED BY <2>1, <2>2
<1> QED BY <1>1, <1>2, <1>3, <1>4, Between

LEMMA PollStep ==
  ASSUME TypeOK, RunInv, HostPoll
  PROVE  RunInv'
<1>1. /\ dd \in Hosts /\ dsr /\ polled' = "asked" /\ \A c \in Hosts : ~ cpu_read[c]
      /\ dd \notin Memories /\ dd # "none"
      /\ UNCHANGED <<cdc, ga, dd, dmaa, addr_set, first, length, out, cpu_read, run, ds, dma_dat,
                     dma_byte, dma_addr, hd, dsr>>
  BY DEF HostPoll, regs, ga, past, Hosts, Memories
<1>2. out' \in Seq(Entry) /\ \A k \in 1 .. Len(out') : out'[k] = Expected(k)'
  BY <1>1 DEF RunInv, Expected
<1>3. PICK n \in Nat : n = Len(out) /\ n = Len(out')
  BY <1>1 DEF RunInv
<1>4. ASSUME NEW y \in Nat, Landed(y, n) PROVE Landed(y, n)'
  <2>1. ToHost(y, n)
    BY <1>1, <1>4 DEF Landed
  <2>2. ds \in {"write", "write_wait"}
    BY <1>1, <2>1 DEF ToHost, TypeOK
  <2>3. \A x : IsWord(x, y) => IsWord(x, y)'
    BY <1>1 DEF IsWord
  <2> QED BY <1>1, <2>1, <2>2, <2>3 DEF Landed, ToHost, IsWord
<1> QED BY <1>1, <1>2, <1>3, <1>4, Between

LEMMA ReadStep ==
  ASSUME TypeOK, RunInv, clean = "running", HostRead
  PROVE  RunInv'
<1>1. /\ dd \in Hosts /\ polled = "yes" /\ polled' = "no"
      /\ cpu_read' = [cpu_read EXCEPT ![dd] = TRUE]
      /\ dd \notin Memories /\ dd # "none"
      /\ out' = Append(out, [to |-> dd, a |-> 0, w |-> hd])
      /\ UNCHANGED <<cdc, ga, dd, dmaa, addr_set, first, length, run, ds, dma_dat,
                     dma_byte, dma_addr, hd, dsr>>
  BY DEF HostRead, Record, ga, Hosts, Memories
<1>2. PICK n \in Nat : n = Len(out)
  BY DEF RunInv
<1>3. PICK w \in Nat : ToHost(w, n)
  BY <1>1, <1>2 DEF RunInv, Landed
<1>4. ds = "write_wait" /\ ~ cpu_read[dd] /\ IsWord(hd, n + 1)
  BY <1>1, <1>3 DEF ToHost
<1>5. hd \in Nat \X Nat /\ dd \in Dests /\ dmaa \in Nat
  BY SizeAssumption DEF TypeOK
<1>6. /\ out' \in Seq(Entry) /\ Len(out') = n + 1
      /\ \A k \in 1 .. Len(out') : out'[k] = Expected(k)'
  BY <1>1, <1>2, <1>4, <1>5, Arrives
<1>7. ASSUME NEW y \in Nat, Landed(y, n) PROVE Landed(y, n + 1)'
  <2>1. ToHost(y, n) /\ y = n + 1
    BY <1>1, <1>4, <1>7 DEF Landed, ToHost
  <2>2. cpu_read'[dd] /\ \A c \in Hosts \ {dd} : ~ cpu_read'[c]
    BY <1>1, <2>1 DEF ToHost, TypeOK
  <2> QED BY <1>1, <1>4, <2>1, <2>2 DEF Landed, ToHost
<1> QED BY <1>1, <1>2, <1>6, <1>7, Between

-----------------------------------------------------------------------------
(* The first clock after a transfer was set up leaves nothing behind.      *)
LEMMA Prepared ==
  ASSUME TypeOK, CdcRest, ReadyInv, Clock
  PROVE  /\ ds' = "idle" /\ ~ dma_byte' /\ dma_addr' = dmaa /\ ~ dsr' /\ ~ addr_set'
         /\ UNCHANGED <<dd, dmaa>> /\ polled' = "no"
         /\ \A m \in Memories : run'[m] = "no"
         /\ \A c \in Hosts : ~ cpu_read'[c]
<1>1. /\ UNCHANGED <<dd, dmaa>> /\ polled' = "no" /\ ~ addr_set'
      /\ \A m \in Memories : run'[m] = "no"
      /\ \A c \in Hosts : ~ cpu_read'[c]
  BY DEF Clock, GateArray, ReadyInv
<1>2. ~ dten
  BY DEF ReadyInv, CdcRest
<1>3. CASE ds = "idle"
  <2>1. DsIdle
    BY <1>3 DEF Clock, GateArray, DsCdcRead, DsWrite, DsWriteWait
  <2>2. ds' = "idle" /\ (~ dma_byte \/ addr_set => ~ dma_byte') /\ (~ dsr \/ edt_clr => ~ dsr')
    BY <1>2, <1>3, <2>1 DEF DsIdle, GivenDs, GivenByte
  <2>3. dma_addr' = IF addr_set THEN dmaa ELSE dma_addr
    BY <2>1 DEF DsIdle, GivenAddr
  <2> QED BY <1>1, <2>2, <2>3 DEF ReadyInv
<1>4. CASE ds # "idle"
  <2>1. DsCdcRead /\ ~ wait /\ addr_set
    BY <1>4 DEF Clock, GateArray, DsIdle, DsWrite, DsWriteWait, ReadyInv
  <2>2. ds' = "idle" /\ ~ dma_byte' /\ dma_addr' = dmaa /\ (~ dsr \/ edt_clr => ~ dsr')
    BY <2>1 DEF DsCdcRead, GivenDs, GivenByte, GivenAddr, GivenDsr
  <2> QED BY <1>1, <2>2 DEF ReadyInv
<1> QED BY <1>3, <1>4

LEMMA ReadyClock ==
  ASSUME TypeOK, CdcRest, ReadyInv, Clock, CdcMoves
  PROVE  ReadyInv'
<1>1. ~ busy'
  BY DEF ReadyInv, CdcRest, CdcMoves, CdcStep, CdcIdle, CdcWait, CdcFifo, CdcSendWait, CdcSend
<1> QED BY <1>1, Prepared DEF ReadyInv

LEMMA Whole == ASSUME dmaa \in 0 .. Size - 1 PROVE (dmaa + 0) % Size = dmaa
  BY SizeAssumption

LEMMA TriggerStep ==
  ASSUME TypeOK, StrobeHeld, CdcRest, ReadyInv, NEW l \in Lengths, Trigger(l)
  PROVE  RunInv'
<1>1. /\ Clock /\ GateArray /\ busy' /\ dac' = dac /\ ts' = ts /\ dbc' = l - 1
      /\ first' = dac /\ length' = l /\ out' = << >>
  BY DEF Trigger, CdcTrigger, Clock
<1>2. /\ ds' = "idle" /\ ~ dma_byte' /\ dma_addr' = dmaa /\ ~ dsr' /\ ~ addr_set'
      /\ UNCHANGED <<dd, dmaa>> /\ polled' = "no"
      /\ \A m \in Memories : run'[m] = "no"
      /\ \A c \in Hosts : ~ cpu_read'[c]
  BY <1>1, Prepared
<1>3. l \in Nat \ {0} /\ dac \in Nat
  BY SizeAssumption DEF TypeOK
<1>4. Sent(0, 0)'
  <2>1. ts' = "idle"
    BY <1>1 DEF ReadyInv, CdcRest
  <2>2. ~ hrd'
    BY <1>1, <1>2, StrobeStep DEF StrobeHeld
  <2>3. dac' = first' + 0 /\ dbc' + 1 = length'
    BY <1>1, <1>3
  <2> QED BY <1>1, <2>1, <2>2, <2>3 DEF Sent
<1>5. Paired(0, 0)'
  BY <1>2 DEF Paired
<1>6. Landed(0, 0)'
  <2>1. (dmaa + 0) % Size = dmaa
    BY Whole DEF TypeOK
  <2> QED BY <1>2, <2>1 DEF Landed, ToHost, ToMemory, Nowhere
<1>7. out' \in Seq(Entry) /\ Len(out') = 0
  BY <1>1
<1> QED BY <1>1, <1>2, <1>3, <1>4, <1>5, <1>6, <1>7 DEF RunInv

LEMMA SetStep ==
  ASSUME TypeOK, clean = "ready" => ReadyInv, clean' = "ready",
         (\E d \in Dests : SetDd(d)) \/ (\E a \in Starts : SetAddr(a))
  PROVE  ReadyInv'
<1>1. /\ AtRest /\ ds # "write_wait" /\ ~ addr_set /\ addr_set'
      /\ edt_clr' \/ clean = "ready" \/ ~ dsr
      /\ edt_clr => edt_clr'
      /\ UNCHANGED <<cdc, ga, cpu_read, run, polled>>
  BY DEF SetDd, SetAddr
<1>2. dsr => edt_clr'
  BY <1>1 DEF ReadyInv
<1> QED BY <1>1, <1>2 DEF ReadyInv, AtRest, Running, cdc, ga

LEMMA OrderStep ==
  ASSUME TypeOK, StrobeHeld, OrderInv, [Next]_vars
  PROVE  OrderInv'
<1>1. CdcRest /\ CdcRest'
  BY RestStep DEF OrderInv
<1>2. CASE Tick \/ OffTick \/ Ack \/ Enable
  <2>1. Clock /\ CdcMoves /\ UNCHANGED <<clean, out, first, length>>
    BY <1>2 DEF Tick, OffTick, CdcHolds, cdc, Ack, Enable, CdcAck, CdcEnable, CdcMoves, past
  <2>2. clean = "ready" => ReadyInv'
    BY <1>1, <2>1, ReadyClock DEF OrderInv
  <2>3. clean = "running" => RunInv'
    BY <1>1, <2>1, RunClock DEF OrderInv
  <2> QED BY <1>1, <2>1, <2>2, <2>3 DEF OrderInv
<1>3. ASSUME NEW l \in Lengths, Trigger(l) PROVE OrderInv'
  BY <1>1, <1>3, TriggerStep DEF Trigger, OrderInv
<1>4. CASE Abort \/ PeripheralReset
  BY <1>1, <1>4 DEF Abort, PeripheralReset, Disturbed, OrderInv
<1>5. CASE (\E d \in Dests : SetDd(d)) \/ (\E a \in Starts : SetAddr(a))
  <2>1. clean' \in {"ready", "no"}
    BY <1>5 DEF SetDd, SetAddr
  <2> QED BY <1>1, <1>5, <2>1, SetStep DEF OrderInv
<1>6. ASSUME NEW m \in Memories, MemoryTakes(m) PROVE OrderInv'
  <2>1. clean' = clean /\ clean # "ready"
    BY <1>6 DEF MemoryTakes, OrderInv, ReadyInv
  <2> QED BY <1>1, <1>6, <2>1, TakesStep DEF OrderInv
<1>7. ASSUME NEW m \in Memories, MemoryEnds(m) PROVE OrderInv'
  <2>1. clean' = clean /\ clean # "ready"
    BY <1>7 DEF MemoryEnds, OrderInv, ReadyInv, past
  <2> QED BY <1>1, <1>7, <2>1, MemoryEndsStep DEF OrderInv
<1>8. CASE HostPoll
  <2>1. clean' = clean /\ clean # "ready"
    BY <1>8 DEF HostPoll, OrderInv, ReadyInv, past
  <2> QED BY <1>1, <1>8, <2>1, PollStep DEF OrderInv
<1>9. CASE HostRead
  <2>1. clean' = clean /\ clean # "ready"
    BY <1>9 DEF HostRead, OrderInv, ReadyInv
  <2> QED BY <1>1, <1>9, <2>1, ReadStep DEF OrderInv
<1>10. CASE UNCHANGED vars
  <2>1. UNCHANGED <<cdc, ga, dd, dmaa, addr_set, edt_clr, first, length, out, run, polled, cpu_read,
                    clean, ts, wait, busy, dbc, dac, fifo, ds, hrd, dsr, dma_addr, dma_byte,
                    dma_dat, hd>>
    BY <1>10 DEF vars, cdc, ga, regs, past
  <2> QED BY <1>1, <2>1 DEF OrderInv, ReadyInv, RunInv, Sent, Paired, Landed, ToHost, ToMemory,
                            Nowhere, IsWord, Expected
<1> QED BY <1>2, <1>3, <1>4, <1>5, <1>6, <1>7, <1>8, <1>9, <1>10 DEF Next

-----------------------------------------------------------------------------
(* What the counts come to.                                                *)
LEMMA Halves ==
  ASSUME NEW n \in Nat, NEW w \in Nat, NEW l \in Nat
  PROVE  /\ n <= w /\ 2 * w <= l => n <= l \div 2
         /\ l = 2 * w \/ l = 2 * w + 1 => l \div 2 = w
  OBVIOUS

LEMMA OrderIs == ASSUME TypeOK, OrderInv PROVE Delivered
<1> SUFFICES ASSUME clean = "running" PROVE Delivered
  BY DEF Delivered, InOrder, NoneLost
<1>1. RunInv /\ first \in Nat /\ length \in Nat
  BY DEF OrderInv, RunInv
<1>2. PICK p \in Nat, t \in Nat, w \in Nat, n \in Nat :
        n = Len(out) /\ Sent(p, t) /\ Paired(t, w) /\ Landed(w, n)
  BY <1>1 DEF RunInv
<1>3. t <= length
  <2>1. dbc \in Nat /\ length \in Nat
    BY <1>1 DEF TypeOK
  <2>2. \/ t = 0
        \/ t = p /\ (p = length \/ dbc + p + 1 = length \/ dbc + p = length)
        \/ p = t + 1 /\ dbc + p = length
    BY <1>2 DEF Sent
  <2> QED BY <2>1, <2>2
<1>4. dd \in Hosts \cup Memories \cup {"none"} /\ "pcm" \in Memories /\ "none" \notin Hosts \cup Memories
      /\ ~ (dd \in Hosts /\ dd \in Memories)
  BY DestAssumption DEF TypeOK, Hosts, Memories
<1>5. IF dd = "none" THEN n = 0 ELSE n <= w
  BY <1>2, <1>4 DEF Landed, ToHost, ToMemory, Nowhere, TypeOK
<1>6. IF dd = "pcm" THEN t = w ELSE t = 2 * w \/ t = 2 * w + 1
  BY <1>2 DEF Paired
<1>7. n <= Words
  BY <1>1, <1>3, <1>4, <1>5, <1>6, Halves DEF Words
<1>8. InOrder
  BY <1>1, <1>2, <1>7 DEF InOrder, RunInv
<1>9. ASSUME AtRest, ds = "idle" PROVE n = Words
  <2>1. ts = "idle" /\ ~ busy
    BY <1>9 DEF AtRest, OrderInv, CdcRest
  <2>2. t = length
    BY <1>2, <2>1 DEF Sent
  <2>3. IF dd = "none" THEN n = 0 ELSE n = w
    BY <1>2, <1>4, <1>9 DEF Landed, ToHost, ToMemory, Nowhere
  <2> QED BY <1>1, <1>4, <1>6, <2>2, <2>3, Halves DEF Words
<1> QED BY <1>2, <1>8, <1>9 DEF Delivered, NoneLost

(* A transfer set up at rest and not disturbed delivers every byte the CDC *)
(* sends, once, in order, at consecutive addresses, and no byte is paired  *)
(* with one of another transfer, however many clocks of the gate array     *)
(* pass between two of the CDC (CDC.vhd:188, 549-700, ASIC.vhd:396-564).   *)
THEOREM TransferIsWhole == Spec => []Delivered
<1>1. Init => OrderInv
  BY RestInit DEF Init, OrderInv
<1>2. TypeOK /\ StrobeHeld /\ OrderInv /\ [Next]_vars => OrderInv'
  BY OrderStep
<1>3. TypeOK /\ OrderInv => Delivered
  BY OrderIs
<1> QED BY <1>1, <1>2, <1>3, TypeCorrect, StrobeAlways, PTL DEF Spec
=============================================================================
