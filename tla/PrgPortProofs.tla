---------------------------- MODULE PrgPortProofs ----------------------------
(***************************************************************************)
(* The path to the PRG-RAM for every size of the memory and of the cache,  *)
(* every wait of the port and every workload, while the OSD leaves the     *)
(* cache on: what a CPU reads, what reaches the SDRAM, whose the shared    *)
(* lines are and whose /DTACK is, until the main CPU has come after more   *)
(* waits of port 2 than its gap makes up for.                              *)
(*                                                                         *)
(* The invariant is IInv: the types, and until then InTime.  The parts of  *)
(* InTime come first, then one lemma per part and kind of step, and the    *)
(* theorems last.                                                          *)
(***************************************************************************)
EXTENDS PrgPort, TLAPS

-----------------------------------------------------------------------------
(* PRSS or PRMS at an access: waiting for busy, or for a read or a write   *)
(* to end; PFree is port 2 at rest, WPend a write it has not accepted.     *)
PAct  == prss \in {"wait", "read", "write", "dma_wait", "dma_write"}
MAct  == prms \in {"wait", "read", "write"}
Waits == prss \in {"wait", "dma_wait"} \/ prms = "wait"
Reads == prss = "read" \/ prms = "read"
Drops == prss \in {"write", "dma_write"} \/ prms = "write"
PFree == sc = 0 /\ ~sd /\ ~sd2
WPend == wr /\ ~sold.wr

TypeAux ==
  /\ {toggles, resets} \subseteq Nat
  /\ sub \in [st : {"off", "on"}, op : Op] /\ main \in [st : {"off", "on"}, op : Op]
  /\ dma \in [st : {"off", "ask", "wait"}, op : Op]
  /\ want \in [sub : Word, main : Word, taken : BOOLEAN]

(* One strobe at a time, up while one of the two machines is at an access. *)
Strobes ==
  /\ rd => ~wr
  /\ ~(PAct /\ MAct)
  /\ rd \/ wr <=> PAct \/ MAct
  /\ Reads => rd
  /\ Drops \/ prss = "dma_wait" => wr
  /\ dma.st = "ask" => dma.op.we # {}

(* The cache keeps up with its master: nothing is left pending, and the    *)
(* store is written only where no request looks the line up.               *)
CacheOn ==
  /\ en /\ toggles = 0 /\ ~pend_rd /\ ~pend_wr
  /\ s_rd_r <=> cst = "miss"
  /\ ssel => sc = 0 /\ sd
  /\ wreg.on => \/ cst = "init"
                \/ cst = "hit" /\ hcnt = 3
                \/ cst = "tail" /\ hcnt = 2
                \/ cst = "idle" /\ ~rd /\ ~wr

(* How far a read, or a write, has come: the state of the cache against    *)
(* those of its master and of port 2.  The strobe is noticed in a clock    *)
(* with phase = 1, so that busy is up when the gate array looks.           *)
ReadStage ==
  /\ rise_rd => cst = "idle" /\ phase = 1 /\ Waits
  /\ rd => cst \in {"idle", "look", "miss", "hit"}
  /\ rd /\ Waits => rise_rd \/ cst = "look"
  /\ cst = "look" => rd /\ old_rd /\ phase = 0 /\ Waits /\ ~saw_busy /\ q_op.a = bus.a
  /\ cst \in {"miss", "hit"} => rd /\ old_rd /\ Reads /\ q_op.a = bus.a
  /\ cst = "miss" => IF sold.rd THEN sc # 0 \/ saw_busy ELSE PFree /\ ~saw_busy
  /\ sold.rd => cst \in {"miss", "init"} \/ (cst = "hit" /\ hcnt = 3)
  /\ (cst = "idle" /\ rd) \/ cst \in {"look", "hit"} => PFree

WriteStage ==
  /\ rise_wr => cst = "idle" /\ phase = 1 /\ Waits /\ ~sold.wr
  /\ wr => cst \in {"idle", "wr", "tail"}
  /\ WPend => PFree /\ (rise_wr \/ (cst = "wr" /\ Waits /\ ~saw_busy /\ q_op = Line))
  /\ wr /\ Waits /\ sold.wr => cst = "wr" /\ (sc = 1 \/ (sc = 2 /\ phase = 0))
  /\ Drops => sold.wr
  /\ cst = "wr" /\ ~WPend => sc # 0 \/ saw_busy
  /\ (cst = "idle" /\ wr) \/ cst = "tail" => PFree

(* Where the newest data are: shadow is the memory with the one write      *)
(* under way put into it, and a read under way carries what shadow holds.  *)
Put(m, o) == [m EXCEPT ![o.a] = Merge(@, o.we, o.d)]
Landing == shadow = IF sc \in 1 .. 3 THEN Put(mem, sa) ELSE IF WPend THEN Put(mem, Line) ELSE mem

Fetch ==
  /\ cst = "miss" /\ sold.rd =>
       /\ sc # 0 => sa.a = bus.a /\ sa.we = {}
       /\ ssel => sdout = shadow[bus.a]
       /\ sc = 0 /\ ~ssel => sp = shadow[bus.a]
  /\ cst = "hit" \/ (cst = "idle" /\ rd /\ old_rd) => dout_r = shadow[bus.a]

(* A line, once the store has been written, and the write that has not     *)
(* come to it yet: every valid line is what shadow says but for that.      *)
Eff(i) == IF wreg.on /\ wreg.i = i THEN wreg.e ELSE line[i]
Writing == cst = "wr" \/ rise_wr
Wop == IF cst = "wr" THEN q_op ELSE Line
Fresh(e) == e.v => shadow[e.a] = IF Writing /\ e.a = Wop.a THEN Merge(e.d, Wop.we, Wop.d) ELSE e.d
LinesOk ==
  /\ cst = "init" => \A i \in 0 .. icnt - 1 : ~Eff(i).v
  /\ cst # "init" => \A i \in 0 .. Lines - 1 : Fresh(Eff(i)) /\ (Eff(i).v => IndexOf(Eff(i).a) = i)
  /\ cst \in {"look", "wr"} => q = line[IndexOf(q_op.a)]
  /\ Writing => \A l \in Wop.we : shadow[Wop.a][l] = Wop.d[l]

(* The two CPUs: whose access it is, what its answer will be, and whose    *)
(* acknowledge /DTACK is.                                                  *)
SubWaits == sub.st = "on" /\ ~sack /\ ~want.taken
SubData ==
  /\ prss \in {"wait", "read"} /\ rd =>
       /\ sub.st = "on" /\ ~sack /\ want.taken /\ sub.op.we = {}
       /\ bus.a = sub.op.a /\ want.sub = shadow[sub.op.a]
  /\ prss \in {"wait", "write"} /\ wr /\ ~posted =>
       sub.st = "on" /\ ~sack /\ want.taken /\ sub.op.we # {}
  /\ posted => prss \in {"wait", "write"} /\ wr /\ (sub.st = "on" /\ want.taken => sack)
  /\ sub.st = "on" /\ want.taken => (sack \/ prss \in {"wait", "read", "write"})
  /\ sub.st = "on" /\ sack => /\ want.taken
                              /\ sub.op.we = {} => prss = "end" /\ sdo = want.sub
MainData ==
  /\ mack <=> prms = "end"
  /\ main.st = "on" => gap = load.gap /\ load.main # {}
  /\ main.st = "off" /\ prms # "idle" => prms = "end" /\ gap = load.gap - load.between
  /\ MAct => main.st = "on" /\ sbrq
  /\ MAct /\ rd => /\ main.op.we = {}
                   /\ bus.a = main.op.a /\ want.main = shadow[main.op.a]
  /\ MAct /\ wr => main.op.we # {}
  /\ main.st = "on" /\ sbrq /\ prms = "end" /\ main.op.we = {} => mdo = want.main

(* clk_ram cycles until port 2 and the cache are done with what they have, *)
(* and with what the sub-CPU may still ask for once BUSREQ has stopped it, *)
(* when nothing puts port 2 off; and with it, while something may.         *)
PortLeft == IF sc # 0 THEN 9 - sc ELSE IF s_pending THEN 9
            ELSE IF sd THEN 2 ELSE IF sd2 THEN 1 ELSE 0
Left == CASE cst = "init" -> PortLeft + Lines - icnt
          [] rise_rd -> 16
          [] cst = "look" -> 15
          [] cst = "miss" -> PortLeft + 5
          [] cst \in {"hit", "tail"} -> hcnt + 1
          [] Writing -> PortLeft + 4
          [] OTHER -> PortLeft
Until == IF Left > 0 THEN Left + 2 ELSE 1 + phase
Rank == IF SubWaits THEN Until + 18 + (IF PAct THEN 4 ELSE IF prss = "idle" THEN 0 ELSE 2)
        ELSE IF PAct THEN Until ELSE Left
Asks == SubWaits \/ s_pending \/ rise_rd \/ cst = "look"
Need == Rank + (IF Asks THEN Budget - kept ELSE 0)

(* PRMS does not look at busy: the main CPU must come late enough.         *)
Timing ==
  load.main # {} =>
    /\ cst = "init" => /\ sbrq /\ main.st = "off" /\ gap <= 0
                       /\ Lines - icnt <= 1 + phase - 2 * gap
    /\ Halting /\ kept <= Budget => Need <= 2 * (load.gap - gap) + phase
    /\ main.st = "on" /\ sbrq =>
         /\ ~PAct /\ ~SubWaits
         /\ prms = "idle" => Left = 0
         /\ prms = "end" => Left <= 12 /\ ~Asks

-----------------------------------------------------------------------------
(* The types.                                                              *)
LEMMA MergeType ==
  ASSUME NEW w \in Word, NEW lanes, NEW d \in Word
  PROVE  Merge(w, lanes, d) \in Word
  BY DEF Merge, Word

LEMMA QuietTypes == Quiet \in Op /\ Quiet.a \in Addr /\ Quiet.d \in Word /\ Quiet.we = {}
  BY CacheAssumption DEF Op

LEMMA BlankType == Blank \in Entry
  BY QuietTypes DEF Blank, Entry

(* What Step and the rest of SdramPort do in a clock, case by case.         *)
LEMMA PortMoves ==
  ASSUME SdramPort
  PROVE  /\ \/ /\ sc = 0 /\ s_pending /\ sc' = 1 /\ sa' = Line
               /\ sold' = [rd |-> s_rd, wr |-> wr] /\ waited' = 0
            \/ /\ sc' = (IF sc \in {0, 6} THEN 0 ELSE sc + 1)
               /\ sa' = (IF sc \in {0, 6} THEN Quiet ELSE sa)
               /\ sold' = [rd |-> sold.rd /\ s_rd, wr |-> sold.wr /\ wr]
               /\ sc = 0 /\ s_pending => waited < load.wait
               /\ waited' = IF sc = 0 /\ s_pending THEN waited + 1 ELSE 0
         /\ sd' = (sc # 0) /\ sd2' = sd /\ ssel' = (sc = 6)
         /\ sdout' \in IF sc # 6 THEN {Quiet.d} ELSE IF sa.we = {} THEN {mem[sa.a]} ELSE Word
         /\ sp' = IF ssel THEN sdout ELSE sp
         /\ mem' = IF sc = 3 THEN [mem EXCEPT ![sa.a] = Merge(@, sa.we, sa.d)] ELSE mem
<1>1. Port2!Step /\ (PutOff => waited < load.wait) /\ (sc # 3 => mem' = mem)
      /\ waited' = IF PutOff THEN waited + 1 ELSE 0
  BY DEF SdramPort
<1>2. CASE Port2!Accept
  <2>1. ~PutOff
    BY <1>2 DEF Port2!Accept, PutOff
  <2> QED BY <1>1, <1>2, <2>1 DEF Port2!Accept, Port2!Step, s_pending, Merge, Word
<1>3. CASE Port2!Other
  <2>1. PutOff <=> sc = 0 /\ s_pending
    BY <1>3 DEF Port2!Other, PutOff
  <2> QED BY <1>1, <1>3, <2>1 DEF Port2!Other, Port2!Step, Merge, Word
<1> QED BY <1>1, <1>2, <1>3 DEF Port2!Step

LEMMA PortTypes ==
  ASSUME TypeOK, SdramPort
  PROVE  /\ sc' \in 0 .. 6 /\ waited' \in 0 .. load.wait /\ sa' \in Op /\ sp' \in Word /\ sdout' \in Word
         /\ {sd', sd2', ssel'} \subseteq BOOLEAN /\ sold' \in [rd : BOOLEAN, wr : BOOLEAN]
         /\ mem' \in [Addr -> Word]
<1>1. Line \in Op /\ rd \in BOOLEAN /\ wr \in BOOLEAN /\ s_rd \in BOOLEAN
  BY DEF TypeOK, Line, Op, rd, wr, s_rd
<1>2. sc' \in 0 .. 6 /\ waited' \in 0 .. load.wait
  <2>1. /\ sc \in 0 .. 6 /\ waited \in 0 .. load.wait /\ load.wait \in Nat
        /\ \/ sc' = 1 /\ waited' = 0
           \/ /\ sc' = (IF sc \in {0, 6} THEN 0 ELSE sc + 1)
              /\ sc = 0 /\ s_pending => waited < load.wait
              /\ waited' = IF sc = 0 /\ s_pending THEN waited + 1 ELSE 0
    BY PortMoves, LoadAssumption DEF TypeOK
  <2> QED BY <2>1
<1>3. sa' \in Op
  BY <1>1, PortMoves, QuietTypes DEF TypeOK
<1>4. sold' \in [rd : BOOLEAN, wr : BOOLEAN]
  BY <1>1, PortMoves DEF TypeOK
<1>5. mem' \in [Addr -> Word]
  <2>1. Merge(mem[sa.a], sa.we, sa.d) \in Word
    BY MergeType DEF TypeOK, Op
  <2> QED BY <2>1, PortMoves DEF TypeOK, Op
<1>6. sdout' \in Word /\ sp' \in Word
  BY PortMoves, QuietTypes DEF TypeOK, Op
<1> QED BY <1>2, <1>3, <1>4, <1>5, <1>6, PortMoves DEF TypeOK

LEMMA StoreType ==
  ASSUME NEW e \in Entry, Store(e)
  PROVE  wreg' \in [on : BOOLEAN, i : 0 .. Lines - 1, e : Entry]
<1>1. e.a \in Addr /\ IndexOf(e.a) \in 0 .. Lines - 1
  BY CacheAssumption DEF Entry
<1> QED BY <1>1 DEF Store

LEMMA CacheTypes ==
  ASSUME TypeOK, NEW reset \in BOOLEAN, Cache(reset)
  PROVE  /\ cst' \in {"init", "idle", "look", "miss", "hit", "wr", "tail"}
         /\ hcnt' \in 0 .. 3 /\ icnt' \in 0 .. Lines - 1
         /\ {saw_busy', s_rd_r', old_rd', old_wr', pend_rd', pend_wr'} \subseteq BOOLEAN
         /\ q_op' \in Op /\ dout_r' \in Word /\ line' \in [0 .. Lines - 1 -> Entry] /\ q' \in Entry
         /\ wreg' \in [on : BOOLEAN, i : 0 .. Lines - 1, e : Entry]
<1> DEFINE Cst == {"init", "idle", "look", "miss", "hit", "wr", "tail"}
           Shape == /\ cst' \in Cst
                    /\ hcnt' \in 0 .. 3 /\ icnt' \in 0 .. Lines - 1
                    /\ {saw_busy', s_rd_r', pend_rd', pend_wr'} \subseteq BOOLEAN
                    /\ q_op' \in Op /\ dout_r' \in Word
                    /\ wreg' \in [on : BOOLEAN, i : 0 .. Lines - 1, e : Entry]
<1>1. Line \in Op /\ rd \in BOOLEAN /\ wr \in BOOLEAN /\ s_busy \in BOOLEAN
      /\ rise_rd \in BOOLEAN /\ rise_wr \in BOOLEAN
  BY DEF TypeOK, Line, Op, rd, wr, s_busy, Port2!Busy, rise_rd, rise_wr
<1>2. NoWrite \in [on : BOOLEAN, i : 0 .. Lines - 1, e : Entry]
  BY BlankType, CacheAssumption DEF NoWrite
<1>3. old_rd' \in BOOLEAN /\ old_wr' \in BOOLEAN
  BY <1>1 DEF Cache
<1>4. line' \in [0 .. Lines - 1 -> Entry] /\ q' \in Entry
  <2>1. q_op.a \in Addr /\ bus.a \in Addr /\ \A x \in Addr : IndexOf(x) \in 0 .. Lines - 1
    BY CacheAssumption DEF TypeOK, Op
  <2> QED BY <2>1 DEF Cache, CacheStore, Read, TypeOK
<1>5. ASSUME CacheReset PROVE Shape
  <2>1. wreg' \in [on : BOOLEAN, i : 0 .. Lines - 1, e : Entry]
    BY <1>2, <1>5 DEF CacheReset, KeepStore
  <2>2. icnt' \in 0 .. Lines - 1
    BY <1>5, CacheAssumption DEF CacheReset
  <2> QED BY <1>5, <2>1, <2>2 DEF CacheReset, TypeOK
<1>6. ASSUME CacheInit PROVE Shape
  <2>1. {pend_rd', pend_wr'} \subseteq BOOLEAN
    BY <1>1, <1>6 DEF CacheInit, Remember, TypeOK
  <2>2. wreg' \in [on : BOOLEAN, i : 0 .. Lines - 1, e : Entry]
    BY <1>6, BlankType DEF CacheInit, TypeOK
  <2>3. icnt' \in 0 .. Lines - 1
    BY <1>6, CacheAssumption DEF CacheInit, TypeOK
  <2> QED BY <1>6, <2>1, <2>2, <2>3 DEF CacheInit, TypeOK
<1>7. ASSUME CacheIdle PROVE Shape
  <2>1. [q_op EXCEPT !.a = bus.a] \in Op
    BY DEF TypeOK, Op
  <2>2. wreg' \in [on : BOOLEAN, i : 0 .. Lines - 1, e : Entry]
    BY <1>2, <1>7 DEF CacheIdle, KeepStore
  <2>3. q_op' \in Op
    BY <1>1, <1>7, <2>1 DEF CacheIdle, TypeOK
  <2> QED BY <1>1, <1>7, <2>2, <2>3 DEF CacheIdle, TypeOK
<1>8. ASSUME CacheLook PROVE Shape
  <2>1. q.d \in Word
    BY DEF TypeOK, Entry
  <2>2. {pend_rd', pend_wr'} \subseteq BOOLEAN
    BY <1>1, <1>8 DEF CacheLook, Remember, TypeOK
  <2>3. wreg' \in [on : BOOLEAN, i : 0 .. Lines - 1, e : Entry]
    BY <1>2, <1>8 DEF CacheLook, KeepStore
  <2>4. dout_r' \in Word
    BY <1>8, <2>1 DEF CacheLook, TypeOK
  <2>5. hcnt' \in 0 .. 3 /\ cst' \in Cst
    BY <1>8 DEF CacheLook, TypeOK
  <2>7. s_rd_r' \in BOOLEAN
    BY <1>8 DEF CacheLook, TypeOK
  <2>6. saw_busy' \in BOOLEAN /\ icnt' \in 0 .. Lines - 1 /\ q_op' \in Op
    BY <1>8 DEF CacheLook, TypeOK
  <2> QED BY <2>2, <2>3, <2>4, <2>5, <2>6, <2>7
<1>9. ASSUME CacheMiss PROVE Shape
  <2>1. {pend_rd', pend_wr', saw_busy'} \subseteq BOOLEAN
    BY <1>1, <1>9 DEF CacheMiss, Remember, TypeOK
  <2>2. [v |-> TRUE, a |-> q_op.a, d |-> sp] \in Entry /\ q_op.a \in Addr
    BY DEF TypeOK, Op, Entry
  <2>3. wreg' \in [on : BOOLEAN, i : 0 .. Lines - 1, e : Entry]
    BY <1>2, <1>9, <2>2, StoreType DEF CacheMiss, KeepStore
  <2>4. hcnt' \in 0 .. 3 /\ cst' \in Cst /\ icnt' \in 0 .. Lines - 1 /\ q_op' \in Op
    BY <1>9 DEF CacheMiss, TypeOK
  <2>6. s_rd_r' \in BOOLEAN
    BY <1>9 DEF CacheMiss, TypeOK
  <2>5. dout_r' \in Word
    <3>1. dout_r' = sp \/ dout_r' = dout_r
      BY <1>9 DEF CacheMiss
    <3> QED BY <3>1 DEF TypeOK
  <2> QED BY <2>1, <2>3, <2>4, <2>5, <2>6
<1>10. ASSUME CacheWrite PROVE Shape
  <2>1. {pend_rd', pend_wr', saw_busy'} \subseteq BOOLEAN
    BY <1>1, <1>10 DEF CacheWrite, Remember, TypeOK
  <2>2. Merge(q.d, q_op.we, q_op.d) \in Word
    BY MergeType DEF TypeOK, Op, Entry
  <2>3. [v |-> TRUE, a |-> q_op.a, d |-> Merge(q.d, q_op.we, q_op.d)] \in Entry /\ q_op.a \in Addr
    BY <2>2 DEF TypeOK, Op, Entry
  <2>4. wreg' \in [on : BOOLEAN, i : 0 .. Lines - 1, e : Entry]
    BY <1>2, <1>10, <2>3, StoreType DEF CacheWrite, KeepStore
  <2> QED BY <1>10, <2>1, <2>4 DEF CacheWrite, TypeOK
<1>11. ASSUME CacheHold PROVE Shape
  <2>1. {pend_rd', pend_wr'} \subseteq BOOLEAN
    BY <1>1, <1>11 DEF CacheHold, Remember, TypeOK
  <2>2. hcnt' \in 0 .. 3
    BY <1>11 DEF CacheHold, TypeOK
  <2> QED BY <1>2, <1>11, <2>1, <2>2 DEF CacheHold, KeepStore, TypeOK
<1>12. Shape
  BY <1>5, <1>6, <1>7, <1>8, <1>9, <1>10, <1>11 DEF Cache
<1> QED BY <1>3, <1>4, <1>12

(* What the processors and the machines of the gate array assign.          *)
LEMMA GateArrayTypes ==
  ASSUME TypeOK, TypeAux, GateArray
  PROVE  /\ bus' \in [a : Addr, d : Word, we : SUBSET Lanes, rd : BOOLEAN]
         /\ prms' \in {"idle", "wait", "read", "write", "end"}
         /\ prss' \in {"idle", "wait", "read", "write", "end", "dma_wait", "dma_write", "dma_end"}
         /\ {mack', sack', posted', dma_run'} \subseteq BOOLEAN /\ mdo' \in Word /\ sdo' \in Word
<1> DEFINE Buses == [a : Addr, d : Word, we : SUBSET Lanes, rd : BOOLEAN]
<1>1. \A o \in Op : Drive(o) \in Buses
  BY DEF Drive, Op
<1>2. \A b \in Buses : DropWrite(b) \in Buses /\ DropRead(b) \in Buses
  BY DEF DropWrite, DropRead
<1>3. MainBus \in Buses
  BY <1>1, <1>2 DEF MainBus, TypeOK, TypeAux
<1>4. SubBus(MainBus) \in Buses
  <2> HIDE DEF Buses
  <2>1. sub.op \in Op /\ dma.op \in Op
    BY DEF TypeAux
  <2>2. Drive(sub.op) \in Buses /\ Drive(dma.op) \in Buses
    BY <1>1, <2>1
  <2>3. DropWrite(Drive(sub.op)) \in Buses
    BY <1>2, <2>2
  <2>4. DropRead(DropWrite(Drive(sub.op))) \in Buses
    BY <1>2, <2>3
  <2>5. DropWrite(MainBus) \in Buses /\ DropRead(MainBus) \in Buses
    BY <1>2, <1>3
  <2> QED BY <1>3, <2>2, <2>4, <2>5 DEF SubBus
<1>5. dout \in Word
  BY DEF dout, TypeOK
<1>6. prms' \in {"idle", "wait", "read", "write", "end"}
  BY DEF GateArray, PRMS, TypeOK
<1>7. prss' \in {"idle", "wait", "read", "write", "end", "dma_wait", "dma_write", "dma_end"}
  BY DEF GateArray, PRSS, TypeOK
<1>8. mdo' \in Word /\ sdo' \in Word
  BY <1>5 DEF GateArray, PRMS, PRSS, TypeOK
<1>9. sack' \in BOOLEAN /\ posted' \in BOOLEAN /\ dma_run' \in BOOLEAN
  BY DEF GateArray, PRSS, TypeOK, SubAck, SubSel
<1>10. mack' \in BOOLEAN
  BY DEF GateArray, PRMS, TypeOK
<1> QED BY <1>4, <1>6, <1>7, <1>8, <1>9, <1>10 DEF GateArray

LEMMA UsersTypes ==
  ASSUME TypeOK, TypeAux, Users
  PROVE  /\ sub' \in [st : {"off", "on"}, op : Op] /\ main' \in [st : {"off", "on"}, op : Op]
         /\ dma' \in [st : {"off", "ask", "wait"}, op : Op]
         /\ want' \in [sub : Word, main : Word, taken : BOOLEAN]
         /\ shadow' \in [Addr -> Word] /\ sbrq' \in BOOLEAN /\ gap' \in (0 - Boot) .. load.gap
<1>1. load.sub \cup load.main \cup load.dma \subseteq Op /\ load.gap \in Nat /\ load.between \in 0 .. load.gap
  BY LoadAssumption DEF TypeOK
<1>2. Off \in [st : {"off", "on"}, op : Op] /\ Off \in [st : {"off", "ask", "wait"}, op : Op]
  BY QuietTypes DEF Off
<1>3. sub' \in [st : {"off", "on"}, op : Op]
  BY <1>1, <1>2 DEF Users, SubCpu, On, TypeAux
<1>4. main' \in [st : {"off", "on"}, op : Op]
  BY <1>1, <1>2 DEF Users, MainCpu, On, TypeAux
<1>5. gap' \in (0 - Boot) .. load.gap /\ sbrq' \in BOOLEAN
  <2>1. PICK g \in Nat, b \in Nat : g = load.gap /\ b = load.between /\ b <= g
    BY <1>1
  <2>2. gap \in Int /\ 0 - Boot <= gap /\ gap <= g /\ Boot \in Nat
    BY <2>1, BoundAssumption DEF TypeOK
  <2>3. gap' = gap \/ (gap < g /\ gap' = gap + 1) \/ gap' = 0 \/ gap' = g - b
    BY <2>1 DEF Users, MainCpu
  <2>4. sbrq' \in BOOLEAN
    BY DEF Users, MainCpu, TypeOK
  <2> QED BY <2>1, <2>2, <2>3, <2>4
<1>6. dma' \in [st : {"off", "ask", "wait"}, op : Op]
  BY <1>1, <1>2 DEF Users, Dma, TypeAux
<1>7. want' \in [sub : Word, main : Word, taken : BOOLEAN]
  BY QuietTypes DEF Users, TypeOK, TypeAux, Op, SubTakes, SubSel
<1>8. shadow' \in [Addr -> Word]
  <2>1. Issued \in Op
    BY QuietTypes DEF Issued, TypeAux
  <2>2. Merge(shadow[Issued.a], Issued.we, Issued.d) \in Word
    BY <2>1, MergeType DEF TypeOK, Op
  <2> QED BY <2>1, <2>2 DEF Users, TypeOK, Op
<1> QED BY <1>3, <1>4, <1>5, <1>6, <1>7, <1>8

LEMMA WatchTypes ==
  ASSUME TypeOK, Watch
  PROVE  kept' \in Nat /\ late' \in BOOLEAN
<1>1. kept \in Nat /\ late \in BOOLEAN
  BY DEF TypeOK
<1>2. kept' = 0 \/ kept' = kept + 1 \/ kept' = kept
  BY DEF Watch
<1>3. late' \in BOOLEAN
  BY DEF Watch
<1> QED BY <1>1, <1>2, <1>3

LEMMA TypesInit == Init => TypeOK /\ TypeAux
<1> SUFFICES ASSUME Init PROVE TypeOK /\ TypeAux
  OBVIOUS
<1>1. load.gap \in Nat /\ load.resets \in Nat /\ load.wait \in Nat
  BY LoadAssumption DEF Init, Port2!Init
<1>2. NoWrite \in [on : BOOLEAN, i : 0 .. Lines - 1, e : Entry] /\ Blank \in Entry
  BY BlankType, CacheAssumption DEF NoWrite
<1>3. Off \in [st : {"off", "on"}, op : Op] /\ Off \in [st : {"off", "ask", "wait"}, op : Op]
  BY QuietTypes DEF Off
<1>4. Silent \in [a : Addr, d : Word, we : SUBSET Lanes, rd : BOOLEAN] /\ [a |-> Quiet.a, d |-> Quiet.d, we |-> {}] \in Op
  BY QuietTypes DEF Silent, Op
<1>5. NoWant \in [sub : Word, main : Word, taken : BOOLEAN]
  BY QuietTypes DEF NoWant
<1>6. TypeAux
  BY <1>3, <1>5 DEF Init, Port2!Init, TypeAux
<1>7. en \in BOOLEAN /\ {nohit, post_wr} \subseteq BOOLEAN /\ mem \in [Addr -> Word] /\ shadow \in [Addr -> Word]
  BY CacheAssumption DEF Init, Port2!Init
<1>8. gap \in (0 - Boot) .. load.gap /\ icnt \in 0 .. Lines - 1 /\ waited \in 0 .. load.wait /\ sc \in 0 .. 6 /\ hcnt \in 0 .. 3
  BY <1>1, CacheAssumption, BoundAssumption DEF Init, Port2!Init
<1>9. sold \in [rd : BOOLEAN, wr : BOOLEAN] /\ sa \in Op /\ q_op \in Op /\ sdout \in Word /\ sp \in Word
      /\ dout_r \in Word /\ mdo \in Word /\ sdo \in Word
  BY <1>4, QuietTypes DEF Init, Port2!Init
<1>10. q \in Entry /\ wreg \in [on : BOOLEAN, i : 0 .. Lines - 1, e : Entry] /\ line \in [0 .. Lines - 1 -> Entry]
       /\ bus \in [a : Addr, d : Word, we : SUBSET Lanes, rd : BOOLEAN]
  BY <1>2, <1>4 DEF Init, Port2!Init
<1>11. TypeOK
  BY <1>7, <1>8, <1>9, <1>10 DEF Init, Port2!Init, TypeOK
<1> QED BY <1>6, <1>11

LEMMA TypesNext == TypeOK /\ TypeAux /\ [Next]_vars => TypeOK' /\ TypeAux'
<1> SUFFICES ASSUME TypeOK, TypeAux, [Next]_vars PROVE TypeOK' /\ TypeAux'
  OBVIOUS
<1> DEFINE Asic == /\ bus' \in [a : Addr, d : Word, we : SUBSET Lanes, rd : BOOLEAN]
                   /\ prms' \in {"idle", "wait", "read", "write", "end"}
                   /\ prss' \in {"idle", "wait", "read", "write", "end", "dma_wait", "dma_write", "dma_end"}
                   /\ {mack', sack', posted', dma_run'} \subseteq BOOLEAN /\ mdo' \in Word /\ sdo' \in Word
           Board == /\ load' \in Loads /\ en' \in BOOLEAN /\ {nohit', post_wr'} \subseteq BOOLEAN
                    /\ {toggles', resets'} \subseteq Nat
           User == /\ sub' \in [st : {"off", "on"}, op : Op] /\ main' \in [st : {"off", "on"}, op : Op]
                   /\ dma' \in [st : {"off", "ask", "wait"}, op : Op]
                   /\ want' \in [sub : Word, main : Word, taken : BOOLEAN]
                   /\ shadow' \in [Addr -> Word] /\ sbrq' \in BOOLEAN /\ gap' \in (0 - Boot) .. load'.gap
<1>1. CASE Tick
  <2>1. phase' \in {0, 1}
    BY <1>1 DEF Tick, TypeOK
  <2>7. SdramPort /\ Cache(FALSE) /\ Watch
    BY <1>1 DEF Tick
  <2>2. Board /\ load' = load
    <3>1. CASE phase = 0
      <4>1. Osd
        BY <1>1, <3>1 DEF Tick
      <4>2. load' = load /\ load' \in Loads /\ nohit' \in NoHits /\ post_wr' \in PostWrites /\ resets' = resets
        BY <4>1 DEF Osd, TypeOK
      <4>3. nohit' \in BOOLEAN /\ post_wr' \in BOOLEAN
        BY <4>2, CacheAssumption
      <4>4. toggles' \in Nat
        BY <4>1 DEF Osd, TypeAux
      <4>5. en' = en \/ en' = ~en
        BY <4>1 DEF Osd
      <4> QED BY <4>2, <4>3, <4>4, <4>5 DEF TypeOK, TypeAux
    <3>2. CASE phase # 0
      BY <1>1, <3>2 DEF Tick, board, TypeOK, TypeAux
    <3> QED BY <3>1, <3>2
  <2>3. Asic
    <3>1. CASE phase = 0
      BY <1>1, <3>1, GateArrayTypes DEF Tick
    <3>2. CASE phase # 0
      BY <1>1, <3>2 DEF Tick, asic, TypeOK
    <3> QED BY <3>1, <3>2
  <2>4. User
    <3>1. CASE phase = 0
      BY <1>1, <2>2, <3>1, UsersTypes DEF Tick
    <3>2. CASE phase # 0
      BY <1>1, <2>2, <3>2 DEF Tick, asic, users, TypeOK, TypeAux
    <3> QED BY <3>1, <3>2
  <2> HIDE DEF Asic, Board, User
  <2>5. TypeAux'
    BY <2>2, <2>4 DEF TypeAux, Board, User
  <2>6. TypeOK'
    BY <2>1, <2>2, <2>3, <2>4, <2>7, PortTypes, CacheTypes, WatchTypes DEF TypeOK, Asic, Board, User
  <2> QED BY <2>5, <2>6
<1>2. CASE Reset
  <2>1. phase' \in {0, 1} /\ SdramPort /\ Watch /\ \E whole \in ResetsCache : Cache(whole)
    BY <1>2 DEF Reset
  <2>2. PICK whole \in BOOLEAN : Cache(whole)
    BY <2>1, CacheAssumption
  <2>3. Board /\ load' = load
    BY <1>2, CacheAssumption DEF Reset, TypeOK, TypeAux
  <2>4. Asic
    <3>1. [Silent EXCEPT !.a = bus.a] \in [a : Addr, d : Word, we : SUBSET Lanes, rd : BOOLEAN]
      BY QuietTypes DEF Silent, TypeOK
    <3> QED BY <1>2, <3>1 DEF Reset, TypeOK
  <2>5. User
    <3>1. load.gap \in Nat
      BY LoadAssumption DEF TypeOK
    <3>2. Off \in [st : {"off", "on"}, op : Op] /\ Off \in [st : {"off", "ask", "wait"}, op : Op]
      BY QuietTypes DEF Off
    <3>3. NoWant \in [sub : Word, main : Word, taken : BOOLEAN]
      BY QuietTypes DEF NoWant
    <3>4. sa' \in Op /\ mem' \in [Addr -> Word]
      BY <2>1, PortTypes
    <3>5. Merge(mem'[sa'.a], sa'.we, sa'.d) \in Word
      BY <3>4, MergeType DEF Op
    <3>6. shadow' \in [Addr -> Word]
      BY <1>2, <3>4, <3>5 DEF Reset, Op
    <3>7. gap' \in (0 - Boot) .. load'.gap
      BY <1>2, <2>3, <3>1, BoundAssumption DEF Reset
    <3> QED BY <1>2, <3>2, <3>3, <3>6, <3>7 DEF Reset
  <2> HIDE DEF Asic, Board, User
  <2>6. TypeAux'
    BY <2>3, <2>5 DEF TypeAux, Board, User
  <2>7. TypeOK'
    BY <2>1, <2>2, <2>3, <2>4, <2>5, PortTypes, CacheTypes, WatchTypes DEF TypeOK, Asic, Board, User
  <2> QED BY <2>6, <2>7
<1>3. CASE UNCHANGED vars
  BY <1>3 DEF TypeOK, TypeAux, vars, board, port, cache, asic, users
<1> QED BY <1>1, <1>2, <1>3 DEF Next

(* Every register stays within its type: the line counter of S_INIT within *)
(* the lines, the hold counter within its bits, the wait of the port       *)
(* within its bound (TypeOK).                                              *)
THEOREM TypeCorrect == Spec => []TypeOK
<1>1. TypeOK /\ TypeAux /\ [Next]_vars => (TypeOK /\ TypeAux)'
  BY TypesNext
<1> QED BY <1>1, TypesInit, PTL DEF Spec

-----------------------------------------------------------------------------
(* A clock as the cache and the port see it: what happens to the strobes.  *)
Same == (Waits' <=> Waits) /\ (Reads' <=> Reads) /\ (Drops' <=> Drops)
Rest == ~Waits' /\ ~Reads' /\ ~Drops'

GaStay ==
  /\ (rd' <=> rd) /\ (wr' <=> wr) /\ Line' = Line /\ bus'.a = bus.a /\ Same
  /\ phase = 0 /\ Waits => ~busy
GaIssue ==
  /\ phase = 0 /\ ~rd /\ ~wr /\ cst = "idle" /\ PFree
  /\ (rd' <=> ~wr') /\ Waits' /\ ~Reads' /\ ~Drops'
GaSeen ==
  /\ phase = 0 /\ Waits /\ busy
  /\ (rd' <=> rd) /\ (wr' <=> wr) /\ Line' = Line /\ bus'.a = bus.a
  /\ ~Waits' /\ (Reads' <=> rd) /\ (Drops' <=> wr)
GaReadEnds ==
  /\ phase = 0 /\ Reads /\ ~busy /\ ~rd' /\ ~wr' /\ bus'.a = bus.a /\ Rest
GaWriteEnds ==
  /\ phase = 0 /\ Drops /\ ~rd' /\ ~wr' /\ bus'.a = bus.a /\ Rest
GaBlocked ==
  /\ phase = 0 /\ ~rd /\ ~wr /\ cst = "idle" /\ ~rd' /\ ~wr' /\ Rest
Event == GaStay \/ GaIssue \/ GaSeen \/ GaReadEnds \/ GaWriteEnds \/ GaBlocked

CacheStep ==
  /\ CacheInit \/ CacheIdle \/ CacheLook \/ CacheMiss \/ CacheWrite \/ CacheHold
  /\ (old_rd' <=> rd) /\ (old_wr' <=> wr)
  /\ CacheStore

(* What every lemma about a clock without a reset starts from.             *)
Strobed ==
  /\ rd => ~wr
  /\ rd \/ wr <=> Waits \/ Reads \/ Drops
  /\ ~(Waits /\ Reads) /\ ~(Waits /\ Drops) /\ ~(Reads /\ Drops)
  /\ Reads => rd
  /\ Drops => wr
Clocked ==
  /\ TypeOK /\ TypeAux /\ Strobed /\ CacheOn /\ ReadStage /\ WriteStage
  /\ SdramPort /\ CacheStep /\ Event
  /\ phase' = 1 - phase /\ toggles' = toggles /\ (en' <=> en)

LEMMA Wires ==
  ASSUME TypeOK
  PROVE  /\ rd \in BOOLEAN /\ wr \in BOOLEAN /\ s_busy \in BOOLEAN
         /\ rise_rd \in BOOLEAN /\ rise_wr \in BOOLEAN /\ s_pending \in BOOLEAN
         /\ Line = [a |-> bus.a, d |-> bus.d, we |-> bus.we] /\ Line \in Op /\ Line.a = bus.a
         /\ phase \in {0, 1} /\ sc \in 0 .. 6 /\ hcnt \in 0 .. 3
  BY DEF TypeOK, rd, wr, s_busy, Port2!Busy, rise_rd, rise_wr, Line, s_pending, Port2!Pending, Op

(* The port: what a clock does to the access.                              *)
LEMMA PortStep ==
  ASSUME Clocked
  PROVE  /\ s_pending <=> (s_rd_r /\ ~sold.rd) \/ WPend
         /\ (sd' <=> sc # 0) /\ (sd2' <=> sd) /\ (ssel' <=> sc = 6)
         /\ \/ /\ sc = 0 /\ s_pending /\ sc' = 1 /\ sa' = Line
               /\ (sold.rd' <=> s_rd_r) /\ (sold.wr' <=> wr)
            \/ /\ sc = 0 /\ sc' = 0
               /\ (sold.rd' <=> sold.rd /\ s_rd_r) /\ (sold.wr' <=> sold.wr /\ wr)
            \/ /\ sc # 0 /\ (sc # 6 => sa' = sa) /\ sc' = (IF sc = 6 THEN 0 ELSE sc + 1)
               /\ (sold.rd' <=> sold.rd /\ s_rd_r) /\ (sold.wr' <=> sold.wr /\ wr)
<1>1. s_pending <=> (s_rd_r /\ ~sold.rd) \/ WPend
  BY DEF Clocked, CacheOn, s_pending, Port2!Pending, s_rd, WPend
<1>2. s_rd = s_rd_r /\ sc \in 0 .. 6 /\ SdramPort
  BY Wires DEF Clocked, CacheOn, s_rd
<1>3. (sd' <=> sc # 0) /\ (sd2' <=> sd) /\ (ssel' <=> sc = 6)
  <2>1. sd' = (sc # 0) /\ sd2' = sd /\ ssel' = (sc = 6)
    BY <1>2, PortMoves
  <2> QED BY <2>1, Zenon
<1>4. CASE /\ sc = 0 /\ s_pending /\ sc' = 1 /\ sa' = Line
           /\ sold' = [rd |-> s_rd, wr |-> wr] /\ waited' = 0
  BY <1>1, <1>2, <1>3, <1>4
<1>5. CASE /\ sc' = (IF sc \in {0, 6} THEN 0 ELSE sc + 1)
           /\ sa' = (IF sc \in {0, 6} THEN Quiet ELSE sa)
           /\ sold' = [rd |-> sold.rd /\ s_rd, wr |-> sold.wr /\ wr]
           /\ sc = 0 /\ s_pending => waited < load.wait
           /\ waited' = IF sc = 0 /\ s_pending THEN waited + 1 ELSE 0
  <2>1. /\ sold.rd' <=> sold.rd /\ s_rd_r
        /\ sold.wr' <=> sold.wr /\ wr
    BY <1>2, <1>5
  <2>2. CASE sc = 0
    BY <1>1, <1>3, <1>5, <2>1, <2>2
  <2>3. CASE sc # 0
    BY <1>1, <1>2, <1>3, <1>5, <2>1, <2>3
  <2> QED BY <2>2, <2>3
<1> QED BY <1>2, <1>4, <1>5, PortMoves

(* No request is noticed late, so that none is remembered.                 *)
LEMMA NothingKept ==
  ASSUME Clocked
  PROVE  ~pend_rd' /\ ~pend_wr'
<1>1. rise_rd \/ rise_wr => cst = "idle"
  BY DEF Clocked, ReadStage, WriteStage
<1>2. ~pend_rd /\ ~pend_wr /\ (rise_rd => ~rise_wr)
  BY DEF Clocked, CacheOn, Strobed, rise_rd, rise_wr
<1>3. CASE cst = "idle"
  BY <1>2, <1>3 DEF Clocked, CacheStep, CacheInit, CacheIdle, CacheLook, CacheMiss, CacheWrite, CacheHold
<1>4. CASE cst # "idle"
  BY <1>1, <1>2, <1>4 DEF Clocked, CacheStep, CacheInit, CacheIdle, CacheLook, CacheMiss, CacheWrite, CacheHold, Remember
<1> QED BY <1>3, <1>4

(* The cache: what a clock makes of its state.                             *)
CacheMove ==
  \/ cst = "init" /\ cst' \in {"init", "idle"}
  \/ cst = "idle" /\ rise_rd /\ cst' = "look" /\ q_op'.a = bus.a /\ ~saw_busy' /\ ~wreg'.on
     /\ dout_r' = dout_r
  \/ cst = "idle" /\ ~rise_rd /\ rise_wr /\ cst' = "wr" /\ q_op' = Line /\ ~saw_busy' /\ ~wreg'.on
     /\ dout_r' = dout_r
  \/ cst = "idle" /\ ~rise_rd /\ ~rise_wr /\ cst' = "idle" /\ ~wreg'.on /\ dout_r' = dout_r
  \/ cst = "look" /\ cst' = "hit" /\ hcnt' = 2 /\ hit /\ dout_r' = q.d /\ q_op' = q_op /\ ~wreg'.on
  \/ cst = "look" /\ cst' = "miss" /\ q_op' = q_op /\ ~wreg'.on /\ (saw_busy' <=> saw_busy)
  \/ cst = "miss" /\ cst' = "miss" /\ ~(saw_busy /\ ~s_busy) /\ (saw_busy' <=> saw_busy \/ s_busy)
     /\ q_op' = q_op /\ ~wreg'.on
  \/ cst = "miss" /\ cst' = "hit" /\ saw_busy /\ ~s_busy /\ hcnt' = 3 /\ q_op' = q_op
     /\ dout_r' = sp /\ wreg' = [on |-> TRUE, i |-> IndexOf(q_op.a), e |-> [v |-> TRUE, a |-> q_op.a, d |-> sp]]
  \/ cst = "wr" /\ cst' = "wr" /\ ~(saw_busy /\ ~s_busy) /\ (saw_busy' <=> saw_busy \/ s_busy)
     /\ q_op' = q_op /\ ~wreg'.on
  \/ cst = "wr" /\ cst' = "tail" /\ saw_busy /\ ~s_busy /\ hcnt' = 2 /\ q_op' = q_op
  \/ cst \in {"hit", "tail"} /\ ~wreg'.on /\ dout_r' = dout_r /\ q_op' = q_op
     /\ IF hcnt = 0 THEN cst' = "idle" ELSE cst' = cst /\ hcnt' = hcnt - 1

LEMMA CacheMoves ==
  ASSUME Clocked
  PROVE  CacheMove /\ (s_rd_r' <=> cst' = "miss")
<1>1. ~pend_rd /\ ~pend_wr /\ (s_rd_r <=> cst = "miss")
  BY DEF Clocked, CacheOn
<1>2. CASE CacheInit
  BY <1>1, <1>2 DEF CacheInit, CacheMove
<1>3. CASE CacheIdle
  <2>1. ~wreg'.on
    BY <1>3 DEF CacheIdle, KeepStore, NoWrite
  <2>2. q_op \in Op
    BY DEF Clocked, TypeOK
  <2>3. [q_op EXCEPT !.a = bus.a].a = bus.a
    BY <2>2 DEF Op
  <2>4. CASE rise_rd
    BY <1>1, <1>3, <2>1, <2>3, <2>4 DEF CacheIdle, CacheMove
  <2>5. CASE ~rise_rd /\ rise_wr
    BY <1>1, <1>3, <2>1, <2>5 DEF CacheIdle, CacheMove
  <2>6. CASE ~rise_rd /\ ~rise_wr
    BY <1>1, <1>3, <2>1, <2>6 DEF CacheIdle, CacheMove
  <2> QED BY <2>4, <2>5, <2>6
<1>4. CASE CacheLook
  BY <1>1, <1>4 DEF CacheLook, CacheMove, KeepStore, NoWrite
<1>5. CASE CacheMiss
  <2>1. CASE saw_busy /\ ~s_busy
    BY <1>1, <1>5, <2>1 DEF CacheMiss, CacheMove, Store
  <2>2. CASE ~(saw_busy /\ ~s_busy)
    <3>1. saw_busy' <=> saw_busy \/ s_busy
      BY <1>5 DEF CacheMiss
    <3>2. ~wreg'.on
      BY <1>5, <2>2 DEF CacheMiss, KeepStore, NoWrite
    <3> QED BY <1>1, <1>5, <2>2, <3>1, <3>2 DEF CacheMiss, CacheMove
  <2> QED BY <2>1, <2>2
<1>6. CASE CacheWrite
  <2>1. CASE saw_busy /\ ~s_busy
    BY <1>1, <1>6, <2>1 DEF CacheWrite, CacheMove
  <2>2. CASE ~(saw_busy /\ ~s_busy)
    <3>1. saw_busy' <=> saw_busy \/ s_busy
      BY <1>6 DEF CacheWrite
    <3>2. ~wreg'.on
      BY <1>6, <2>2 DEF CacheWrite, KeepStore, NoWrite
    <3> QED BY <1>1, <1>6, <2>2, <3>1, <3>2 DEF CacheWrite, CacheMove
  <2> QED BY <2>1, <2>2
<1>7. CASE CacheHold
  BY <1>1, <1>7 DEF CacheHold, CacheMove, KeepStore, NoWrite
<1> QED BY <1>2, <1>3, <1>4, <1>5, <1>6, <1>7 DEF Clocked, CacheStep

(* What the stages of a read allow.                                        *)
LEMMA ReadStageStep ==
  ASSUME Clocked
  PROVE  ReadStage'
<1> USE Wires DEF Clocked
<1>1. /\ rise_rd <=> rd /\ ~old_rd
      /\ rise_rd' <=> rd' /\ ~rd
  BY DEF rise_rd, CacheStep
<1>2. s_busy <=> sc # 0 \/ sd \/ sd2
  BY DEF s_busy, Port2!Busy
<1>3. busy <=> cst \in {"init", "look", "miss", "hit", "tail"} \/ (cst = "wr" /\ saw_busy) \/ s_busy
  BY DEF busy, busy_int, CacheOn
<1>4. rise_rd' => cst' = "idle" /\ phase' = 1 /\ Waits'
  BY <1>1, CacheMoves DEF CacheMove, Event, GaStay, GaIssue, GaSeen, GaReadEnds, GaWriteEnds, GaBlocked, Same, Rest, rise_wr
<1>5. rd' => cst' \in {"idle", "look", "miss", "hit"}
  BY <1>1, CacheMoves DEF CacheMove, ReadStage, Strobed, Event, GaStay, GaIssue, GaSeen, GaReadEnds, GaWriteEnds, GaBlocked, Same, Rest, rise_wr
<1>6. rd' /\ Waits' => rise_rd' \/ cst' = "look"
  <2>1. CASE rd /\ Waits
    <3>1. cst = "look" => phase = 0 /\ busy
      BY <1>3 DEF ReadStage
    <3>2. cst # "look"  \/ ~Waits'
      BY <2>1, <3>1 DEF Event, GaStay, GaIssue, GaSeen, GaReadEnds, GaWriteEnds, GaBlocked, Same, Rest
    <3>3. (cst = "idle" /\ rise_rd) \/ ~Waits'
      BY <2>1, <3>2 DEF ReadStage
    <3> QED BY <3>3, CacheMoves DEF CacheMove
  <2>2. CASE ~(rd /\ Waits)
    BY <1>1, <2>2 DEF Strobed, Event, GaStay, GaIssue, GaSeen, GaReadEnds, GaWriteEnds, GaBlocked, Same, Rest
  <2> QED BY <2>1, <2>2
<1>7. cst' = "look" => rd' /\ old_rd' /\ phase' = 0 /\ Waits' /\ ~saw_busy' /\ q_op'.a = bus'.a
  <2>1. SUFFICES ASSUME cst' = "look"
                 PROVE  rd' /\ old_rd' /\ phase' = 0 /\ Waits' /\ ~saw_busy' /\ q_op'.a = bus'.a
    OBVIOUS
  <2>2. cst = "idle" /\ rise_rd /\ q_op'.a = bus.a /\ ~saw_busy'
    BY <2>1, CacheMoves DEF CacheMove
  <2>3. phase = 1 /\ Waits /\ rd /\ old_rd'
    BY <1>1, <2>2 DEF ReadStage, CacheStep
  <2>4. GaStay
    BY <2>3 DEF Event, GaStay, GaIssue, GaSeen, GaReadEnds, GaWriteEnds, GaBlocked, Same, Rest
  <2> QED BY <2>2, <2>3, <2>4 DEF GaStay, Same
<1>8. cst' \in {"miss", "hit"} => rd' /\ old_rd' /\ Reads' /\ q_op'.a = bus'.a
  <2>1. SUFFICES ASSUME cst' \in {"miss", "hit"}
                 PROVE  rd' /\ old_rd' /\ Reads' /\ q_op'.a = bus'.a
    OBVIOUS
  <2>2. cst \in {"look", "miss", "hit"} /\ q_op' = q_op
    BY <2>1, CacheMoves DEF CacheMove
  <2>3. rd /\ old_rd' /\ q_op.a = bus.a /\ busy
    BY <1>3, <2>2 DEF ReadStage, CacheStep
  <2>4. CASE cst = "look"
    <3>1. phase = 0 /\ Waits
      BY <2>4 DEF ReadStage
    <3>2. GaSeen
      BY <2>3, <3>1 DEF Event, GaStay, GaIssue, GaSeen, GaReadEnds, GaWriteEnds, GaBlocked, Same, Rest, Strobed
    <3> QED BY <2>2, <2>3, <3>2 DEF GaSeen
  <2>5. CASE cst # "look"
    <3>1. Reads /\ ~Waits /\ ~Drops
      BY <2>2, <2>5 DEF ReadStage, Strobed
    <3>2. GaStay
      BY <2>3, <3>1 DEF Event, GaStay, GaIssue, GaSeen, GaReadEnds, GaWriteEnds, GaBlocked, Same, Rest
    <3> QED BY <2>2, <2>3, <3>1, <3>2 DEF GaStay, Same
  <2> QED BY <2>4, <2>5
<1>9. cst' = "miss" => IF sold'.rd THEN sc' # 0 \/ saw_busy' ELSE PFree' /\ ~saw_busy'
  <2>1. CASE cst = "miss"
    BY <1>2, <2>1, PortStep, CacheMoves DEF CacheMove, CacheOn, ReadStage, WriteStage, PFree, Strobed
  <2>2. CASE cst = "look"
    BY <1>2, <2>2, PortStep, CacheMoves DEF CacheMove, CacheOn, ReadStage, WriteStage, PFree, Strobed
  <2> QED BY <2>1, <2>2, CacheMoves DEF CacheMove
<1>10. sold'.rd => cst' \in {"miss", "init"} \/ (cst' = "hit" /\ hcnt' = 3)
  BY PortStep, CacheMoves DEF CacheMove, CacheOn
<1>11. (cst' = "idle" /\ rd') \/ cst' \in {"look", "hit"} => PFree'
  BY <1>1, <1>2, <1>3, PortStep, CacheMoves DEF CacheMove, CacheOn, ReadStage, WriteStage, Strobed, PFree, Event, GaStay, GaIssue, GaSeen, GaReadEnds, GaWriteEnds, GaBlocked, Same, Rest, rise_wr
<1> QED BY <1>4, <1>5, <1>6, <1>7, <1>8, <1>9, <1>10, <1>11 DEF ReadStage

(* What the stages of a write allow.                                       *)
LEMMA WriteStageStep ==
  ASSUME Clocked
  PROVE  WriteStage'
<1> USE Wires DEF Clocked
<1>1. /\ rise_wr <=> wr /\ ~old_wr
      /\ rise_wr' <=> wr' /\ ~wr
      /\ WPend <=> wr /\ ~sold.wr
      /\ WPend' <=> wr' /\ ~sold'.wr
      /\ PFree' <=> sc' = 0 /\ ~sd' /\ ~sd2'
  BY DEF rise_wr, CacheStep, WPend, PFree
<1>2. s_busy <=> sc # 0 \/ sd \/ sd2
  BY DEF s_busy, Port2!Busy
<1>3. busy <=> cst \in {"init", "look", "miss", "hit", "tail"} \/ (cst = "wr" /\ saw_busy) \/ s_busy
  BY DEF busy, busy_int, CacheOn
<1>4. sold'.wr => wr
  BY PortStep
<1>5. rise_wr' => cst' = "idle" /\ phase' = 1 /\ Waits' /\ ~sold'.wr
  <2>1. SUFFICES ASSUME rise_wr' PROVE cst' = "idle" /\ phase' = 1 /\ Waits' /\ ~sold'.wr
    OBVIOUS
  <2>2. GaIssue
    BY <1>1, <2>1 DEF Event, GaStay, GaIssue, GaSeen, GaReadEnds, GaWriteEnds, GaBlocked, Same, Rest
  <2>3. cst' = "idle"
    BY <1>1, <2>2, CacheMoves DEF GaIssue, CacheMove, rise_rd
  <2> QED BY <1>1, <1>4, <2>1, <2>2, <2>3 DEF GaIssue
<1>6. wr' => cst' \in {"idle", "wr", "tail"}
  <2>1. CASE rise_wr'
    BY <1>5, <2>1
  <2>2. CASE wr
    BY <2>2, CacheMoves DEF CacheMove, WriteStage, Strobed, rise_rd
  <2> QED BY <1>1, <2>1, <2>2
<1>7. WPend' => PFree' /\ (rise_wr' \/ (cst' = "wr" /\ Waits' /\ ~saw_busy' /\ q_op' = Line'))
  <2>1. SUFFICES ASSUME WPend' PROVE PFree' /\ (rise_wr' \/ (cst' = "wr" /\ Waits' /\ ~saw_busy' /\ q_op' = Line'))
    OBVIOUS
  <2>2. CASE rise_wr'
    <3>1. GaIssue
      BY <1>1, <2>2 DEF Event, GaStay, GaIssue, GaSeen, GaReadEnds, GaWriteEnds, GaBlocked, Same, Rest
    <3>2. ~s_pending
      BY <3>1, PortStep DEF GaIssue, CacheOn, WPend
    <3> QED BY <1>1, <2>2, <3>1, <3>2, PortStep DEF GaIssue, PFree
  <2>3. CASE wr
    <3>1. WPend /\ sc' = 0
      BY <1>1, <2>1, <2>3, PortStep DEF WriteStage, PFree
    <3>2. PFree /\ PFree' /\ ~s_busy
      BY <1>1, <1>2, <3>1, PortStep DEF WriteStage, PFree
    <3>3. rise_wr \/ (cst = "wr" /\ Waits /\ ~saw_busy /\ q_op = Line)
      BY <3>1 DEF WriteStage
    <3>4. Waits /\ ~busy
      BY <1>3, <3>2, <3>3 DEF WriteStage
    <3>5. GaStay
      BY <1>1, <2>1, <2>3, <3>1, <3>4 DEF Event, GaStay, GaIssue, GaSeen, GaReadEnds, GaWriteEnds, GaBlocked, Same, Rest, Strobed, WriteStage
    <3>6. ~rise_rd
      BY <2>3 DEF rise_rd, Strobed
    <3>7. cst' = "wr" /\ ~saw_busy' /\ q_op' = Line
      BY <3>2, <3>3, <3>6, CacheMoves DEF CacheMove, WriteStage
    <3> QED BY <3>2, <3>4, <3>5, <3>7 DEF GaStay, Same
  <2> QED BY <1>1, <2>1, <2>2, <2>3
<1>8. wr' /\ Waits' /\ sold'.wr => cst' = "wr" /\ (sc' = 1 \/ (sc' = 2 /\ phase' = 0))
  <2>1. SUFFICES ASSUME wr', Waits', sold'.wr PROVE cst' = "wr" /\ (sc' = 1 \/ (sc' = 2 /\ phase' = 0))
    OBVIOUS
  <2>2. wr
    BY <1>4, <2>1
  <2>3. GaStay /\ Waits
    BY <2>1, <2>2 DEF Event, GaStay, GaIssue, GaSeen, GaReadEnds, GaWriteEnds, GaBlocked, Same, Rest
  <2>4. ~rd /\ ~rise_rd
    BY <2>2 DEF Strobed, rise_rd
  <2>5. CASE WPend
    <3>1. rise_wr \/ (cst = "wr" /\ ~saw_busy)
      BY <2>5 DEF WriteStage
    <3>2. cst' = "wr"
      BY <2>4, <3>1, CacheMoves DEF CacheMove, WriteStage
    <3>3. sc' = 1
      BY <1>1, <2>1, <2>5, PortStep
    <3> QED BY <3>2, <3>3
  <2>6. CASE ~WPend
    <3>1. cst = "wr" /\ (sc = 1 \/ (sc = 2 /\ phase = 0))
      BY <1>1, <2>2, <2>3, <2>6 DEF WriteStage
    <3>2. phase = 1 /\ sc = 1
      BY <1>2, <1>3, <2>3, <3>1 DEF GaStay
    <3>3. cst' = "wr" /\ sc' = 2
      BY <1>2, <3>1, <3>2, CacheMoves, PortStep DEF CacheMove
    <3> QED BY <3>2, <3>3
  <2> QED BY <2>5, <2>6
<1>9. Drops' => sold'.wr
  <2>1. SUFFICES ASSUME Drops' PROVE sold'.wr
    OBVIOUS
  <2>2. CASE GaStay
    <3>1. Drops /\ wr /\ sold.wr
      BY <2>1, <2>2 DEF GaStay, Same, Strobed, WriteStage
    <3> QED BY <3>1, PortStep
  <2>3. CASE GaSeen
    <3>1. wr /\ Waits /\ busy
      BY <2>1, <2>3 DEF GaSeen
    <3>2. ~WPend
      BY <1>1, <1>2, <1>3, <3>1 DEF WriteStage, PFree
    <3> QED BY <1>1, <3>1, <3>2, PortStep
  <2> QED BY <2>1, <2>2, <2>3 DEF Event, GaStay, GaIssue, GaSeen, GaReadEnds, GaWriteEnds, GaBlocked, Same, Rest
<1>10. cst' = "wr" /\ ~WPend' => sc' # 0 \/ saw_busy'
  <2>1. SUFFICES ASSUME cst' = "wr", ~WPend', sc' = 0 PROVE saw_busy'
    OBVIOUS
  <2>2. CASE cst = "idle"
    <3>1. rise_wr /\ phase = 1 /\ WPend /\ Waits
      BY <2>1, <2>2, CacheMoves, <1>1 DEF CacheMove, WriteStage
    <3>2. GaStay
      BY <3>1 DEF Event, GaStay, GaIssue, GaSeen, GaReadEnds, GaWriteEnds, GaBlocked, Same, Rest
    <3> QED BY <1>1, <2>1, <3>1, <3>2, PortStep DEF GaStay
  <2>3. CASE cst = "wr"
    <3>1. saw_busy' <=> saw_busy \/ s_busy
      BY <2>1, <2>3, CacheMoves DEF CacheMove
    <3>2. CASE WPend
      <4>1. Waits /\ wr /\ ~s_busy /\ ~saw_busy
        BY <1>1, <1>2, <2>3, <3>2 DEF WriteStage, PFree
      <4>2. GaStay
        BY <1>3, <2>3, <4>1 DEF Event, GaStay, GaIssue, GaSeen, GaReadEnds, GaWriteEnds, GaBlocked, Same, Rest, Strobed
      <4> QED BY <1>1, <2>1, <3>2, <4>1, <4>2, PortStep DEF GaStay
    <3>3. CASE ~WPend
      BY <1>2, <2>3, <3>1, <3>3 DEF WriteStage
    <3> QED BY <3>2, <3>3
  <2> QED BY <2>1, <2>2, <2>3, CacheMoves DEF CacheMove
<1>11. (cst' = "idle" /\ wr') \/ cst' = "tail" => PFree'
  <2>1. SUFFICES ASSUME (cst' = "idle" /\ wr') \/ cst' = "tail" PROVE PFree'
    OBVIOUS
  <2>2. CASE rise_wr'
    BY <1>1, <1>7, <1>5, <2>2
  <2>3. CASE ~rise_wr'
    <3>1. cst \in {"idle", "wr", "tail"} /\ (cst = "idle" => wr /\ ~rise_wr) /\ (cst = "wr" => ~s_busy /\ saw_busy)
      BY <1>1, <2>1, <2>3, CacheMoves DEF CacheMove, WriteStage, Strobed, rise_rd
    <3>2. PFree /\ ~WPend /\ cst # "miss"
      BY <1>1, <1>2, <3>1 DEF WriteStage, PFree
    <3> QED BY <1>1, <3>2, PortStep DEF PFree, CacheOn
  <2> QED BY <2>2, <2>3
<1> QED BY <1>5, <1>6, <1>7, <1>8, <1>9, <1>10, <1>11 DEF WriteStage

(* What holds of the cache at any stage.                                   *)
LEMMA CacheOnStep ==
  ASSUME Clocked
  PROVE  CacheOn'
<1> USE Wires DEF Clocked
<1>1. en' /\ toggles' = 0
  BY DEF CacheOn
<1>2. s_rd_r' <=> cst' = "miss"
  BY CacheMoves
<1>3. ssel' => sc' = 0 /\ sd'
  BY PortStep
<1>4. wreg'.on => \/ cst' = "init"
                  \/ cst' = "hit" /\ hcnt' = 3
                  \/ cst' = "tail" /\ hcnt' = 2
                  \/ cst' = "idle" /\ ~rd' /\ ~wr'
  <2>1. cst = "init" => ~rd' /\ ~wr'
    <3>1. cst = "init" => ~rd /\ ~wr
      BY DEF ReadStage, WriteStage
    <3> QED BY <3>1 DEF Event, GaStay, GaIssue, GaSeen, GaReadEnds, GaWriteEnds, GaBlocked, Same, Rest
  <2> QED BY <2>1, CacheMoves DEF CacheMove
<1> QED BY <1>1, <1>2, <1>3, <1>4, NothingKept DEF CacheOn

-----------------------------------------------------------------------------
(* The data.                                                               *)
LEMMA MergeNone ==
  ASSUME NEW w \in Word, NEW d
  PROVE  Merge(w, {}, d) = w
  BY DEF Merge, Word

LEMMA MergeAll ==
  ASSUME NEW w, NEW u, NEW d
  PROVE  Merge(w, Lanes, d) = Merge(u, Lanes, d)
  BY DEF Merge

LEMMA MergeTakes ==
  ASSUME NEW w, NEW lanes \in SUBSET Lanes, NEW d
  PROVE  \A l \in lanes : Merge(w, lanes, d)[l] = d[l]
  BY DEF Merge

LEMMA MergeSame ==
  ASSUME NEW w \in Word, NEW lanes, NEW d, \A l \in lanes : w[l] = d[l]
  PROVE  Merge(w, lanes, d) = w
  BY DEF Merge, Word

LEMMA PutAt ==
  ASSUME NEW m \in [Addr -> Word], NEW o \in Op
  PROVE  /\ Put(m, o) \in [Addr -> Word]
         /\ \A x \in Addr : Put(m, o)[x] = IF x = o.a THEN Merge(m[x], o.we, o.d) ELSE m[x]
         /\ o.we = {} => Put(m, o) = m
<1>1. o.a \in Addr /\ o.d \in Word /\ m[o.a] \in Word
  BY DEF Op
<1>2. Merge(m[o.a], o.we, o.d) \in Word /\ (o.we = {} => Merge(m[o.a], o.we, o.d) = m[o.a])
  BY <1>1, MergeType, MergeNone
<1> QED BY <1>1, <1>2 DEF Put

(* A clock with what it does to the history of what was written.           *)
Dated ==
  /\ Clocked /\ TypeOK'
  /\ rise_wr' => shadow' = Put(shadow, Line')
  /\ ~rise_wr' => shadow' = shadow

(* The strobes and the address stay while the access needs them.           *)
LEMMA StrobesStay ==
  ASSUME Dated
  PROVE  /\ WPend => GaStay
         /\ rise_rd \/ rise_wr => GaStay
         /\ rd /\ rd' => bus'.a = bus.a /\ shadow' = shadow
         /\ rise_wr' => GaIssue /\ cst' = "idle" /\ ~WPend /\ ~rd /\ ~wr
         /\ WPend' => rise_wr' \/ WPend
         /\ rise_wr' <=> wr' /\ ~wr
         /\ WPend => wr' /\ Line' = Line /\ shadow' = shadow
<1> USE Wires DEF Dated, Clocked
<1>1. /\ rise_wr <=> wr /\ ~old_wr
      /\ rise_rd <=> rd /\ ~old_rd
      /\ rise_wr' <=> wr' /\ ~wr
      /\ WPend <=> wr /\ ~sold.wr
      /\ WPend' <=> wr' /\ ~sold'.wr
  BY DEF rise_wr, rise_rd, CacheStep, WPend
<1>2. s_busy <=> sc # 0 \/ sd \/ sd2
  BY DEF s_busy, Port2!Busy
<1>3. busy <=> cst \in {"init", "look", "miss", "hit", "tail"} \/ (cst = "wr" /\ saw_busy) \/ s_busy
  BY DEF busy, busy_int, CacheOn
<1>4. WPend => GaStay
  <2>1. SUFFICES ASSUME WPend PROVE GaStay
    OBVIOUS
  <2>2. Waits /\ wr /\ ~s_busy /\ ~(cst = "wr" /\ saw_busy)
    BY <1>1, <1>2, <2>1 DEF WriteStage, PFree
  <2>3. cst \in {"idle", "wr"}
    BY <2>1 DEF WriteStage
  <2>4. ~busy
    BY <1>3, <2>2, <2>3
  <2> QED BY <2>2, <2>4 DEF Event, GaStay, GaIssue, GaSeen, GaReadEnds, GaWriteEnds, GaBlocked, Same, Rest, Strobed
<1>5. rise_rd \/ rise_wr => GaStay
  BY <1>1 DEF ReadStage, WriteStage, Event, GaStay, GaIssue, GaSeen, GaReadEnds, GaWriteEnds, GaBlocked, Same, Rest
<1>6. rd /\ rd' => bus'.a = bus.a /\ ~rise_wr'
  BY <1>1 DEF Event, GaStay, GaIssue, GaSeen, GaReadEnds, GaWriteEnds, GaBlocked, Same, Rest, Strobed
<1>7. rise_wr' => GaIssue /\ cst' = "idle" /\ ~WPend /\ ~rd /\ ~wr
  <2>1. SUFFICES ASSUME rise_wr' PROVE GaIssue /\ cst' = "idle" /\ ~WPend /\ ~rd /\ ~wr
    OBVIOUS
  <2>2. GaIssue
    BY <1>1, <2>1 DEF Event, GaStay, GaIssue, GaSeen, GaReadEnds, GaWriteEnds, GaBlocked, Same, Rest
  <2> QED BY <1>1, <2>2, WriteStageStep, <2>1 DEF GaIssue, WriteStage
<1>8. WPend' => rise_wr' \/ WPend
  <2>1. SUFFICES ASSUME WPend', wr PROVE WPend
    BY <1>1
  <2> QED BY <1>1, <2>1, PortStep, WriteStageStep DEF WriteStage, PFree
<1>9. WPend => wr' /\ Line' = Line /\ ~rise_wr'
  BY <1>1, <1>4 DEF GaStay
<1> QED BY <1>1, <1>4, <1>5, <1>6, <1>7, <1>8, <1>9

(* The write on its way is the one write the SDRAM does not have yet.      *)
LEMMA LandingStep ==
  ASSUME Dated, Landing
  PROVE  Landing'
<1> USE Wires DEF Dated, Clocked
<1>1. /\ mem \in [Addr -> Word] /\ Line \in Op /\ sa \in Op /\ shadow \in [Addr -> Word]
      /\ mem' \in [Addr -> Word] /\ s_pending \in BOOLEAN
  BY DEF TypeOK
<1>2. mem' = IF sc = 3 THEN Put(mem, sa) ELSE mem
  BY PortMoves DEF Put
<1>3. /\ WPend <=> wr /\ ~sold.wr
      /\ WPend' <=> wr' /\ ~sold'.wr
  BY DEF WPend
<1>4. CASE sc = 0 /\ sc' # 0
  <2>1. sc' = 1 /\ sa' = Line /\ s_pending /\ mem' = mem
    BY <1>2, <1>4, PortStep
  <2>2. CASE WPend
    <3>1. shadow' = shadow /\ shadow = Put(mem, Line)
      BY <1>4, <2>2, StrobesStay DEF Landing
    <3> QED BY <2>1, <3>1 DEF Landing
  <2>3. CASE ~WPend
    <3>1. cst = "miss"
      BY <2>1, <2>3, PortStep DEF CacheOn
    <3>2. rd /\ ~wr
      BY <3>1 DEF ReadStage, Strobed
    <3>3. Put(mem, Line) = mem
      BY <1>1, <3>2, PutAt DEF wr
    <3>4. shadow' = shadow /\ shadow = mem
      BY <1>4, <2>3, <3>2, StrobesStay DEF Landing
    <3> QED BY <2>1, <3>3, <3>4 DEF Landing
  <2> QED BY <2>2, <2>3
<1>5. CASE sc = 0 /\ sc' = 0
  <2>1. mem' = mem /\ (sold'.wr <=> sold.wr /\ wr)
    BY <1>2, <1>5, PortStep
  <2>2. CASE WPend
    <3>1. WPend' /\ shadow' = shadow /\ Line' = Line
      BY <1>3, <2>1, <2>2, StrobesStay
    <3> QED BY <1>5, <2>1, <2>2, <3>1 DEF Landing
  <2>3. CASE ~WPend
    <3>1. shadow = mem
      BY <1>5, <2>3 DEF Landing
    <3>2. CASE rise_wr'
      BY <1>3, <1>5, <2>1, <3>1, <3>2, StrobesStay DEF Landing
    <3>3. CASE ~rise_wr'
      BY <1>3, <1>5, <2>1, <2>3, <3>1, <3>3, StrobesStay DEF Landing
    <3> QED BY <3>2, <3>3
  <2> QED BY <2>2, <2>3
<1>6. CASE sc # 0
  <2>1. ~WPend /\ ~WPend' /\ shadow' = shadow /\ (sc # 6 => sa' = sa)
    BY <1>6, PortStep, StrobesStay DEF WriteStage, PFree, GaIssue
  <2>2. sc' = IF sc = 6 THEN 0 ELSE sc + 1
    BY <1>6, PortStep
  <2>3. CASE sc \in 1 .. 2
    BY <1>2, <2>1, <2>2, <2>3 DEF Landing
  <2>4. CASE sc = 3
    BY <1>2, <2>1, <2>2, <2>4 DEF Landing
  <2>5. CASE sc \in 4 .. 6
    BY <1>2, <2>1, <2>2, <2>5 DEF Landing
  <2> QED BY <1>6, <2>3, <2>4, <2>5
<1> QED BY <1>4, <1>5, <1>6

(* What a read fetches is what was last written.                           *)
LEMMA FetchStep ==
  ASSUME Dated, Landing, Fetch, LinesOk
  PROVE  Fetch'
<1> USE Wires DEF Dated, Clocked
<1>1. /\ WPend <=> wr /\ ~sold.wr
      /\ rise_rd <=> rd /\ ~old_rd
      /\ old_rd' <=> rd
      /\ s_busy <=> sc # 0 \/ sd \/ sd2
  BY DEF WPend, rise_rd, CacheStep, s_busy, Port2!Busy
<1>2. cst' \in {"miss", "hit"} \/ (cst' = "idle" /\ rd' /\ old_rd') => rd /\ ~wr /\ bus'.a = bus.a /\ shadow' = shadow
  <2>1. cst' \in {"miss", "hit"} => rd' /\ rd
    BY ReadStageStep, <1>1 DEF ReadStage
  <2> QED BY <1>1, <2>1, StrobesStay DEF Strobed
<1>3. rd /\ ~(sc \in 1 .. 3) => shadow = mem
  BY <1>1 DEF Landing, Strobed
<1>4. ASSUME cst' = "miss", sold'.rd
      PROVE  /\ sc' # 0 => sa'.a = bus'.a /\ sa'.we = {}
             /\ ssel' => sdout' = shadow'[bus'.a]
             /\ sc' = 0 /\ ~ssel' => sp' = shadow'[bus'.a]
  <2>1. cst \in {"look", "miss"} /\ rd /\ ~wr /\ bus'.a = bus.a /\ shadow' = shadow
    BY <1>2, <1>4, CacheMoves DEF CacheMove
  <2>2. ~WPend /\ ~(cst = "look" /\ sold.rd)
    BY <1>1, <2>1 DEF ReadStage
  <2>3. s_rd_r /\ cst = "miss"
    BY <1>4, <2>1, <2>2, PortStep DEF CacheOn
  <2>4. CASE sold.rd
    <3>1. ~s_pending /\ (sc \in 1 .. 5 => sa' = sa)
      BY <2>2, <2>4, PortStep
    <3>2. CASE sc = 0
      <4>1. sc' = 0 /\ ~ssel'
        BY <3>1, <3>2, PortStep
      <4>2. sp' = IF ssel THEN sdout ELSE sp
        BY PortMoves
      <4> QED BY <2>1, <2>3, <2>4, <3>2, <4>1, <4>2 DEF Fetch
    <3>3. CASE sc # 0
      <4>1. sa.a = bus.a /\ sa.we = {}
        BY <2>3, <2>4, <3>3 DEF Fetch
      <4>2. sc = 6 => sdout' = mem[sa.a] /\ shadow = mem
        BY <1>3, <2>1, <4>1, PortMoves
      <4>3. (sc' = 0 => sc = 6) /\ (ssel' <=> sc = 6)
        BY <3>3, PortStep
      <4>4. sc' # 0 => sa' = sa
        BY <3>1, <3>3, PortStep
      <4> QED BY <2>1, <4>1, <4>2, <4>3, <4>4
    <3> QED BY <3>2, <3>3
  <2>5. CASE ~sold.rd
    <3>1. sc = 0 /\ sc' = 1 /\ sa' = Line /\ ~ssel'
      BY <1>4, <2>5, PortStep
    <3> QED BY <2>1, <3>1 DEF wr
  <2> QED BY <2>4, <2>5
<1>5. ASSUME cst' = "hit" \/ (cst' = "idle" /\ rd' /\ old_rd')
      PROVE  dout_r' = shadow'[bus'.a]
  <2>1. rd /\ ~wr /\ bus'.a = bus.a /\ shadow' = shadow /\ cst \in {"idle", "look", "miss", "hit"}
    BY <1>2, <1>5 DEF ReadStage
  <2>2. CASE cst = "look"
    <3>1. dout_r' = q.d /\ q.v /\ q.a = bus.a
      BY <1>5, <2>2, CacheMoves DEF CacheMove, hit, ReadStage
    <3>2. q = line[IndexOf(bus.a)] /\ IndexOf(bus.a) \in 0 .. Lines - 1
      BY <2>2, CacheAssumption DEF LinesOk, ReadStage, TypeOK
    <3>3. ~wreg.on /\ ~Writing
      BY <2>1, <2>2 DEF CacheOn, Writing, rise_wr
    <3>4. Fresh(q)
      BY <2>2, <3>2, <3>3 DEF LinesOk, Eff
    <3> QED BY <2>1, <3>1, <3>3, <3>4 DEF Fresh
  <2>3. CASE cst = "miss"
    <3>1. dout_r' = sp /\ saw_busy /\ ~s_busy
      BY <1>5, <2>3, CacheMoves DEF CacheMove
    <3>2. sold.rd /\ sc = 0 /\ ~ssel
      BY <1>1, <2>3, <3>1 DEF ReadStage, CacheOn
    <3> QED BY <2>1, <2>3, <3>1, <3>2 DEF Fetch
  <2>4. CASE cst \in {"hit", "idle"}
    <3>1. cst = "idle" => old_rd /\ cst' = "idle" /\ dout_r' = dout_r
      BY <1>1, <1>5, <2>1, CacheMoves DEF CacheMove
    <3>2. cst = "hit" => dout_r' = dout_r
      BY CacheMoves DEF CacheMove
    <3> QED BY <2>1, <2>4, <3>1, <3>2 DEF Fetch
  <2> QED BY <2>1, <2>2, <2>3, <2>4
<1> QED BY <1>4, <1>5 DEF Fetch

(* The lines, with the store still to come counted in.                     *)
LEMMA LineMoves ==
  ASSUME Dated, NEW i \in 0 .. Lines - 1
  PROVE  /\ line'[i] = Eff(i)
         /\ Eff(i)' = IF wreg'.on /\ wreg'.i = i THEN wreg'.e ELSE Eff(i)
         /\ Eff(i) \in Entry
<1>1. line \in [0 .. Lines - 1 -> Entry] /\ wreg.e \in Entry
  BY DEF Dated, Clocked, TypeOK
<1>2. line' = IF wreg.on THEN [line EXCEPT ![wreg.i] = wreg.e] ELSE line
  BY DEF Dated, Clocked, CacheStep, CacheStore
<1>3. line'[i] = Eff(i)
  BY <1>1, <1>2 DEF Eff
<1>4. Eff(i)' = IF wreg'.on /\ wreg'.i = i THEN wreg'.e ELSE line'[i]
  BY DEF Eff
<1> QED BY <1>1, <1>3, <1>4 DEF Eff

(* The write on its way, from the rising strobe to the end of S_WR.        *)
LEMMA WriteMoves ==
  ASSUME Dated
  PROVE  \/ ~Writing /\ Writing' /\ Wop' = Line' /\ shadow' = Put(shadow, Line') /\ cst' = "idle" /\ ~wreg'.on
         \/ Writing /\ Writing' /\ Wop' = Wop /\ shadow' = shadow /\ cst' = "wr" /\ ~wreg'.on
         \/ Writing /\ ~Writing' /\ shadow' = shadow /\ cst = "wr" /\ cst' = "tail" /\ Wop = q_op
         \/ ~Writing /\ ~Writing' /\ shadow' = shadow
<1> USE Wires DEF Dated, Clocked
<1>1. /\ rise_wr <=> wr /\ ~old_wr
      /\ rise_rd <=> rd /\ ~old_rd
  BY DEF rise_wr, rise_rd
<1>2. CASE rise_wr'
  <2>1. GaIssue /\ cst' = "idle" /\ ~wr /\ ~rd /\ cst = "idle"
    BY <1>2, StrobesStay DEF GaIssue
  <2>2. ~wreg'.on
    BY <1>1, <2>1, CacheMoves DEF CacheMove
  <2> QED BY <1>1, <1>2, <2>1, <2>2 DEF Writing, Wop
<1>3. CASE ~rise_wr' /\ cst = "wr"
  <2>1. shadow' = shadow /\ Writing /\ Wop = q_op
    BY <1>3 DEF Writing, Wop
  <2>2. \/ cst' = "wr" /\ q_op' = q_op /\ ~wreg'.on
        \/ cst' = "tail"
    BY <1>3, CacheMoves DEF CacheMove
  <2> QED BY <1>3, <2>1, <2>2 DEF Writing, Wop
<1>4. CASE ~rise_wr' /\ rise_wr /\ cst # "wr"
  <2>1. cst = "idle" /\ ~rise_rd
    BY <1>1, <1>4 DEF WriteStage, Strobed
  <2>2. cst' = "wr" /\ q_op' = Line /\ ~wreg'.on
    BY <1>4, <2>1, CacheMoves DEF CacheMove
  <2> QED BY <1>4, <2>1, <2>2 DEF Writing, Wop
<1>5. CASE ~rise_wr' /\ ~rise_wr /\ cst # "wr"
  <2>1. cst' # "wr"
    BY <1>5, CacheMoves DEF CacheMove
  <2> QED BY <1>5, <2>1 DEF Writing
<1> QED BY <1>2, <1>3, <1>4, <1>5

(* The store at the end of a write: the line holds what the SDRAM will.    *)
LEMMA WriteStores ==
  ASSUME Dated, LinesOk, cst = "wr", cst' = "tail"
  PROVE  /\ IF wreg'.on THEN wreg'.i = IndexOf(q_op.a) /\ wreg'.e.a = q_op.a /\ wreg'.e.d = shadow[q_op.a]
            ELSE ~hit
         /\ q = Eff(IndexOf(q_op.a)) /\ IndexOf(q_op.a) \in 0 .. Lines - 1
<1> USE DEF Dated, Clocked
<1>1. q_op \in Op /\ q \in Entry /\ shadow[q_op.a] \in Word /\ IndexOf(q_op.a) \in 0 .. Lines - 1
  BY CacheAssumption DEF TypeOK, Op
<1>2. q = Eff(IndexOf(q_op.a)) /\ Fresh(q) /\ Writing /\ Wop = q_op
  BY <1>1 DEF LinesOk, Eff, CacheOn, Writing, Wop
<1>3. wreg' = IF hit \/ q_op.we = Lanes
              THEN [on |-> TRUE, i |-> IndexOf(q_op.a), e |-> [v |-> TRUE, a |-> q_op.a, d |-> Merge(q.d, q_op.we, q_op.d)]]
              ELSE NoWrite
  BY DEF CacheStep, CacheInit, CacheIdle, CacheLook, CacheMiss, CacheWrite, CacheHold, Store, KeepStore
<1>4. CASE hit
  <2>1. shadow[q_op.a] = Merge(q.d, q_op.we, q_op.d)
    BY <1>2, <1>4 DEF hit, Fresh
  <2> QED BY <1>1, <1>2, <1>3, <1>4, <2>1
<1>5. CASE ~hit /\ q_op.we = Lanes
  <2>1. \A l \in Lanes : shadow[q_op.a][l] = q_op.d[l]
    BY <1>2, <1>5 DEF LinesOk
  <2>2. Merge(shadow[q_op.a], Lanes, q_op.d) = shadow[q_op.a]
    BY <1>1, <2>1, MergeSame
  <2>3. Merge(q.d, Lanes, q_op.d) = shadow[q_op.a]
    BY <2>2, MergeAll
  <2> QED BY <1>1, <1>2, <1>3, <1>5, <2>3
<1>6. CASE ~hit /\ q_op.we # Lanes
  BY <1>1, <1>2, <1>3, <1>6 DEF NoWrite
<1> QED BY <1>4, <1>5, <1>6

(* A line that no store changes stays as fresh as it was.                  *)
LEMMA StaysFresh ==
  ASSUME Dated, LinesOk, cst # "init", NEW i \in 0 .. Lines - 1, ~(wreg'.on /\ wreg'.i = i)
  PROVE  Fresh(Eff(i))' /\ (Eff(i)'.v => IndexOf(Eff(i)'.a) = i)
<1> USE DEF Dated, Clocked
<1>1. Eff(i)' = Eff(i) /\ Eff(i) \in Entry /\ Fresh(Eff(i)) /\ (Eff(i).v => IndexOf(Eff(i).a) = i)
  BY LineMoves DEF LinesOk
<1>2. Fresh(Eff(i))' <=>
        (Eff(i).v => shadow'[Eff(i).a] = IF Writing' /\ Eff(i).a = Wop'.a THEN Merge(Eff(i).d, Wop'.we, Wop'.d) ELSE Eff(i).d)
  BY <1>1 DEF Fresh
<1>3. CASE ~Writing /\ Writing' /\ Wop' = Line' /\ shadow' = Put(shadow, Line')
  <2>1. shadow \in [Addr -> Word] /\ Line' \in Op /\ Eff(i).a \in Addr
    BY <1>1 DEF TypeOK, Entry, Line, Op
  <2>2. shadow'[Eff(i).a] = IF Eff(i).a = Wop'.a THEN Merge(shadow[Eff(i).a], Wop'.we, Wop'.d) ELSE shadow[Eff(i).a]
    BY <1>3, <2>1, PutAt
  <2> QED BY <1>1, <1>2, <1>3, <2>2 DEF Fresh
<1>4. CASE Writing /\ Writing' /\ Wop' = Wop /\ shadow' = shadow
  BY <1>1, <1>2, <1>4 DEF Fresh
<1>5. CASE Writing /\ ~Writing' /\ shadow' = shadow /\ cst = "wr" /\ cst' = "tail" /\ Wop = q_op
  <2>1. ASSUME Eff(i).v PROVE Eff(i).a # q_op.a
    <3>1. SUFFICES ASSUME Eff(i).a = q_op.a PROVE FALSE
      OBVIOUS
    <3>2. i = IndexOf(q_op.a) /\ q = Eff(i)
      BY <1>1, <1>5, <2>1, <3>1, WriteStores
    <3>3. hit
      BY <2>1, <3>1, <3>2 DEF hit
    <3> QED BY <1>5, <3>2, <3>3, WriteStores
  <2> QED BY <1>1, <1>2, <1>5, <2>1 DEF Fresh
<1>6. CASE ~Writing /\ ~Writing' /\ shadow' = shadow
  BY <1>1, <1>2, <1>6 DEF Fresh
<1>7. Eff(i)'.v => IndexOf(Eff(i)'.a) = i
  BY <1>1
<1>8. Fresh(Eff(i))'
  BY <1>3, <1>4, <1>5, <1>6, WriteMoves
<1> QED BY <1>7, <1>8

(* Every line holds what was last written, and q the line of the request.  *)
LEMMA LinesStep ==
  ASSUME Dated, Fetch, LinesOk
  PROVE  LinesOk'
<1> USE DEF Dated, Clocked
<1>1. ASSUME cst = "init"
      PROVE  /\ wreg' = [on |-> TRUE, i |-> icnt, e |-> Blank] /\ cst' \in {"init", "idle"}
             /\ cst' = "init" => icnt' = icnt + 1
             /\ cst' # "init" => icnt = Lines - 1
             /\ icnt \in 0 .. Lines - 1 /\ icnt' \in 0 .. Lines - 1
  <2>1. icnt \in 0 .. Lines - 1 /\ icnt' \in 0 .. Lines - 1
    BY DEF TypeOK
  <2> QED BY <1>1, <2>1 DEF CacheStep, CacheInit, CacheIdle, CacheLook, CacheMiss, CacheWrite, CacheHold
<1>2. ASSUME cst = "init", NEW i \in 0 .. Lines - 1, i < icnt \/ i = icnt
      PROVE  ~Eff(i)'.v
  BY <1>1, <1>2, LineMoves DEF LinesOk, Blank
<1>3. cst' = "init" => \A i \in 0 .. icnt' - 1 : ~Eff(i)'.v
  <2>1. SUFFICES ASSUME cst' = "init", NEW i \in 0 .. icnt' - 1 PROVE ~Eff(i)'.v
    OBVIOUS
  <2>2. cst = "init"
    BY <2>1, CacheMoves DEF CacheMove
  <2>3. icnt \in Nat /\ icnt' = icnt + 1 /\ i \in 0 .. Lines - 1 /\ (i < icnt \/ i = icnt)
    BY <1>1, <2>1, <2>2, CacheAssumption
  <2> QED BY <1>2, <2>2, <2>3
<1>4. ASSUME cst' # "init", NEW i \in 0 .. Lines - 1
      PROVE  Fresh(Eff(i))' /\ (Eff(i)'.v => IndexOf(Eff(i)'.a) = i)
  <2>1. CASE cst = "init"
    <3>1. i < icnt \/ i = icnt
      BY <1>1, <1>4, <2>1, CacheAssumption
    <3> QED BY <1>2, <2>1, <3>1 DEF Fresh
  <2>2. CASE cst # "init" /\ ~(wreg'.on /\ wreg'.i = i)
    BY <2>2, StaysFresh
  <2>3. CASE cst # "init" /\ wreg'.on /\ wreg'.i = i
    <3>1. Eff(i)' = wreg'.e
      BY <2>3, LineMoves
    <3>2. cst \in {"miss", "wr"}
      BY <2>3, CacheMoves DEF CacheMove
    <3>3. CASE cst = "miss"
      <4>1. cst' = "hit" /\ wreg' = [on |-> TRUE, i |-> IndexOf(q_op.a), e |-> [v |-> TRUE, a |-> q_op.a, d |-> sp]]
            /\ dout_r' = sp
        BY <2>3, <3>3, CacheMoves DEF CacheMove
      <4>2. q_op.a = bus.a /\ rd /\ rd'
        BY <3>3, <4>1, ReadStageStep DEF ReadStage
      <4>3. ~Writing'
        BY <4>1, <4>2, StrobesStay DEF Writing
      <4>4. saw_busy /\ ~s_busy
        BY <3>3, <4>1, CacheMoves DEF CacheMove
      <4>5. sold.rd /\ sc = 0 /\ ~ssel
        BY <3>3, <4>4 DEF ReadStage, CacheOn, s_busy, Port2!Busy
      <4>6. sp = shadow[q_op.a] /\ shadow' = shadow
        BY <3>3, <4>2, <4>5, StrobesStay DEF Fetch
      <4> QED BY <2>3, <3>1, <4>1, <4>3, <4>6 DEF Fresh
    <3>4. CASE cst = "wr"
      <4>1. cst' = "tail"
        BY <2>3, <3>4, CacheMoves DEF CacheMove
      <4>2. wreg'.i = IndexOf(q_op.a) /\ wreg'.e.a = q_op.a /\ wreg'.e.d = shadow[q_op.a]
        BY <2>3, <3>4, <4>1, WriteStores
      <4>3. ~Writing' /\ shadow' = shadow
        BY <4>1, StrobesStay DEF Writing
      <4> QED BY <2>3, <3>1, <4>2, <4>3 DEF Fresh
    <3> QED BY <3>2, <3>3, <3>4
  <2> QED BY <2>1, <2>2, <2>3
<1>5. cst' \in {"look", "wr"} => q' = line'[IndexOf(q_op'.a)]
  <2>1. SUFFICES ASSUME cst' \in {"look", "wr"} PROVE q' = line'[IndexOf(q_op'.a)]
    OBVIOUS
  <2>2. \/ cst = "idle" /\ (rd \/ wr) /\ q_op'.a = bus.a
        \/ cst = "wr" /\ q_op' = q_op
    BY <2>1, Wires, CacheMoves DEF CacheMove, rise_rd, rise_wr
  <2>3. ~wreg.on
    BY <2>2 DEF CacheOn
  <2> QED BY <2>2, <2>3 DEF CacheStep, CacheStore, Read
<1>6. Writing' => \A l \in Wop'.we : shadow'[Wop'.a][l] = Wop'.d[l]
  <2>1. CASE ~Writing /\ Writing' /\ Wop' = Line' /\ shadow' = Put(shadow, Line')
    <3>1. shadow \in [Addr -> Word] /\ Line' \in Op
      BY DEF TypeOK, Line, Op
    <3>2. Line'.a \in Addr /\ Line'.we \in SUBSET Lanes
      BY <3>1 DEF Op
    <3>3. shadow'[Line'.a] = Merge(shadow[Line'.a], Line'.we, Line'.d)
      BY <2>1, <3>1, <3>2, PutAt
    <3> QED BY <2>1, <3>2, <3>3, MergeTakes
  <2>2. CASE Writing /\ Writing' /\ Wop' = Wop /\ shadow' = shadow
    BY <2>2 DEF LinesOk
  <2> QED BY <2>1, <2>2, WriteMoves
<1> QED BY <1>3, <1>4, <1>5, <1>6 DEF LinesOk

-----------------------------------------------------------------------------
(* The inductive invariant, and the gate array.                            *)
Sound == /\ TypeOK /\ TypeAux /\ Strobes /\ CacheOn /\ ReadStage /\ WriteStage
         /\ SubData /\ MainData /\ Timing
InTime == Sound /\ Landing /\ Fetch /\ LinesOk
IInv   == TypeOK /\ TypeAux /\ (late \/ InTime)

LEMMA LeftTypes ==
  ASSUME TypeOK
  PROVE  /\ PortLeft \in Nat /\ Left \in Nat /\ Until \in Nat
         /\ PortLeft = 0 => PFree
         /\ Left = 0 => cst = "idle" /\ PFree /\ ~rise_rd /\ ~rise_wr
<1>1. /\ Lines \in Nat /\ icnt \in 0 .. Lines - 1 /\ hcnt \in 0 .. 3
      /\ sc \in 0 .. 6 /\ phase \in {0, 1} /\ sd \in BOOLEAN /\ sd2 \in BOOLEAN
      /\ cst \in {"init", "idle", "look", "miss", "hit", "wr", "tail"}
  BY CacheAssumption DEF TypeOK
<1>2. PortLeft \in Nat /\ (PortLeft = 0 => PFree)
  BY <1>1 DEF PortLeft, PFree
<1>3. Left \in Nat /\ (Left = 0 => cst = "idle" /\ PortLeft = 0 /\ ~rise_rd /\ ~rise_wr)
  <2>1. CASE cst = "init"
    BY <1>1, <1>2, <2>1 DEF Left
  <2>2. CASE cst # "init" /\ (rise_rd \/ cst = "look")
    BY <1>1, <1>2, <2>2 DEF Left
  <2>3. CASE ~rise_rd /\ cst \in {"miss", "hit", "tail"}
    BY <1>1, <1>2, <2>3 DEF Left
  <2>4. CASE ~rise_rd /\ cst \in {"idle", "wr"}
    BY <1>1, <1>2, <2>4 DEF Left, Writing
  <2> QED BY <1>1, <2>1, <2>2, <2>3, <2>4
<1>4. Until \in Nat
  BY <1>1, <1>3 DEF Until
<1> QED BY <1>2, <1>3, <1>4

(* An access starts only when none is under way, in the gate array, in the *)
(* cache or in the SDRAM.                                                  *)
LEMMA FreeToIssue ==
  ASSUME Sound, DmaIssues \/ SubTakes \/ MainIssues
  PROVE  /\ ~PAct /\ ~MAct /\ ~rd /\ ~wr /\ cst = "idle" /\ PFree
         /\ ~(MainIssues /\ (DmaIssues \/ SubTakes)) /\ ~(DmaIssues /\ SubTakes)
<1> USE DEF Sound
<1>1. main.st = "on" /\ sbrq => ~PAct /\ ~SubWaits /\ (prms = "idle" => Left = 0)
  BY DEF MainData, Timing
<1>2. SubTakes => SubWaits
  BY DEF SubTakes, SubSel, SubWaits, SubData
<1>3. MAct => main.st = "on" /\ sbrq
  BY DEF MainData
<1>4. CASE DmaIssues \/ SubTakes
  <2>1. ~PAct /\ ~MAct /\ ~MainIssues /\ ~(DmaIssues /\ SubTakes)
    BY <1>1, <1>2, <1>3, <1>4 DEF DmaIssues, SubTakes, MainIssues, MainSel, open, PAct
  <2>2. ~busy
    BY <1>4 DEF DmaIssues, SubTakes
  <2>3. ~s_busy /\ cst \notin {"init", "look", "miss", "hit", "tail"} /\ ~(cst = "wr" /\ saw_busy)
    BY <2>2 DEF busy, busy_int, CacheOn
  <2>4. ~rd /\ ~wr /\ PFree
    BY <2>1, <2>3 DEF Strobes, s_busy, Port2!Busy, PFree
  <2>5. cst # "wr"
    BY <2>3, <2>4 DEF WriteStage, WPend, PFree
  <2>6. cst = "idle"
    BY <2>3, <2>5 DEF TypeOK
  <2> QED BY <2>1, <2>4, <2>6
<1>5. CASE MainIssues /\ ~DmaIssues /\ ~SubTakes
  <2>1. main.st = "on" /\ sbrq /\ prms = "idle"
    BY <1>5 DEF MainIssues, MainSel, open
  <2>2. ~PAct /\ ~MAct /\ Left = 0
    BY <1>1, <2>1 DEF MAct
  <2>3. ~rd /\ ~wr
    BY <2>2 DEF Strobes
  <2> QED BY <1>5, <2>2, <2>3, LeftTypes
<1> QED BY <1>4, <1>5

LEMMA SoundStrobed ==
  ASSUME Sound
  PROVE  Strobed /\ ~(PAct /\ MAct) /\ (PAct \/ MAct <=> Waits \/ Reads \/ Drops)
<1>1. /\ Waits \/ Reads \/ Drops <=> PAct \/ MAct
      /\ PAct => prms \notin {"wait", "read", "write"}
      /\ MAct => prss \notin {"wait", "read", "write", "dma_wait", "dma_write"}
  BY DEF Sound, Strobes, PAct, MAct, Waits, Reads, Drops
<1>2. ~(Waits /\ Reads) /\ ~(Waits /\ Drops) /\ ~(Reads /\ Drops)
  BY <1>1 DEF PAct, MAct, Waits, Reads, Drops
<1> QED BY <1>1, <1>2 DEF Sound, Strobes, Strobed

(* What the gate array does on a clk_sys edge.                             *)
NoIssue == ~DmaIssues /\ ~SubTakes /\ ~MainIssues
DmaGoes == /\ DmaIssues /\ ~SubTakes /\ ~MainIssues /\ bus' = Drive(dma.op) /\ prss' = "dma_wait"
           /\ Issued = dma.op /\ prms' \notin {"wait", "read", "write"}
SubGoes == /\ SubIssues /\ ~DmaIssues /\ ~MainIssues /\ bus' = Drive(sub.op) /\ prss' = "wait"
           /\ Issued = sub.op /\ prms' \notin {"wait", "read", "write"}
SubStops == /\ SubTakes /\ Blocked /\ ~DmaIssues /\ ~MainIssues /\ ~rd' /\ ~wr' /\ prss' = "end"
            /\ Issued = Quiet /\ prms' \notin {"wait", "read", "write"}
MainGoes == /\ MainIssues /\ ~DmaIssues /\ ~SubTakes /\ bus' = Drive(main.op) /\ prms' = "wait"
            /\ Issued = main.op /\ prss' \in {"idle", "end"}
AllRest == /\ NoIssue /\ ~PAct /\ ~MAct /\ bus' = bus /\ Issued = Quiet
           /\ prms' \in {"idle", "end"} /\ prss' \in {"idle", "end"}
SubRuns ==
  /\ NoIssue /\ PAct /\ ~MAct /\ Issued = Quiet /\ prms' \in {"idle", "end"}
  /\ \/ prss \in {"wait", "dma_wait"} /\ ~busy /\ prss' = prss /\ bus' = bus
     \/ prss = "wait" /\ busy /\ prss' = (IF rd THEN "read" ELSE "write") /\ bus' = bus
     \/ prss = "dma_wait" /\ busy /\ prss' = "dma_write" /\ bus' = bus
     \/ prss \in {"read", "dma_write"} /\ busy /\ prss' = prss /\ bus' = bus
     \/ prss = "read" /\ ~busy /\ prss' = "end" /\ bus' = DropRead(bus)
     \/ prss = "write" /\ prss' = "end" /\ bus' = DropWrite(bus)
     \/ prss = "dma_write" /\ ~busy /\ prss' = "dma_end" /\ bus' = DropWrite(bus)
MainRuns ==
  /\ NoIssue /\ MAct /\ ~PAct /\ Issued = Quiet /\ prss' \in {"idle", "end"}
  /\ \/ prms = "wait" /\ ~busy /\ prms' = prms /\ bus' = bus
     \/ prms = "wait" /\ busy /\ prms' = (IF rd THEN "read" ELSE "write") /\ bus' = bus
     \/ prms = "read" /\ busy /\ prms' = prms /\ bus' = bus
     \/ prms = "read" /\ ~busy /\ prms' = "end" /\ bus' = DropRead(bus)
     \/ prms = "write" /\ prms' = "end" /\ bus' = DropWrite(bus)
GateMove == DmaGoes \/ SubGoes \/ SubStops \/ MainGoes \/ AllRest \/ SubRuns \/ MainRuns

LEMMA GateMoves ==
  ASSUME Sound, GateArray
  PROVE  GateMove
<1> USE DEF Sound, SubIssues
<1>1. /\ prms \in {"idle", "wait", "read", "write", "end"}
      /\ prss \in {"idle", "wait", "read", "write", "end", "dma_wait", "dma_write", "dma_end"}
  BY DEF TypeOK
<1>2. DmaIssues \/ SubTakes \/ MainIssues =>
        /\ ~PAct /\ ~MAct /\ ~(MainIssues /\ (DmaIssues \/ SubTakes)) /\ ~(DmaIssues /\ SubTakes)
  BY FreeToIssue
<1>3. bus' = SubBus(MainBus)
  BY DEF GateArray
<1>4. ~MainIssues /\ ~MAct => MainBus = bus /\ prms' \in {"idle", "end"}
  BY <1>1 DEF MainBus, MAct, GateArray, PRMS
<1>5. NoIssue /\ ~PAct => SubBus(MainBus) = MainBus /\ prss' \in {"idle", "end"} 
  BY <1>1 DEF NoIssue, SubBus, PAct, GateArray, PRSS
<1>6. CASE DmaIssues
  <2>1. prss' = "dma_wait"
    BY <1>6 DEF DmaIssues, SubTakes, GateArray, PRSS
  <2>2. bus' = Drive(dma.op) /\ Issued = dma.op
    BY <1>3, <1>6 DEF SubBus, Issued
  <2> QED BY <1>2, <1>4, <1>6, <2>1, <2>2 DEF GateMove, DmaGoes, SubGoes, SubStops, MainGoes, AllRest, SubRuns, MainRuns
<1>7. CASE SubTakes /\ ~Blocked
  <2>1. prss' = "wait"
    BY <1>2, <1>7 DEF SubTakes, GateArray, PRSS
  <2>2. bus' = Drive(sub.op) /\ Issued = sub.op
    BY <1>2, <1>3, <1>7 DEF SubBus, Issued
  <2> QED BY <1>2, <1>4, <1>7, <2>1, <2>2 DEF GateMove, DmaGoes, SubGoes, SubStops, MainGoes, AllRest, SubRuns, MainRuns
<1>8. CASE SubTakes /\ Blocked
  <2>0. prss' = "end"
    BY <1>2, <1>8 DEF SubTakes, GateArray, PRSS
  <2>1. bus' = DropRead(DropWrite(Drive(sub.op))) /\ Issued = Quiet
    BY <1>2, <1>3, <1>8 DEF SubBus, Issued
  <2>2. ~rd' /\ ~wr'
    BY <2>1 DEF DropRead, DropWrite, Drive, rd, wr
  <2> QED BY <1>2, <1>4, <1>8, <2>0, <2>1, <2>2 DEF GateMove, DmaGoes, SubGoes, SubStops, MainGoes, AllRest, SubRuns, MainRuns
<1>9. CASE MainIssues
  <2>1. MainBus = Drive(main.op) /\ prms' = "wait"
    BY <1>9 DEF MainBus, MainIssues, GateArray, PRMS
  <2>2. NoIssue \/ (~DmaIssues /\ ~SubTakes)
    BY <1>2, <1>9
  <2>3. SubBus(MainBus) = MainBus /\ prss' \in {"idle", "end"}
    BY <1>1, <1>2, <1>9 DEF SubBus, PAct, GateArray, PRSS
  <2>4. Issued = main.op
    BY <1>2, <1>9 DEF Issued
  <2> QED BY <1>2, <1>3, <1>9, <2>1, <2>3, <2>4 DEF GateMove, DmaGoes, SubGoes, SubStops, MainGoes, AllRest, SubRuns, MainRuns
<1>10. CASE NoIssue
  <2>1. Issued = Quiet
    BY <1>10 DEF NoIssue, Issued
  <2>2. CASE ~PAct /\ ~MAct
    BY <1>3, <1>4, <1>5, <1>10, <2>1, <2>2 DEF NoIssue, GateMove, DmaGoes, SubGoes, SubStops, MainGoes, AllRest, SubRuns, MainRuns
  <2>3. CASE PAct
    <3>1. ~MAct /\ MainBus = bus /\ prms' \in {"idle", "end"}
      BY <1>4, <1>10, <2>3 DEF Strobes, NoIssue
    <3>2. \/ prss \in {"wait", "dma_wait"} /\ ~busy /\ prss' = prss /\ bus' = bus
          \/ prss = "wait" /\ busy /\ prss' = (IF rd THEN "read" ELSE "write") /\ bus' = bus
          \/ prss = "dma_wait" /\ busy /\ prss' = "dma_write" /\ bus' = bus
          \/ prss \in {"read", "dma_write"} /\ busy /\ prss' = prss /\ bus' = bus
          \/ prss = "read" /\ ~busy /\ prss' = "end" /\ bus' = DropRead(bus)
          \/ prss = "write" /\ prss' = "end" /\ bus' = DropWrite(bus)
          \/ prss = "dma_write" /\ ~busy /\ prss' = "dma_end" /\ bus' = DropWrite(bus)
      BY <1>3, <1>10, <2>3, <3>1 DEF NoIssue, PAct, SubBus, GateArray, PRSS
    <3> QED BY <1>10, <2>1, <2>3, <3>1, <3>2 DEF GateMove, DmaGoes, SubGoes, SubStops, MainGoes, AllRest, SubRuns, MainRuns
  <2>4. CASE MAct
    <3>1. ~PAct /\ bus' = MainBus /\ prss' \in {"idle", "end"}
      BY <1>3, <1>5, <1>10, <2>4 DEF Strobes
    <3>2. \/ prms = "wait" /\ ~busy /\ prms' = prms /\ bus' = bus
          \/ prms = "wait" /\ busy /\ prms' = (IF rd THEN "read" ELSE "write") /\ bus' = bus
          \/ prms = "read" /\ busy /\ prms' = prms /\ bus' = bus
          \/ prms = "read" /\ ~busy /\ prms' = "end" /\ bus' = DropRead(bus)
          \/ prms = "write" /\ prms' = "end" /\ bus' = DropWrite(bus)
      BY <1>10, <2>4, <3>1 DEF NoIssue, MAct, MainBus, GateArray, PRMS
    <3> QED BY <1>10, <2>1, <2>4, <3>1, <3>2 DEF GateMove, DmaGoes, SubGoes, SubStops, MainGoes, AllRest, SubRuns, MainRuns
  <2> QED BY <2>2, <2>3, <2>4
<1> QED BY <1>6, <1>7, <1>8, <1>9, <1>10 DEF NoIssue

LEMMA Drives ==
  ASSUME NEW o \in Op, bus' = Drive(o)
  PROVE  /\ Line' = o /\ bus'.a = o.a
         /\ rd' <=> o.we = {}
         /\ wr' <=> o.we # {}
  BY DEF Drive, Line, Op, rd, wr

LEMMA DropsStrobe ==
  ASSUME TypeOK
  PROVE  /\ bus' = bus => (rd' <=> rd) /\ (wr' <=> wr) /\ Line' = Line /\ bus'.a = bus.a
         /\ bus' = DropRead(bus) => ~rd' /\ (wr' <=> wr) /\ bus'.a = bus.a
         /\ bus' = DropWrite(bus) => ~wr' /\ (rd' <=> rd) /\ bus'.a = bus.a
  BY DEF TypeOK, DropRead, DropWrite, Line, rd, wr

LEMMA DmaAsks ==
  ASSUME TypeOK, TypeAux, Users, dma.st = "ask" => dma.op.we # {}
  PROVE  dma'.st = "ask" => dma'.op.we # {}
<1>1. load \in Loads /\ dma \in [st : {"off", "ask", "wait"}, op : Op]
  BY DEF TypeOK, TypeAux
<1>2. \A o \in load.dma : o.we # {}
  BY <1>1, LoadAssumption
<1>3. Dma
  BY DEF Users
<1>4. CASE dma.st = "off"
  BY <1>2, <1>3, <1>4 DEF Dma
<1>5. CASE dma.st = "ask"
  BY <1>1, <1>3, <1>5 DEF Dma
<1>6. CASE dma.st = "wait"
  BY <1>3, <1>6 DEF Dma, Off
<1> QED BY <1>1, <1>4, <1>5, <1>6

(* A clk_sys edge is one of the events, and the one access on the lines    *)
(* keeps its strobe.                                                       *)
LEMMA GateEvents ==
  ASSUME Sound, GateArray, Users, phase = 0, (old_wr' <=> wr), TypeOK'
  PROVE  /\ Event /\ Strobes'
         /\ rise_wr' => shadow' = Put(shadow, Line')
         /\ ~rise_wr' => shadow' = shadow
<1> USE DEF Sound
<1>0. /\ shadow \in [Addr -> Word] /\ Quiet \in Op /\ Quiet.we = {} /\ sub.op \in Op /\ main.op \in Op /\ dma.op \in Op
      /\ shadow' = Put(shadow, Issued)
  BY CacheAssumption DEF TypeOK, TypeAux, Users, Put
<1>1. rise_wr' <=> wr' /\ ~wr
  BY DEF rise_wr
<1>2. \A o \in Op : bus' = Drive(o) /\ Issued = o /\ ~wr =>
        /\ rise_wr' => shadow' = Put(shadow, Line')
        /\ ~rise_wr' => shadow' = shadow
  BY <1>0, <1>1, Drives, PutAt
<1>3. Issued = Quiet => shadow' = shadow
  BY <1>0, PutAt
<1>4. dma'.st = "ask" => dma'.op.we # {}
  BY DmaAsks DEF Strobes
<1>5. Strobed /\ ~(PAct /\ MAct) /\ (PAct \/ MAct <=> Waits \/ Reads \/ Drops)
  BY SoundStrobed
<1> HIDE DEF Sound
<1>6. CASE DmaGoes
  <2>1. ~rd /\ ~wr /\ cst = "idle" /\ PFree
    BY <1>6, FreeToIssue DEF DmaGoes
  <2>2. ~rd' /\ wr'
    BY <1>0, <1>6, Drives DEF Sound, Strobes, DmaIssues, DmaSel, DmaGoes
  <2>3. Waits' /\ ~Reads' /\ ~Drops' /\ PAct' /\ ~MAct'
    BY <1>6 DEF Waits, Reads, Drops, PAct, MAct, DmaGoes
  <2>4. Event
    BY <2>1, <2>2, <2>3, phase = 0 DEF Event, GaIssue
  <2>5. Strobes'
    BY <1>4, <2>2, <2>3 DEF Strobes
  <2> QED BY <1>0, <1>2, <1>6, <2>1, <2>4, <2>5 DEF DmaGoes
<1>7. CASE SubGoes
  <2>1. ~rd /\ ~wr /\ cst = "idle" /\ PFree
    BY <1>7, FreeToIssue DEF SubIssues, SubGoes
  <2>2. rd' <=> ~wr'
    BY <1>0, <1>7, Drives DEF SubGoes
  <2>3. Waits' /\ ~Reads' /\ ~Drops' /\ PAct' /\ ~MAct' /\ prss' # "dma_wait"
    BY <1>7 DEF Waits, Reads, Drops, PAct, MAct, SubGoes
  <2>4. Event
    BY <2>1, <2>2, <2>3, phase = 0 DEF Event, GaIssue
  <2>5. Strobes'
    BY <1>4, <2>2, <2>3 DEF Strobes
  <2> QED BY <1>0, <1>2, <1>7, <2>1, <2>4, <2>5 DEF SubGoes
<1>8. CASE SubStops
  <2>1. ~rd /\ ~wr /\ cst = "idle" /\ PFree
    BY <1>8, FreeToIssue DEF SubStops
  <2>2. ~Waits' /\ ~Reads' /\ ~Drops' /\ ~PAct' /\ ~MAct' /\ prss' # "dma_wait"
    BY <1>8 DEF Waits, Reads, Drops, PAct, MAct, SubStops
  <2>3. Event
    BY <1>8, <2>1, <2>2, phase = 0 DEF Event, GaBlocked, Rest, SubStops
  <2>4. Strobes'
    BY <1>4, <1>8, <2>2 DEF Strobes, SubStops
  <2> QED BY <1>1, <1>3, <1>8, <2>3, <2>4 DEF SubStops
<1>9. CASE MainGoes
  <2>1. ~rd /\ ~wr /\ cst = "idle" /\ PFree
    BY <1>9, FreeToIssue DEF MainGoes
  <2>2. rd' <=> ~wr'
    BY <1>0, <1>9, Drives DEF MainGoes
  <2>3. Waits' /\ ~Reads' /\ ~Drops' /\ ~PAct' /\ MAct' /\ prss' # "dma_wait"
    BY <1>9 DEF Waits, Reads, Drops, PAct, MAct, MainGoes
  <2>4. Event
    BY <2>1, <2>2, <2>3, phase = 0 DEF Event, GaIssue
  <2>5. Strobes'
    BY <1>4, <2>2, <2>3 DEF Strobes
  <2> QED BY <1>0, <1>2, <1>9, <2>1, <2>4, <2>5 DEF MainGoes
<1>10. CASE AllRest
  <2>1. ~rd /\ ~wr /\ ~rd' /\ ~wr' /\ Line' = Line /\ bus'.a = bus.a
    BY <1>10, DropsStrobe DEF Sound, Strobes, AllRest
  <2>2. ~Waits' /\ ~Reads' /\ ~Drops' /\ ~PAct' /\ ~MAct' /\ prss' # "dma_wait"
    BY <1>10 DEF Waits, Reads, Drops, PAct, MAct, AllRest
  <2>3. Event
    BY <1>5, <1>10, <2>1, <2>2 DEF Event, GaStay, Same, AllRest
  <2>4. Strobes'
    BY <1>4, <2>1, <2>2 DEF Strobes
  <2> QED BY <1>1, <1>3, <1>10, <2>1, <2>3, <2>4 DEF AllRest
<1>11. CASE SubRuns
  <2>0. /\ rd => ~wr
        /\ rd \/ wr
        /\ prss = "read" => rd /\ ~wr
        /\ prss \in {"write", "dma_write", "dma_wait"} => wr /\ ~rd
        /\ prms \notin {"wait", "read", "write"} /\ prms' \notin {"wait", "read", "write"}
        /\ rd \in BOOLEAN /\ rd' \in BOOLEAN /\ wr \in BOOLEAN /\ wr' \in BOOLEAN
    BY <1>11, Wires DEF Sound, Strobes, PAct, MAct, Reads, Drops, rd, wr, TypeOK, SubRuns
  <2>1. CASE prss' = prss /\ bus' = bus /\ (prss \in {"wait", "dma_wait"} => ~busy)
    <3>1. (rd' <=> rd) /\ (wr' <=> wr) /\ Line' = Line /\ bus'.a = bus.a
      BY <2>1, DropsStrobe DEF Sound
    <3>2. Event
      BY <2>0, <2>1, <3>1 DEF Event, GaStay, Same, Waits, Reads, Drops
    <3>3. Strobes'
      BY <1>4, <1>11, <2>0, <2>1, <3>1 DEF Strobes, Waits, Reads, Drops, PAct, MAct, SubRuns
    <3> QED BY <1>1, <1>3, <1>11, <3>1, <3>2, <3>3 DEF SubRuns
  <2>2. CASE prss \in {"wait", "dma_wait"} /\ busy /\ bus' = bus
             /\ prss' = (IF rd THEN "read" ELSE IF prss = "wait" THEN "write" ELSE "dma_write")
    <3>1. (rd' <=> rd) /\ (wr' <=> wr) /\ Line' = Line /\ bus'.a = bus.a
      BY <2>2, DropsStrobe DEF Sound
    <3>2. Event
      BY <2>0, <2>2, <3>1, phase = 0 DEF Event, GaSeen, Waits, Reads, Drops
    <3>3. Strobes'
      BY <1>4, <1>11, <2>0, <2>2, <3>1 DEF Strobes, Waits, Reads, Drops, PAct, MAct, SubRuns
    <3> QED BY <1>1, <1>3, <1>11, <3>1, <3>2, <3>3 DEF SubRuns
  <2>3. CASE prss = "read" /\ ~busy /\ prss' = "end" /\ bus' = DropRead(bus)
    <3>1. ~rd' /\ ~wr' /\ bus'.a = bus.a
      BY <2>0, <2>3, DropsStrobe DEF Sound
    <3>2. Event
      BY <2>0, <2>3, <3>1, phase = 0 DEF Event, GaReadEnds, Rest, Waits, Reads, Drops
    <3>3. Strobes'
      BY <1>4, <1>11, <2>0, <2>3, <3>1 DEF Strobes, Waits, Reads, Drops, PAct, MAct, SubRuns
    <3> QED BY <1>1, <1>3, <1>11, <3>1, <3>2, <3>3 DEF SubRuns
  <2>4. CASE prss \in {"write", "dma_write"} /\ prss' \in {"end", "dma_end"} /\ bus' = DropWrite(bus)
    <3>1. ~rd' /\ ~wr' /\ bus'.a = bus.a
      BY <2>0, <2>4, DropsStrobe DEF Sound
    <3>2. Event
      BY <2>0, <2>4, <3>1, phase = 0 DEF Event, GaWriteEnds, Rest, Waits, Reads, Drops
    <3>3. Strobes'
      BY <1>4, <1>11, <2>0, <2>4, <3>1 DEF Strobes, Waits, Reads, Drops, PAct, MAct, SubRuns
    <3> QED BY <1>1, <1>3, <1>11, <3>1, <3>2, <3>3 DEF SubRuns
  <2> QED BY <1>11, <2>0, <2>1, <2>2, <2>3, <2>4 DEF SubRuns
<1>12. CASE MainRuns
  <2>0. /\ rd => ~wr
        /\ rd \/ wr
        /\ prms = "read" => rd /\ ~wr
        /\ prms = "write" => wr /\ ~rd
        /\ prss \notin {"wait", "read", "write", "dma_wait", "dma_write"}
        /\ rd \in BOOLEAN /\ rd' \in BOOLEAN /\ wr \in BOOLEAN /\ wr' \in BOOLEAN
    BY <1>12, Wires DEF Sound, Strobes, PAct, MAct, Reads, Drops, rd, wr, TypeOK, MainRuns
  <2>1. CASE prms' = prms /\ bus' = bus /\ (prms = "wait" => ~busy)
    <3>1. (rd' <=> rd) /\ (wr' <=> wr) /\ Line' = Line /\ bus'.a = bus.a
      BY <2>1, DropsStrobe DEF Sound
    <3>2. Event
      BY <1>12, <2>0, <2>1, <3>1 DEF Event, GaStay, Same, Waits, Reads, Drops, MainRuns
    <3>3. Strobes'
      BY <1>4, <1>12, <2>0, <2>1, <3>1 DEF Strobes, Waits, Reads, Drops, PAct, MAct, MainRuns
    <3> QED BY <1>1, <1>3, <1>12, <3>1, <3>2, <3>3 DEF MainRuns
  <2>2. CASE prms = "wait" /\ busy /\ bus' = bus /\ prms' = (IF rd THEN "read" ELSE "write")
    <3>1. (rd' <=> rd) /\ (wr' <=> wr) /\ Line' = Line /\ bus'.a = bus.a
      BY <2>2, DropsStrobe DEF Sound
    <3>2. Event
      BY <1>12, <2>0, <2>2, <3>1, phase = 0 DEF Event, GaSeen, Waits, Reads, Drops, MainRuns
    <3>3. Strobes'
      BY <1>4, <1>12, <2>0, <2>2, <3>1 DEF Strobes, Waits, Reads, Drops, PAct, MAct, MainRuns
    <3> QED BY <1>1, <1>3, <1>12, <3>1, <3>2, <3>3 DEF MainRuns
  <2>3. CASE prms = "read" /\ ~busy /\ prms' = "end" /\ bus' = DropRead(bus)
    <3>1. ~rd' /\ ~wr' /\ bus'.a = bus.a
      BY <2>0, <2>3, DropsStrobe DEF Sound
    <3>2. Event
      BY <1>12, <2>0, <2>3, <3>1, phase = 0 DEF Event, GaReadEnds, Rest, Waits, Reads, Drops, MainRuns
    <3>3. Strobes'
      BY <1>4, <1>12, <2>0, <2>3, <3>1 DEF Strobes, Waits, Reads, Drops, PAct, MAct, MainRuns
    <3> QED BY <1>1, <1>3, <1>12, <3>1, <3>2, <3>3 DEF MainRuns
  <2>4. CASE prms = "write" /\ prms' = "end" /\ bus' = DropWrite(bus)
    <3>1. ~rd' /\ ~wr' /\ bus'.a = bus.a
      BY <2>0, <2>4, DropsStrobe DEF Sound
    <3>2. Event
      BY <1>12, <2>0, <2>4, <3>1, phase = 0 DEF Event, GaWriteEnds, Rest, Waits, Reads, Drops, MainRuns
    <3>3. Strobes'
      BY <1>4, <1>12, <2>0, <2>4, <3>1 DEF Strobes, Waits, Reads, Drops, PAct, MAct, MainRuns
    <3> QED BY <1>1, <1>3, <1>12, <3>1, <3>2, <3>3 DEF MainRuns
  <2> QED BY <1>12, <2>1, <2>2, <2>3, <2>4 DEF MainRuns
<1> QED BY GateMoves, <1>6, <1>7, <1>8, <1>9, <1>10, <1>11, <1>12 DEF GateMove

-----------------------------------------------------------------------------
(* The cache is on and stays on, it is reset with the rest, and /DTACK     *)
(* waits for the data: how the core runs unless the OSD's switches of the  *)
(* cache are used.                                                         *)
CacheStaysOn == EnFirst = {TRUE} /\ Toggles = 0 /\ ~EarlyDtack /\ ResetsCache = {TRUE}

LEMMA TickDated ==
  ASSUME CacheStaysOn, Sound, Tick, TypeOK'
  PROVE  Dated /\ Strobes'
<1>1. SdramPort /\ phase' = 1 - phase /\ phase \in {0, 1}
  BY DEF Tick, Sound, TypeOK
<1>2. CacheStep
  <2>1. Cache(FALSE) /\ en
    BY DEF Tick, Sound, CacheOn
  <2>2. /\ CacheInit \/ CacheIdle \/ CacheLook \/ CacheMiss \/ CacheWrite \/ CacheHold
        /\ CacheStore
    BY <2>1 DEF Cache
  <2>3. (old_rd' <=> rd) /\ (old_wr' <=> wr)
    BY <2>1 DEF Cache
  <2> QED BY <2>2, <2>3 DEF CacheStep
<1>3. (en' <=> en) /\ toggles' = toggles
  <2>1. CASE phase = 0
    <3>1. Osd /\ toggles = 0 /\ Toggles = 0
      BY <2>1 DEF Tick, Sound, CacheOn, CacheStaysOn
    <3> QED BY <3>1 DEF Osd
  <2>2. CASE phase = 1
    <3>1. UNCHANGED board
      BY <2>2 DEF Tick
    <3> QED BY <3>1 DEF board
  <2> QED BY <1>1, <2>1, <2>2
<1>4. Strobed
  BY SoundStrobed
<1>5. /\ Event /\ Strobes'
      /\ rise_wr' => shadow' = Put(shadow, Line')
      /\ ~rise_wr' => shadow' = shadow
  <2>1. CASE phase = 0
    BY <1>2, <2>1, GateEvents DEF Tick, CacheStep
  <2>2. CASE phase = 1
    <3>1. bus' = bus /\ prms' = prms /\ prss' = prss /\ dma' = dma /\ shadow' = shadow
      BY <2>2 DEF Tick, asic, users
    <3>2. (rd' <=> rd) /\ (wr' <=> wr) /\ Line' = Line /\ bus'.a = bus.a /\ Same /\ (PAct' <=> PAct) /\ (MAct' <=> MAct)
      BY <3>1 DEF rd, wr, Line, Same, Waits, Reads, Drops, PAct, MAct
    <3>3. Event
      BY <2>2, <3>2 DEF Event, GaStay
    <3>4. Strobes'
      BY <3>1, <3>2 DEF Sound, Strobes, Same
    <3>5. ~rise_wr'
      BY <1>2, <3>2 DEF rise_wr, CacheStep
    <3> QED BY <3>1, <3>3, <3>4, <3>5
  <2> QED BY <1>1, <2>1, <2>2
<1> QED BY <1>1, <1>2, <1>3, <1>4, <1>5 DEF Dated, Clocked, Sound

(* When the gate array sees busy fall, the read's data are there.          *)
LEMMA ReadReturns ==
  ASSUME Sound, Fetch, Reads, ~busy
  PROVE  dout = shadow[bus.a] /\ rd
<1> USE DEF Sound
<1>1. rd /\ ~Waits
  BY SoundStrobed DEF Strobed
<1>2. old_rd
  BY <1>1 DEF ReadStage, rise_rd
<1>3. cst = "idle"
  BY <1>1 DEF ReadStage, busy, busy_int, CacheOn
<1> QED BY <1>1, <1>2, <1>3 DEF Fetch, dout, CacheOn

(* The sub-CPU's cycle: what it is acknowledged with is what it asked for. *)
LEMMA SubDataStep ==
  ASSUME CacheStaysOn, Sound, Fetch, GateArray, Users, phase = 0, TypeOK', TypeAux', (old_wr' <=> wr)
  PROVE  SubData'
<1> USE DEF Sound
<1>1. /\ sack' <=> SubAck \/ (sack /\ sub.st = "on")
      /\ posted' <=> IF SubIssues /\ post_wr /\ sub.op.we # {} THEN TRUE ELSE IF prss = "write" THEN FALSE ELSE posted
      /\ sdo' = IF prss = "read" /\ ~busy THEN dout ELSE sdo
  BY DEF GateArray, PRSS, SubSel, TypeOK
<1>2. /\ want'.sub = IF SubTakes THEN shadow[sub.op.a] ELSE IF sub.st = "on" THEN want.sub ELSE Quiet.d
      /\ want'.taken <=> SubTakes \/ (sub.st = "on" /\ want.taken)
  BY DEF Users, SubSel, TypeAux
<1>3. /\ sub \in [st : {"off", "on"}, op : Op]
      /\ \/ sub' = sub
         \/ sub.st = "off" /\ sub'.st = "on"
         \/ sub.st = "on" /\ sack /\ sub'.st = "off"
  BY DEF TypeAux, Users, SubCpu, On, Off
<1>4. /\ (wr' /\ ~wr) \/ shadow' = shadow
      /\ rd' => ~wr'
  BY GateEvents DEF Strobes, rise_wr
<1>5. SubAck <=> \/ SubTakes /\ (Blocked \/ (post_wr /\ sub.op.we # {}))
                 \/ prss = "read" /\ ~busy
                 \/ prss = "write" /\ ~posted
  BY DEF SubAck, CacheStaysOn
<1>6. /\ prss = "read" => rd
      /\ prss \in {"write", "dma_write", "dma_wait"} => wr
      /\ rd => ~wr
      /\ rd \/ wr <=> PAct \/ MAct
  BY DEF Strobes, Reads, Drops
<1>7. CASE SubGoes
  <2>1. sub.st = "on" /\ ~sack /\ prss = "idle" /\ ~Blocked
    BY <1>7 DEF SubGoes, SubIssues, SubTakes, SubSel
  <2>2. sub' = sub /\ ~posted /\ want'.taken /\ want'.sub = shadow[sub.op.a]
    BY <1>2, <1>3, <1>7, <2>1 DEF SubGoes, SubIssues, SubData
  <2>3. (sack' <=> post_wr /\ sub.op.we # {}) /\ (posted' <=> post_wr /\ sub.op.we # {})
    BY <1>1, <1>5, <1>7, <2>1, <2>2 DEF SubGoes, SubIssues
  <2>4. bus'.a = sub.op.a /\ (rd' <=> sub.op.we = {}) /\ (wr' <=> sub.op.we # {})
    BY <1>3, <1>7, Drives DEF SubGoes
  <2>5. prss' = "wait"
    BY <1>7 DEF SubGoes
  <2> QED BY <1>4, <2>1, <2>2, <2>3, <2>4, <2>5 DEF SubData
<1>8. CASE SubStops
  <2>1. sub.st = "on" /\ ~sack /\ prss = "idle" /\ sub.op.we # {}
    BY <1>8 DEF SubStops, SubTakes, SubSel, Blocked
  <2>2. sub' = sub /\ ~posted /\ want'.taken
    BY <1>2, <1>3, <1>8, <2>1 DEF SubStops, SubData
  <2>3. sack' /\ ~posted' /\ prss' = "end"
    BY <1>1, <1>5, <1>8, <2>1, <2>2 DEF SubStops, SubIssues
  <2> QED BY <2>1, <2>2, <2>3 DEF SubData
<1>9. CASE ~SubTakes
  <2>1. /\ sack' <=> (prss = "read" /\ ~busy) \/ (prss = "write" /\ ~posted) \/ (sack /\ sub.st = "on")
        /\ posted' <=> prss # "write" /\ posted
        /\ want'.taken <=> sub.st = "on" /\ want.taken
        /\ sub.st = "on" => want'.sub = want.sub
    BY <1>1, <1>2, <1>5, <1>9 DEF SubIssues
  <2>2. prss' \in {"wait", "read", "write"} =>
          /\ prss = "wait" \/ (prss = "read" /\ busy) 
          /\ bus' = bus /\ (rd' <=> rd) /\ (wr' <=> wr) /\ shadow' = shadow
          /\ prss' = "read" => rd
          /\ prss' = "write" => wr
    <3>1. bus' = bus => (rd' <=> rd) /\ (wr' <=> wr)
      BY DropsStrobe
    <3> QED BY <1>4, <1>6, <1>9, <3>1, GateMoves
            DEF GateMove, DmaGoes, SubGoes, SubIssues, SubStops, MainGoes, AllRest, SubRuns, MainRuns, PAct, MAct
  <2>3. sub.st = "off" => ~sack'
    BY <1>6, <2>1 DEF SubData
  <2>4. /\ prss = "wait" => prss' \in {"wait", "read", "write"} 
        /\ prss = "read" => prss' = (IF busy THEN "read" ELSE "end")
        /\ prss = "end" /\ sack /\ sub.st = "on" => prss' = "end"
    BY <1>9 DEF GateArray, PRSS, DmaIssues, SubSel
  <2>5. /\ sub'.st = "on" /\ want'.taken => sub' = sub /\ sub.st = "on" /\ want.taken
        /\ sub'.st = "on" /\ sack' => sub' = sub /\ sub.st = "on"
    BY <1>3, <2>1, <2>3
  <2>6. prss' \in {"wait", "read"} /\ rd' =>
          /\ sub'.st = "on" /\ ~sack' /\ want'.taken /\ sub'.op.we = {}
          /\ bus'.a = sub'.op.a /\ want'.sub = shadow'[sub'.op.a]
    BY <1>3, <1>6, <2>1, <2>2 DEF SubData
  <2>7. prss' \in {"wait", "write"} /\ wr' /\ ~posted' =>
          sub'.st = "on" /\ ~sack' /\ want'.taken /\ sub'.op.we # {}
    BY <1>3, <1>6, <2>1, <2>2 DEF SubData
  <2>8. posted' => prss' \in {"wait", "write"} /\ wr' /\ (sub'.st = "on" /\ want'.taken => sack')
    <3>1. SUFFICES ASSUME posted' PROVE prss' \in {"wait", "write"} /\ wr' /\ (sub'.st = "on" /\ want'.taken => sack')
      OBVIOUS
    <3>2. posted /\ prss = "wait" /\ wr /\ ~rd
      BY <1>6, <2>1, <3>1 DEF SubData
    <3>3. prss' \in {"wait", "write"} /\ wr'
      BY <2>2, <2>4, <3>2
    <3> QED BY <2>1, <2>5, <3>2, <3>3 DEF SubData
  <2>9. sub'.st = "on" /\ want'.taken => sack' \/ prss' \in {"wait", "read", "write"}
    BY <2>1, <2>4, <2>5 DEF SubData
  <2>10. ASSUME sub'.st = "on", sack'
         PROVE  want'.taken /\ (sub'.op.we = {} => prss' = "end" /\ sdo' = want'.sub)
    <3>1. sub' = sub /\ sub.st = "on" /\ want'.sub = want.sub
      BY <2>1, <2>5, <2>10
    <3>2. CASE prss = "read" /\ ~busy
      <4>1. sdo' = shadow[bus.a] /\ rd
        BY <1>1, <3>2, ReadReturns DEF Reads
      <4> QED BY <2>1, <2>4, <3>1, <3>2, <4>1 DEF SubData
    <3>3. CASE prss = "write" /\ ~posted
      BY <1>6, <2>1, <3>1, <3>3 DEF SubData
    <3>4. CASE sack
      BY <1>1, <2>1, <2>4, <3>1, <3>4 DEF SubData
    <3> QED BY <2>1, <2>10, <3>2, <3>3, <3>4
  <2> QED BY <2>6, <2>7, <2>8, <2>9, <2>10 DEF SubData
<1> QED BY <1>7, <1>8, <1>9, GateMoves DEF GateMove, DmaGoes, MainGoes, AllRest, SubRuns, MainRuns, NoIssue

(* The main CPU's cycle, through its window.                               *)
LEMMA MainDataStep ==
  ASSUME CacheStaysOn, Sound, Fetch, GateArray, Users, Osd, phase = 0, TypeOK', TypeAux', (old_wr' <=> wr)
  PROVE  MainData'
<1> USE DEF Sound
<1>1. /\ mack' <=> IF prms # "end" /\ prms' = "end" THEN TRUE ELSE IF prms = "end" /\ main.st # "on" THEN FALSE ELSE mack
      /\ mdo' = IF prms = "read" /\ ~busy THEN dout ELSE mdo
  BY DEF GateArray, PRMS, MainSel, TypeOK
<1>2. want'.main = IF MainIssues THEN shadow[main.op.a] ELSE IF main.st = "on" THEN want.main ELSE Quiet.d
  BY DEF Users, MainSel, TypeAux
<1>3. /\ main \in [st : {"off", "on"}, op : Op] /\ load' = load
      /\ \/ main' = main /\ (sbrq' <=> sbrq) /\ (main.st = "on" => gap' = gap)
         \/ main.st = "off" /\ main'.st = "on" /\ gap' = load.gap /\ load.main # {} /\ (sbrq' <=> sbrq)
         \/ main.st = "off" /\ main' = main
         \/ main.st = "on" /\ mack /\ main'.st = "off" /\ gap' = load.gap - load.between
  <2>1. MainCpu /\ load' = load /\ main \in [st : {"off", "on"}, op : Op]
    BY DEF TypeAux, Users, Osd
  <2>2. CASE UNCHANGED <<main, sbrq>> /\ gap' = IF main.st = "off" /\ gap < load.gap THEN gap + 1 ELSE gap
    BY <2>1, <2>2
  <2>3. CASE main.st = "off" /\ gap = load.gap /\ (\E o \in load.main : main' = On(o)) /\ UNCHANGED <<gap, sbrq>>
    BY <2>1, <2>3 DEF On
  <2>4. CASE main.st = "off" /\ gap = load.gap /\ sbrq' = ~sbrq /\ gap' = 0 /\ UNCHANGED main
    BY <2>1, <2>4
  <2>5. CASE main.st = "on" /\ mack /\ main' = Off /\ gap' = load.gap - load.between /\ UNCHANGED sbrq
    BY <2>1, <2>5 DEF Off
  <2> QED BY <2>1, <2>2, <2>3, <2>4, <2>5 DEF MainCpu
<1>4. /\ (wr' /\ ~wr) \/ shadow' = shadow
      /\ rd' => ~wr'
  BY GateEvents DEF Strobes, rise_wr
<1>5. /\ prms = "read" => rd
      /\ prms = "write" => wr
      /\ rd => ~wr
      /\ prms \in {"idle", "wait", "read", "write", "end"}
  BY DEF Strobes, Reads, Drops, TypeOK
<1>6. /\ mack <=> prms = "end"
      /\ main.st = "on" => gap = load.gap /\ load.main # {}
      /\ main.st = "off" /\ prms # "idle" => prms = "end"
      /\ MAct => main.st = "on" /\ sbrq
  BY DEF MainData
<1>7. /\ prms = "end" => prms' = IF main.st = "on" THEN "end" ELSE "idle"
      /\ prms = "idle" => prms' = IF main.st = "on" THEN (IF sbrq THEN "wait" ELSE "end") ELSE "idle"
      /\ MAct' => MainIssues \/ MAct
  BY <1>5, <1>6 DEF GateArray, PRMS, MainIssues, MainSel, open, MAct
<1>8. mack' <=> prms' = "end"
  BY <1>1, <1>5, <1>6, <1>7, <1>3
<1>9. main'.st = "on" => gap' = load'.gap /\ load'.main # {}
  BY <1>3, <1>6
<1>10. main'.st = "off" /\ prms' # "idle" => prms' = "end" /\ gap' = load'.gap - load'.between
  BY <1>3, <1>6, <1>7
<1>11. MAct' => main'.st = "on" /\ sbrq' /\ main' = main
  <2>1. MAct' => main.st = "on" /\ sbrq /\ ~mack
    BY <1>6, <1>7 DEF MainIssues, MainSel, open, MAct
  <2> QED BY <1>3, <2>1
<1>12. ASSUME MAct'
       PROVE  /\ rd' => /\ main'.op.we = {}
                        /\ bus'.a = main'.op.a /\ want'.main = shadow'[main'.op.a]
              /\ wr' => main'.op.we # {}
  <2>1. CASE MainGoes
    <3>1. main' = main /\ want'.main = shadow[main.op.a]
      BY <1>2, <1>11, <1>12, <2>1 DEF MainGoes
    <3>2. bus'.a = main.op.a /\ (rd' <=> main.op.we = {}) /\ (wr' <=> main.op.we # {})
      BY <1>3, <2>1, Drives DEF MainGoes
    <3> QED BY <1>4, <3>1, <3>2
  <2>2. CASE MainRuns
    <3>1. bus' = bus /\ ~MainIssues /\ MAct
      BY <1>12, <2>2 DEF MainRuns, NoIssue, MAct
    <3>2. (rd' <=> rd) /\ (wr' <=> wr) /\ bus'.a = bus.a
      BY <3>1, DropsStrobe
    <3>3. main' = main /\ want'.main = want.main /\ main.st = "on"
      BY <1>2, <1>6, <1>11, <1>12, <3>1
    <3> QED BY <1>4, <3>1, <3>2, <3>3 DEF MainData
  <2>3. MainGoes \/ MainRuns
    BY <1>12, GateMoves DEF GateMove, DmaGoes, SubGoes, SubStops, AllRest, SubRuns, MAct
  <2> QED BY <2>1, <2>2, <2>3
<1>13. ASSUME main'.st = "on", sbrq', prms' = "end", main'.op.we = {}
       PROVE  mdo' = want'.main
  <2>1. main.st = "on"
    BY <1>3, <1>6, <1>7, <1>13
  <2>2. main' = main /\ sbrq /\ (sbrq' <=> sbrq)
    BY <1>3, <1>13, <2>1
  <2>3. prms \in {"read", "write", "end"} /\ (prms = "read" => ~busy)
    BY <1>5, <1>7, <1>13, <2>1, <2>2 DEF GateArray, PRMS, MainIssues, MainSel, open
  <2>4. want'.main = want.main
    BY <1>2, <2>1, <2>3 DEF MainIssues
  <2>5. CASE prms = "read"
    <3>1. mdo' = shadow[bus.a] /\ rd
      BY <1>1, <2>3, <2>5, ReadReturns DEF Reads
    <3> QED BY <2>4, <2>5, <3>1 DEF MainData, MAct
  <2>6. CASE prms = "write"
    BY <1>5, <1>13, <2>2, <2>6 DEF MainData, MAct
  <2>7. CASE prms = "end"
    BY <1>1, <1>13, <2>1, <2>2, <2>4, <2>7 DEF MainData
  <2> QED BY <2>3, <2>5, <2>6, <2>7
<1> QED BY <1>8, <1>9, <1>10, <1>11, <1>12, <1>13 DEF MainData

-----------------------------------------------------------------------------
(* The time an access still takes.                                         *)
LEMMA PortLeftStep ==
  ASSUME Dated
  PROVE  /\ PortLeft \in Nat /\ PortLeft' \in Nat /\ PortLeft' <= 9
         /\ \/ PortLeft' < PortLeft \/ (PortLeft = 0 /\ PortLeft' = 0) \/ (s_pending' /\ ~s_pending)
            \/ PutOff /\ PortLeft' <= PortLeft
         /\ ~s_pending => PortLeft <= 8
         /\ s_pending \/ s_busy => PortLeft > 0
<1> USE DEF Dated, Clocked
<1>0. Clocked
  OBVIOUS
<1>1. /\ sc \in 0 .. 6 /\ sc' \in 0 .. 6 /\ sd \in BOOLEAN /\ sd2 \in BOOLEAN
  BY DEF TypeOK
<1>2. /\ sc # 0 => PortLeft = 9 - sc
      /\ sc = 0 /\ s_pending => PortLeft = 9
      /\ sc = 0 /\ ~s_pending /\ sd => PortLeft = 2
      /\ sc = 0 /\ ~s_pending /\ ~sd /\ sd2 => PortLeft = 1
      /\ sc = 0 /\ ~s_pending /\ ~sd /\ ~sd2 => PortLeft = 0
  BY DEF PortLeft
<1>3. /\ sc' # 0 => PortLeft' = 9 - sc'
      /\ sc' = 0 /\ s_pending' => PortLeft' = 9
      /\ sc' = 0 /\ ~s_pending' /\ sd' => PortLeft' = 2
      /\ sc' = 0 /\ ~s_pending' /\ ~sd' /\ sd2' => PortLeft' = 1
      /\ sc' = 0 /\ ~s_pending' /\ ~sd' /\ ~sd2' => PortLeft' = 0
  BY DEF PortLeft
<1>4. s_pending' => sc' = 0 /\ sc = 0
  <2>1. s_pending' <=> (s_rd_r' /\ ~sold'.rd) \/ WPend'
    BY DEF s_pending, Port2!Pending, s_rd, WPend, CacheOn
  <2>2. s_rd_r' /\ ~sold'.rd => PFree'
    BY CacheMoves, ReadStageStep DEF ReadStage
  <2>3. WPend' => PFree'
    BY WriteStageStep DEF WriteStage
  <2> QED BY <2>1, <2>2, <2>3, <1>0, PortStep DEF PFree
<1> HIDE DEF Dated, Clocked
<1>5. PortLeft \in Nat /\ PortLeft' \in Nat /\ PortLeft' <= 9
  BY <1>1, <1>2, <1>3
<1>6. \/ PortLeft' < PortLeft \/ (PortLeft = 0 /\ PortLeft' = 0) \/ (s_pending' /\ ~s_pending)
      \/ PutOff /\ PortLeft' <= PortLeft
  <2>1. CASE sc # 0
    <3>1. (sd' <=> sc # 0) /\ (sc = 6 => sc' = 0) /\ (sc # 6 => sc' = sc + 1)
      BY <2>1, <1>0, PortStep
    <3> QED BY <1>1, <1>2, <1>3, <1>4, <2>1, <3>1
  <2>2. CASE sc = 0 /\ sc' # 0
    <3>1. sc' = 1 /\ s_pending
      BY <2>2, <1>0, PortStep
    <3> QED BY <1>1, <1>2, <1>3, <2>2, <3>1
  <2>3. CASE sc = 0 /\ sc' = 0
    <3>1. ~sd' /\ (sd2' <=> sd)
      BY <2>3, <1>0, PortStep
    <3>2. CASE s_pending
      BY <1>2, <1>5, <2>3, <3>2 DEF PutOff
    <3>3. CASE ~s_pending /\ ~s_pending'
      BY <1>1, <1>2, <1>3, <2>3, <3>1, <3>3
    <3>4. CASE ~s_pending /\ s_pending'
      BY <3>4
    <3> QED BY <3>2, <3>3, <3>4
  <2> QED BY <2>1, <2>2, <2>3
<1>7. ~s_pending => PortLeft <= 8
  BY <1>1, <1>2
<1>8. s_pending \/ s_busy => PortLeft > 0
  BY <1>1, <1>2 DEF s_busy, Port2!Busy
<1> QED BY <1>1, <1>5, <1>6, <1>7, <1>8

LEMMA PendingWhen ==
  ASSUME Dated
  PROVE  /\ s_pending => cst = "miss" \/ Writing
         /\ s_pending' /\ ~s_pending => (cst = "look" /\ cst' = "miss") \/ rise_wr'
         /\ rise_rd \/ rise_wr => cst = "idle"
         /\ rise_rd => ~rise_wr
         /\ rise_rd' => ~rise_wr'
         /\ rise_rd' \/ rise_wr' => cst = "idle" /\ cst' = "idle" /\ ~rise_rd /\ ~rise_wr
<1> USE Wires DEF Dated, Clocked
<1>1. /\ rise_rd <=> rd /\ ~old_rd
      /\ rise_wr <=> wr /\ ~old_wr
      /\ rise_rd' <=> rd' /\ ~rd
      /\ rise_wr' <=> wr' /\ ~wr
      /\ WPend <=> wr /\ ~sold.wr
  BY DEF rise_rd, rise_wr, CacheStep, WPend
<1>2. /\ s_pending <=> (s_rd_r /\ ~sold.rd) \/ WPend
      /\ s_pending' <=> (s_rd_r' /\ ~sold'.rd) \/ WPend'
  BY PortStep DEF s_pending, Port2!Pending, s_rd, WPend, CacheOn
<1>3. s_pending => cst = "miss" \/ Writing
  BY <1>2 DEF CacheOn, WriteStage, Writing
<1>4. s_pending' /\ ~s_pending => (cst = "look" /\ cst' = "miss") \/ rise_wr'
  <2>1. s_rd_r' /\ ~sold'.rd /\ ~s_pending => cst = "look" /\ cst' = "miss"
    <3>1. s_rd_r' => cst' = "miss" /\ cst \in {"look", "miss"}
      BY CacheMoves DEF CacheMove
    <3>2. cst = "miss" => s_rd_r
      BY DEF CacheOn
    <3> QED BY <1>2, <3>1, <3>2, PortStep
  <2>2. WPend' /\ ~s_pending => rise_wr'
    BY <1>2, StrobesStay
  <2> QED BY <1>2, <2>1, <2>2
<1>5. rise_rd' \/ rise_wr' => cst = "idle" /\ cst' = "idle" /\ ~rise_rd /\ ~rise_wr
  <2>1. SUFFICES ASSUME rise_rd' \/ rise_wr'
                 PROVE  cst = "idle" /\ cst' = "idle" /\ ~rise_rd /\ ~rise_wr
    OBVIOUS
  <2>2. cst' = "idle"
    BY <2>1, ReadStageStep, WriteStageStep DEF ReadStage, WriteStage
  <2>3. GaIssue
    BY <1>1, <2>1 DEF Event, GaStay, GaIssue, GaSeen, GaReadEnds, GaWriteEnds, GaBlocked, Same, Rest, Strobed
  <2> QED BY <1>1, <2>2, <2>3 DEF GaIssue
<1>6. (rise_rd => ~rise_wr) /\ (rise_rd \/ rise_wr => cst = "idle")
  BY <1>1 DEF Strobed, ReadStage, WriteStage
<1>7. rise_rd' => ~rise_wr'
  BY <1>1 DEF Event, GaStay, GaIssue, GaSeen, GaReadEnds, GaWriteEnds, GaBlocked, Same, Rest, Strobed
<1> QED BY <1>3, <1>4, <1>5, <1>6, <1>7

(* Every clock without a new access brings the end of the last one nearer. *)
LEMMA LeftStep ==
  ASSUME Dated
  PROVE  /\ Left \in Nat /\ Left' \in Nat
         /\ rise_rd' \/ rise_wr' => Left' <= 16
         /\ ~(rise_rd' \/ rise_wr') =>
              Left' < Left \/ (Left = 0 /\ Left' = 0) \/ (PutOff /\ Left' <= Left)
         /\ s_pending => Left > 0
<1>0. Clocked
  BY DEF Dated
<1>1. /\ Lines \in Nat /\ icnt \in 0 .. Lines - 1 /\ icnt' \in 0 .. Lines - 1
      /\ hcnt \in 0 .. 3 /\ hcnt' \in 0 .. 3
      /\ cst \in {"init", "idle", "look", "miss", "hit", "wr", "tail"}
      /\ cst' \in {"init", "idle", "look", "miss", "hit", "wr", "tail"}
      /\ PortLeft \in Nat /\ PortLeft' \in Nat /\ PortLeft' <= 9
  BY CacheAssumption, PortLeftStep DEF TypeOK, Dated, Clocked
<1>2. /\ cst = "init" => Left = PortLeft + Lines - icnt
      /\ rise_rd => Left = 16
      /\ cst = "look" => Left = 15
      /\ cst = "miss" => Left = PortLeft + 5
      /\ cst \in {"hit", "tail"} => Left = hcnt + 1
      /\ cst = "wr" \/ rise_wr => Left = PortLeft + 4
      /\ cst = "idle" /\ ~rise_rd /\ ~rise_wr => Left = PortLeft
  BY PendingWhen DEF Left, Writing
<1>3. /\ cst' = "init" => Left' = PortLeft' + Lines - icnt'
      /\ rise_rd' => Left' = 16
      /\ cst' = "look" => Left' = 15
      /\ cst' = "miss" => Left' = PortLeft' + 5
      /\ cst' \in {"hit", "tail"} => Left' = hcnt' + 1
      /\ cst' = "wr" \/ rise_wr' => Left' = PortLeft' + 4
      /\ cst' = "idle" /\ ~rise_rd' /\ ~rise_wr' => Left' = PortLeft'
  BY PendingWhen DEF Left, Writing
<1>4. Left \in Nat /\ Left' \in Nat
  BY <1>1, <1>2, <1>3
<1>5. rise_rd' \/ rise_wr' => Left' <= 16
  <2>1. rise_rd' => Left' = 16
    BY <1>3
  <2>2. rise_wr' => Left' = PortLeft' + 4
    BY <1>3
  <2> QED BY <1>1, <2>1, <2>2
<1>6. ASSUME ~rise_rd', ~rise_wr'
      PROVE  Left' < Left \/ (Left = 0 /\ Left' = 0) \/ (PutOff /\ Left' <= Left)
  <2>1. Writing' <=> cst' = "wr"
    BY <1>6 DEF Writing
  <2>2. s_pending' /\ ~s_pending => cst = "look"
    BY <1>6, PendingWhen
  <2>0. PutOff => s_pending /\ (cst = "miss" \/ Writing)
    BY PendingWhen DEF PutOff
  <2>3. \/ PortLeft' < PortLeft \/ (PortLeft = 0 /\ PortLeft' = 0) \/ cst = "look"
        \/ PutOff /\ PortLeft' <= PortLeft
    BY <2>2, PortLeftStep
  <2>4. CASE cst = "init"
    <3>1. /\ cst' \in {"init", "idle"}
          /\ cst' = "init" => icnt' = icnt + 1
      BY <2>4 DEF CacheStep, CacheInit, CacheIdle, CacheLook, CacheMiss, CacheWrite, CacheHold, Dated, Clocked
    <3>2. Left = PortLeft + Lines - icnt
      BY <1>2, <2>4
    <3>3. PortLeft' <= PortLeft
      BY <1>1, <2>3, <2>4
    <3>4. CASE cst' = "init"
      <4>1. Left' = PortLeft' + Lines - icnt' /\ icnt' = icnt + 1
        BY <1>3, <3>1, <3>4
      <4>2. PICK b \in Nat, n \in Nat : PortLeft = b /\ PortLeft' = n
        BY <1>1
      <4> QED BY <1>1, <3>2, <3>3, <4>1, <4>2
    <3>5. CASE cst' = "idle"
      <4>1. Left' = PortLeft'
        BY <1>3, <1>6, <3>5
      <4> QED BY <1>1, <3>2, <3>3, <4>1
    <3> QED BY <3>1, <3>4, <3>5
  <2>5. CASE rise_rd
    BY <1>1, <1>2, <1>3, <1>4, <1>6, <2>1, <2>5, PendingWhen, <1>0, CacheMoves DEF CacheMove
  <2>6. CASE cst = "look"
    <3>1. Left = 15
      BY <1>2, <2>6
    <3>2. (cst' = "hit" /\ hcnt' = 2) \/ cst' = "miss"
      BY <1>0, <2>6, CacheMoves DEF CacheMove
    <3>3. Left' = 3 \/ Left' = PortLeft' + 5
      BY <1>3, <3>2
    <3> QED BY <1>1, <3>1, <3>3
  <2>7. CASE cst = "miss"
    <3>1. ~rise_rd /\ Left = PortLeft + 5
      BY <1>2, <2>7, PendingWhen
    <3>2. CASE cst' = "hit"
      BY <1>1, <1>3, <1>4, <1>6, <2>7, <3>1, <3>2, <1>0, CacheMoves DEF CacheMove
    <3>3. CASE cst' = "miss"
      <4>1. s_pending \/ s_busy
        <5>1. ~(saw_busy /\ ~s_busy)
          BY <2>7, <3>3, <1>0, CacheMoves DEF CacheMove
        <5>2. IF sold.rd THEN sc # 0 \/ saw_busy ELSE s_pending
          BY <2>7, <1>0, PortStep DEF ReadStage, CacheOn, Dated, Clocked
        <5> QED BY <5>1, <5>2 DEF s_busy, Port2!Busy
      <4>2. PortLeft' < PortLeft \/ (PutOff /\ PortLeft' <= PortLeft)
        BY <1>1, <2>3, <2>7, <4>1, PortLeftStep
      <4>3. Left' = PortLeft' + 5
        BY <1>3, <3>3
      <4>4. PICK b \in Nat, n \in Nat : PortLeft = b /\ PortLeft' = n
        BY <1>1
      <4> QED BY <3>1, <4>2, <4>3, <4>4
    <3> QED BY <2>7, <3>2, <3>3, <1>0, CacheMoves DEF CacheMove
  <2>8. CASE cst \in {"hit", "tail"}
    <3>1. PFree /\ ~s_pending
      BY <2>8, PendingWhen DEF ReadStage, WriteStage, Writing, Dated, Clocked
    <3>2. PortLeft = 0 /\ PortLeft' = 0
      BY <1>1, <2>3, <2>8, <3>1 DEF PortLeft, PFree
    <3>3. Left = hcnt + 1
      BY <1>2, <2>8, PendingWhen
    <3>4. (hcnt = 0 => cst' = "idle") /\ (hcnt # 0 => cst' = cst /\ hcnt' = hcnt - 1)
      BY <2>8, <1>0, CacheMoves DEF CacheMove
    <3> QED BY <1>1, <1>3, <1>6, <2>1, <2>8, <3>2, <3>3, <3>4
  <2>9. CASE Writing
    <3>1. Left = PortLeft + 4 /\ cst \in {"idle", "wr"} /\ ~rise_rd
      BY <1>2, <2>9, PendingWhen DEF Writing
    <3>2. CASE cst' = "tail"
      <4>1. hcnt' = 2 /\ Left' = hcnt' + 1
        BY <1>0, <1>3, <3>1, <3>2, CacheMoves DEF CacheMove
      <4> QED BY <1>1, <3>1, <4>1
    <3>3. CASE cst' = "wr"
      <4>1. s_pending \/ s_busy
        <5>1. rise_wr => s_pending
          BY <1>0, PortStep DEF WriteStage, WPend, rise_wr, Dated, Clocked
        <5>2. CASE cst = "wr"
          <6>1. ~(saw_busy /\ ~s_busy)
            BY <3>3, <5>2, <1>0, CacheMoves DEF CacheMove
          <6>2. WPend \/ sc # 0 \/ saw_busy
            BY <5>2 DEF WriteStage, Dated, Clocked
          <6> QED BY <6>1, <6>2, <1>0, PortStep DEF s_busy, Port2!Busy
        <5> QED BY <2>9, <5>1, <5>2 DEF Writing
      <4>2. PortLeft' < PortLeft \/ (PutOff /\ PortLeft' <= PortLeft)
        BY <1>1, <2>3, <3>1, <4>1, PortLeftStep
      <4>3. Left' = PortLeft' + 4
        BY <1>3, <3>3
      <4>4. PICK b \in Nat, n \in Nat : PortLeft = b /\ PortLeft' = n
        BY <1>1
      <4> QED BY <3>1, <4>2, <4>3, <4>4
    <3>4. cst' \in {"wr", "tail"}
      BY <2>9, <3>1, <1>0, CacheMoves DEF CacheMove, Writing
    <3> QED BY <3>2, <3>3, <3>4
  <2>10. CASE cst = "idle" /\ ~rise_rd /\ ~Writing
    <3>1. cst' = "idle"
      BY <2>10, <1>0, CacheMoves DEF CacheMove, Writing
    <3> QED BY <1>1, <1>2, <1>3, <1>4, <1>6, <2>1, <2>3, <2>10, <3>1
  <2> QED BY <1>1, <2>4, <2>5, <2>6, <2>7, <2>8, <2>9, <2>10 DEF Writing
<1>7. s_pending => Left > 0
  BY <1>1, <1>2, PendingWhen, PortLeftStep DEF Writing
<1> QED BY <1>1, <1>4, <1>5, <1>6, <1>7

-----------------------------------------------------------------------------
(* The main CPU's window: what BUSREQ leaves to the sub-CPU.               *)

LEMMA LeftIsZero ==
  ASSUME Sound, Left = 0
  PROVE  ~busy /\ PFree /\ ~(PAct /\ Waits) /\ cst = "idle"
<1>1. TypeOK
  BY DEF Sound
<1>2. cst = "idle" /\ PFree /\ ~rise_rd /\ ~rise_wr
  BY <1>1, LeftTypes
<1>3. ~busy
  BY <1>2 DEF busy, busy_int, PFree, s_busy, Port2!Busy
<1>4. ~(PAct /\ Waits)
  <2>1. rd \/ wr <=> PAct \/ MAct
    BY DEF Sound, Strobes
  <2>2. ~(rd /\ Waits)
    BY <1>2 DEF Sound, ReadStage
  <2>3. ~(wr /\ Waits)
    BY <1>2 DEF Sound, WriteStage, WPend
  <2> QED BY <2>1, <2>2, <2>3
<1> QED BY <1>2, <1>3, <1>4

(* With BUSREQ given and HaltLag past, only a sub-CPU cycle begun before   *)
(* can still issue an access; after it none does.                          *)
LEMMA Calm ==
  ASSUME CacheStaysOn, Sound, Tick, TypeOK', TypeAux', sbrq, gap >= HaltLag
  PROVE  /\ SubWaits' => SubWaits
         /\ SubTakes => SubWaits
         /\ phase = 0 /\ SubTakes => ~SubWaits' /\ ~PAct /\ prss = "idle"
         /\ rise_rd' \/ rise_wr' => phase = 0 /\ (MainGoes \/ (SubTakes /\ PAct'))
         /\ PAct' => \/ PAct /\ (Left > 0 \/ phase = 1)
                     \/ phase = 0 /\ SubTakes
         /\ SubWaits /\ ~PAct /\ prss = "idle" /\ ~(phase = 0 /\ SubTakes) =>
              (Left > 0 \/ phase = 1) /\ prss' = "idle"
         /\ SubWaits /\ ~PAct /\ prss # "idle" =>
              IF phase = 0 THEN prss' = "idle" ELSE prss' = prss
<1>0. /\ phase \in {0, 1} /\ TypeOK /\ Left \in Nat /\ HaltLag \in Nat
      /\ sub \in [st : {"off", "on"}, op : Op] /\ want \in [sub : Word, main : Word, taken : BOOLEAN]
      /\ prss \in {"idle", "wait", "read", "write", "end", "dma_wait", "dma_write", "dma_end"}
  BY LeftTypes, BoundAssumption DEF Sound, TypeOK, TypeAux
<1>1. SubTakes => SubWaits /\ prss = "idle" /\ ~PAct
  BY DEF SubTakes, SubSel, SubWaits, Sound, SubData, PAct
<1>2. CASE phase = 1
  <2>1. bus' = bus /\ prss' = prss /\ sub' = sub /\ sack' = sack /\ want' = want
    BY <1>2 DEF Tick, asic, users
  <2>2. (SubWaits' <=> SubWaits) /\ (PAct' <=> PAct)
    BY <2>1 DEF SubWaits, PAct
  <2>3. ~rise_rd' /\ ~rise_wr'
    <3>1. Cache(FALSE)
      BY DEF Tick
    <3>2. (old_rd' <=> rd) /\ (old_wr' <=> wr)
      BY <3>1 DEF Cache
    <3> QED BY <2>1, <3>2 DEF rise_rd, rise_wr, rd, wr
  <2> QED BY <1>1, <1>2, <2>1, <2>2, <2>3
<1>3. CASE phase = 0
  <2>1. GateArray /\ Users /\ GateMove
    BY <1>3, GateMoves DEF Tick
  <2>2. /\ sack' <=> SubAck \/ (sack /\ sub.st = "on")
        /\ want'.taken <=> SubTakes \/ (sub.st = "on" /\ want.taken)
    BY <1>0, <2>1 DEF GateArray, PRSS, SubSel, Users
  <2>3. \/ sub' = sub
        \/ sub.st = "on" /\ sack /\ sub'.st = "off"
    <3>1. SubCpu /\ ~(~sbrq \/ gap < HaltLag)
      BY <1>0, <2>1 DEF Users, TypeOK
    <3> QED BY <3>1 DEF SubCpu, Off
  <2>4. SubWaits' => SubWaits /\ ~SubTakes
    BY <1>0, <2>2, <2>3 DEF SubWaits
  <2>5. ~DmaIssues
    BY DEF DmaIssues
  <2>6. /\ rise_rd' => rd' /\ ~rd
        /\ rise_wr' => wr' /\ ~wr
    <3>1. Cache(FALSE)
      BY DEF Tick
    <3>2. (old_rd' <=> rd) /\ (old_wr' <=> wr)
      BY <3>1 DEF Cache
    <3> QED BY <3>2 DEF rise_rd, rise_wr
  <2>7. CASE SubGoes
    BY <1>1, <1>3, <2>4, <2>7 DEF SubGoes, SubIssues, PAct
  <2>8. CASE SubStops
    BY <1>1, <1>3, <2>4, <2>6, <2>8 DEF SubStops, PAct
  <2>9. CASE MainGoes \/ AllRest \/ MainRuns
    <3>1. ~SubTakes /\ prss' \in {"idle", "end"} /\ ~PAct /\ ~PAct'
      BY <2>9, FreeToIssue DEF MainGoes, AllRest, MainRuns, NoIssue, PAct
    <3>2. rise_rd' \/ rise_wr' => MainGoes
      <4>1. /\ bus' = bus => (rd' <=> rd) /\ (wr' <=> wr)
            /\ bus' = DropRead(bus) => ~rd' /\ (wr' <=> wr)
            /\ bus' = DropWrite(bus) => ~wr' /\ (rd' <=> rd)
        BY <1>0, DropsStrobe
      <4> QED BY <2>6, <2>9, <4>1 DEF AllRest, MainRuns
    <3>3. SubWaits /\ prss = "idle" => Left > 0
      BY <1>0, <2>5, <3>1, LeftIsZero DEF SubWaits, SubTakes, SubSel
    <3>4. /\ prss = "idle" => prss' = "idle"
          /\ SubWaits /\ ~PAct /\ prss # "idle" => prss' = "idle"
      BY <1>0, <2>1, <2>5, <3>1 DEF GateArray, PRSS, SubWaits, PAct
    <3> QED BY <1>3, <2>4, <3>1, <3>2, <3>3, <3>4
  <2>10. CASE SubRuns
    <3>1. ~SubTakes /\ PAct
      BY <2>10 DEF SubRuns, NoIssue
    <3>2. PAct' => Left > 0
      <4>1. SUFFICES ASSUME Left = 0 PROVE ~PAct'
        BY <1>0
      <4>2. ~busy /\ ~(PAct /\ Waits)
        BY <4>1, LeftIsZero
      <4> QED BY <2>10, <3>1, <4>2 DEF SubRuns, PAct, Waits
    <3>3. ~rise_rd' /\ ~rise_wr'
      <4>1. /\ bus' = bus => (rd' <=> rd) /\ (wr' <=> wr)
            /\ bus' = DropRead(bus) => ~rd' /\ (wr' <=> wr)
            /\ bus' = DropWrite(bus) => ~wr' /\ (rd' <=> rd)
        BY <1>0, DropsStrobe
      <4> QED BY <2>6, <2>10, <4>1 DEF SubRuns
    <3> QED BY <1>3, <2>4, <3>1, <3>2, <3>3
  <2> QED BY <2>1, <2>5, <2>7, <2>8, <2>9, <2>10 DEF GateMove, DmaGoes
<1> QED BY <1>0, <1>2, <1>3

RankLaw ==
  /\ Left > 0 => Until = Left + 2
  /\ ~(Left > 0) => Until = 1 + phase
  /\ SubWaits /\ PAct => Rank = Until + 18 + 4
  /\ SubWaits /\ ~PAct /\ prss = "idle" => Rank = Until + 18 + 0
  /\ SubWaits /\ ~PAct /\ prss # "idle" => Rank = Until + 18 + 2
  /\ ~SubWaits /\ PAct => Rank = Until
  /\ ~SubWaits /\ ~PAct => Rank = Left

LEMMA RankIs == RankLaw
  BY DEF RankLaw, Until, Rank

LEMMA RankIsNext == RankLaw'
  BY RankIs, PTL

(* Every clock brings the window nearer, but for those port 2 is put off.  *)
LEMMA RankStep ==
  ASSUME CacheStaysOn, Sound, Tick, TypeOK', TypeAux', sbrq, gap >= HaltLag, ~MainIssues
  PROVE  /\ Rank \in Nat /\ Rank' \in Nat
         /\ Rank' < Rank \/ (Rank = 0 /\ Rank' = 0) \/ (PutOff /\ Rank' <= Rank)
<1>1. Dated
  BY TickDated
<1>2. PICK l \in Nat, k \in Nat : Left = l /\ Left' = k
  BY <1>1, LeftStep
<1> DEFINE new == rise_rd' \/ rise_wr'
<1>3. /\ new => k <= 16
      /\ ~new => k < l \/ (l = 0 /\ k = 0) \/ (PutOff /\ k <= l)
      /\ PutOff => l > 0
  BY <1>1, <1>2, LeftStep DEF PutOff
<1>4. PICK t \in {0, 1} : phase = t /\ phase' = 1 - t
  BY DEF Tick, Sound, TypeOK
<1>5. PICK u \in Nat, n \in Nat : /\ Until = u /\ Until' = n
                                  /\ l > 0 => u = l + 2
                                  /\ ~(l > 0) => u = 1 + t
                                  /\ k > 0 => n = k + 2
                                  /\ ~(k > 0) => n = 2 - t
  <2>1. /\ Left > 0 => Until = Left + 2
        /\ ~(Left > 0) => Until = 1 + phase
    BY RankIs DEF RankLaw
  <2>2. /\ Left' > 0 => Until' = Left' + 2
        /\ ~(Left' > 0) => Until' = 1 + phase'
    BY RankIsNext DEF RankLaw
  <2>3. Until \in Nat /\ (l > 0 => Until = l + 2) /\ (~(l > 0) => Until = 1 + t)
    BY <1>2, <1>4, <2>1
  <2>4. (k > 0 => Until' = k + 2) /\ (~(k > 0) => Until' = 2 - t)
    BY <1>2, <1>4, <2>2
  <2>5. Until' \in Nat
    BY <1>2, <1>4, <2>4
  <2> QED BY <2>3, <2>4, <2>5
<1>6. /\ SubWaits' => SubWaits
      /\ new => SubTakes /\ PAct' /\ ~SubWaits' /\ t = 0
      /\ t = 0 /\ SubTakes => SubWaits /\ ~PAct /\ prss = "idle" /\ ~SubWaits'
      /\ PAct' => (PAct /\ (l > 0 \/ t = 1)) \/ (t = 0 /\ SubTakes)
      /\ SubWaits /\ ~PAct /\ prss = "idle" /\ ~(t = 0 /\ SubTakes) => (l > 0 \/ t = 1) /\ prss' = "idle"
      /\ SubWaits /\ ~PAct /\ prss # "idle" => (t = 0 => prss' = "idle") /\ (t = 1 => prss' = prss)
  BY <1>2, <1>4, Calm DEF MainGoes
<1>7. ~new => /\ n <= u + 1 /\ k < u /\ u > 0
              /\ l > 0 \/ t = 1 => n < u \/ (PutOff /\ n <= u)
  BY <1>3, <1>5
<1>8. u > 0 /\ (new => n <= 18)
  BY <1>3, <1>5
<1>9. /\ SubWaits /\ PAct => Rank = u + 22
      /\ SubWaits /\ ~PAct /\ prss = "idle" => Rank = u + 18
      /\ SubWaits /\ ~PAct /\ prss # "idle" => Rank = u + 20
      /\ ~SubWaits /\ PAct => Rank = u
      /\ ~SubWaits /\ ~PAct => Rank = l
  BY <1>2, <1>5, RankIs DEF RankLaw
<1>10. /\ SubWaits' /\ PAct' => Rank' = n + 22
       /\ SubWaits' /\ ~PAct' /\ prss' = "idle" => Rank' = n + 18
       /\ SubWaits' /\ ~PAct' /\ prss' # "idle" => Rank' = n + 20
       /\ ~SubWaits' /\ PAct' => Rank' = n
       /\ ~SubWaits' /\ ~PAct' => Rank' = k
  BY <1>2, <1>5, RankIsNext DEF RankLaw
<1>11. PICK r \in Nat, s \in Nat : Rank = r /\ Rank' = s
  <2>1. Rank \in Nat
    BY <1>9
  <2>2. Rank' \in Nat
    BY <1>10
  <2> QED BY <2>1, <2>2
<1> SUFFICES s < r \/ (r = 0 /\ s = 0) \/ (PutOff /\ s <= r)
  BY <1>11
<1>12. CASE new
  <2>1. r = u + 18 /\ s = n
    BY <1>6, <1>9, <1>10, <1>11, <1>12
  <2> QED BY <1>8, <1>11, <1>12, <2>1
<1>13. CASE ~new /\ SubWaits'
  <2>1. CASE PAct'
    <3>1. r = u + 22 /\ s = n + 22 /\ (n < u \/ (PutOff /\ n <= u))
      BY <1>6, <1>7, <1>9, <1>10, <1>11, <1>13, <2>1
    <3> QED BY <1>11, <3>1
  <2>2. CASE ~PAct' /\ PAct
    <3>1. r = u + 22 /\ (s = n + 18 \/ s = n + 20)
      BY <1>6, <1>9, <1>10, <1>11, <1>13, <2>2
    <3> QED BY <1>7, <1>11, <1>13, <3>1
  <2>3. CASE ~PAct' /\ ~PAct /\ prss = "idle"
    <3>1. r = u + 18 /\ s = n + 18 /\ (n < u \/ (PutOff /\ n <= u))
      BY <1>6, <1>7, <1>9, <1>10, <1>11, <1>13, <2>3
    <3> QED BY <1>11, <3>1
  <2>4. CASE ~PAct' /\ ~PAct /\ prss # "idle"
    <3>1. r = u + 20 /\ (s = n + 18 \/ (s = n + 20 /\ t = 1))
      BY <1>6, <1>9, <1>10, <1>11, <1>13, <2>4
    <3> QED BY <1>7, <1>11, <1>13, <3>1
  <2> QED BY <2>1, <2>2, <2>3, <2>4
<1>14. CASE ~new /\ ~SubWaits' /\ PAct'
  <2>1. CASE t = 0 /\ SubTakes
    <3>1. r = u + 18 /\ s = n
      BY <1>6, <1>9, <1>10, <1>11, <1>14, <2>1
    <3> QED BY <1>7, <1>11, <1>14, <3>1
  <2>2. CASE ~(t = 0 /\ SubTakes)
    <3>1. (r = u + 22 \/ r = u) /\ s = n /\ (n < u \/ (PutOff /\ n <= u))
      BY <1>6, <1>7, <1>9, <1>10, <1>11, <1>14, <2>2
    <3> QED BY <1>11, <3>1
  <2> QED BY <2>1, <2>2
<1>15. CASE ~new /\ ~SubWaits' /\ ~PAct'
  <2>1. s = k
    BY <1>10, <1>11, <1>15
  <2>2. r = l \/ r = u \/ r = u + 18 \/ r = u + 20 \/ r = u + 22
    BY <1>9, <1>11
  <2> QED BY <1>3, <1>7, <1>11, <1>15, <2>1, <2>2
<1> QED BY <1>12, <1>13, <1>14, <1>15

(* What asks for port 2 once BUSREQ has stopped the sub-CPU has asked      *)
(* before, and takes time.                                                 *)
LEMMA AskStep ==
  ASSUME CacheStaysOn, Sound, Tick, TypeOK', TypeAux', sbrq, gap >= HaltLag
  PROVE  /\ Asks' => Asks \/ (phase = 0 /\ MainGoes)
         /\ Asks => Rank > 0 \/ Left > 0
         /\ PutOff => Asks
<1>1. Dated /\ Clocked
  BY TickDated DEF Dated
<1>2. SubWaits' => SubWaits
  BY Calm
<1>3. rise_rd' \/ rise_wr' => Asks \/ (phase = 0 /\ MainGoes)
  BY Calm DEF Asks
<1>4. s_pending' => Asks \/ (phase = 0 /\ MainGoes)
  BY <1>1, <1>3, PendingWhen DEF Asks
<1>5. cst' = "look" => rise_rd
  BY <1>1, CacheMoves DEF CacheMove
<1>6. Asks' => Asks \/ (phase = 0 /\ MainGoes)
  BY <1>2, <1>3, <1>4, <1>5 DEF Asks
<1>7. Asks => Rank > 0 \/ Left > 0
  <2>1. CASE s_pending
    BY <1>1, <2>1, LeftStep
  <2>2. CASE rise_rd \/ cst = "look"
    <3>1. Left \in Nat /\ Left # 0
      BY <2>2, LeftTypes DEF Sound
    <3> QED BY <3>1
  <2>3. CASE SubWaits
    <3>1. PICK u \in Nat : Until = u
      BY LeftTypes DEF Sound
    <3> QED BY <2>3, <3>1, RankIs DEF RankLaw
  <2> QED BY <2>1, <2>2, <2>3 DEF Asks
<1>8. PutOff => Asks
  BY DEF PutOff, Asks
<1> QED BY <1>6, <1>7, <1>8

(* The time that is needed and the waits that are left run down together.  *)
LEMMA NeedStep ==
  ASSUME CacheStaysOn, Sound, Tick, TypeOK', TypeAux', Halting, Halting', load' = load, kept' <= Budget'
  PROVE  /\ kept <= Budget /\ Need \in Nat /\ Need' \in Nat
         /\ Need' < Need \/ Need' = 0
<1>1. /\ sbrq /\ gap >= HaltLag /\ main.st = "off" /\ ~MainIssues /\ ~MainGoes
  BY DEF Halting, MainIssues, MainSel, MainGoes
<1>2. PICK r \in Nat, s \in Nat :
        /\ Rank = r /\ Rank' = s
        /\ s < r \/ (r = 0 /\ s = 0) \/ (PutOff /\ s <= r)
  BY <1>1, RankStep
<1>3. /\ Asks' => Asks
      /\ Asks => r > 0
      /\ PutOff => Asks
  <2>1. Asks => Rank > 0 \/ Left > 0
    BY <1>1, AskStep
  <2>2. PICK l \in Nat, u \in Nat : Left = l /\ Until = u /\ (l > 0 => u = l + 2)
    BY LeftTypes, RankIs DEF Sound, RankLaw
  <2>3. Left > 0 => Rank > 0
    BY <2>2, RankIs DEF RankLaw
  <2> QED BY <1>1, <1>2, <2>1, <2>3, AskStep
<1>4. PICK b \in Int, c \in Nat, d \in Nat :
        /\ Budget = b /\ Budget' = b /\ kept = c /\ kept' = d /\ d <= b
        /\ d = IF PutOff /\ c <= b THEN c + 1 ELSE c
  <2>1. Budget' = Budget
    BY DEF Budget
  <2>2. kept' = IF PutOff /\ kept <= Budget THEN kept + 1 ELSE kept
    BY DEF Tick, Watch
  <2>3. kept \in Nat /\ kept' \in Nat
    BY DEF Sound, TypeOK
  <2>4. Budget \in Int
    <3>1. load.gap \in Nat /\ HaltLag \in Nat
      BY LoadAssumption, BoundAssumption DEF Sound, TypeOK
    <3> QED BY <3>1 DEF Budget
  <2> QED BY <2>1, <2>2, <2>3, <2>4
<1>5. c <= b /\ (PutOff => d = c + 1) /\ (~PutOff => d = c)
  BY <1>4
<1>6. PICK v, w : Need = v /\ Need' = w /\ v = r + (IF Asks THEN b - c ELSE 0) /\ w = s + (IF Asks' THEN b - d ELSE 0)
  BY <1>2, <1>4 DEF Need
<1>7. v \in Nat /\ w \in Nat
  BY <1>4, <1>5, <1>6
<1>8. w < v \/ w = 0
  <2>1. CASE PutOff
    <3>1. Asks /\ r > 0 /\ d = c + 1 /\ s <= r
      BY <1>2, <1>3, <1>5, <2>1
    <3> QED BY <1>4, <1>6, <3>1
  <2>2. CASE ~PutOff /\ Asks
    <3>1. d = c /\ s < r
      BY <1>2, <1>3, <1>5, <2>2
    <3> QED BY <1>4, <1>6, <2>2, <3>1
  <2>3. CASE ~PutOff /\ ~Asks
    BY <1>2, <1>3, <1>6, <2>3
  <2> QED BY <2>1, <2>2, <2>3
<1> QED BY <1>4, <1>5, <1>6, <1>7, <1>8

(* How long an access that nobody puts off may take at most.               *)
LeftLaw == TypeOK /\ CacheOn /\ ReadStage /\ WriteStage /\ (cst = "init" => Lines - icnt <= 2) =>
             Left \in Nat /\ Left <= 16 /\ (~rd => Left <= 13)

LEMMA LeftBound == LeftLaw
<1> SUFFICES ASSUME TypeOK, CacheOn, ReadStage, WriteStage, cst = "init" => Lines - icnt <= 2
             PROVE  Left \in Nat /\ Left <= 16 /\ (~rd => Left <= 13)
  BY DEF LeftLaw
<1>1. /\ Lines \in Nat /\ icnt \in 0 .. Lines - 1 /\ hcnt \in 0 .. 3
      /\ sc \in 0 .. 6 /\ cst \in {"init", "idle", "look", "miss", "hit", "wr", "tail"} /\ Left \in Nat /\ PortLeft \in Nat
  BY CacheAssumption, LeftTypes DEF TypeOK
<1>2. cst = "init" => ~s_pending
  BY DEF s_pending, Port2!Pending, s_rd, CacheOn, ReadStage, WriteStage, WPend
<1>3. PortLeft <= 9 /\ (~s_pending => PortLeft <= 8)
  BY <1>1 DEF PortLeft
<1>4. cst = "init" => Left = PortLeft + Lines - icnt
  BY DEF Left, ReadStage, WriteStage, Writing
<1>5. cst # "init" => \/ rd /\ (Left = 16 \/ Left = 15 \/ Left = PortLeft + 5)
                      \/ Left = hcnt + 1 \/ Left = PortLeft + 4 \/ Left = PortLeft
  BY DEF Left, ReadStage, rise_rd
<1> QED BY <1>1, <1>2, <1>3, <1>4, <1>5

LEMMA LeftBoundNext == LeftLaw'
  BY LeftBound, PTL

LEMMA RankBound ==
  ASSUME Dated, Strobes', SubData', MainData', main'.st = "off", cst' = "init" => Lines - icnt' <= 2
  PROVE  Rank' \in Nat /\ Rank' <= 37
<1>1. Clocked /\ TypeOK'
  BY DEF Dated
<1>2. CacheOn' /\ ReadStage' /\ WriteStage'
  BY <1>1, CacheOnStep, ReadStageStep, WriteStageStep
<1>3. PICK k \in Nat : Left' = k /\ k <= 16 /\ (~rd' => k <= 13)
  BY <1>1, <1>2, LeftBoundNext DEF LeftLaw
<1>4. SubWaits' => ~rd'
  <2>1. ~MAct'
    BY DEF MainData
  <2>2. rd' => PAct' /\ ~Drops' /\ prss' # "dma_wait"
    BY <2>1 DEF Strobes
  <2>3. rd' => prss' \in {"wait", "read"}
    BY <2>2 DEF PAct, Drops
  <2>4. prss' \in {"wait", "read"} /\ rd' => want'.taken
    BY DEF SubData
  <2> QED BY <2>3, <2>4 DEF SubWaits
<1>5. PICK t \in {0, 1} : phase' = t
  BY <1>1 DEF TypeOK
<1>6. PICK n \in Nat : Until' = n /\ n <= 18 /\ (k <= 13 => n <= 15)
  <2>1. (k > 0 => Until' = k + 2) /\ (~(k > 0) => Until' = 1 + t)
    BY <1>3, <1>5, RankIsNext DEF RankLaw
  <2> QED BY <1>3, <1>5, <2>1
<1>7. PICK r : Rank' = r
  OBVIOUS
<1>8. CASE SubWaits'
  <2>1. r = n + 18 + 4 \/ r = n + 18 + 0 \/ r = n + 18 + 2
    BY <1>6, <1>7, <1>8, RankIsNext DEF RankLaw
  <2>2. n <= 15
    BY <1>3, <1>4, <1>6, <1>8
  <2> QED BY <1>6, <1>7, <2>1, <2>2
<1>9. CASE ~SubWaits'
  <2>1. r = n \/ r = k
    BY <1>3, <1>6, <1>7, <1>9, RankIsNext DEF RankLaw
  <2> QED BY <1>3, <1>6, <1>7, <2>1
<1> QED BY <1>8, <1>9

(* When a main CPU access ends, all that is left of it is its tail.        *)
LEMMA EndLeft ==
  ASSUME Dated, Sound, (prms = "read" /\ ~busy) \/ prms = "write"
  PROVE  Left <= 12 /\ ~s_pending /\ ~rise_rd /\ cst # "look"
<1>1. /\ hcnt \in 0 .. 3 /\ cst \in {"init", "idle", "look", "miss", "hit", "wr", "tail"} /\ PortLeft \in Nat
  BY PortLeftStep DEF Sound, TypeOK
<1>2. ~s_pending => PortLeft <= 8
  BY PortLeftStep
<1>3. CASE prms = "read" /\ ~busy
  <2>1. rd /\ ~wr /\ ~Waits
    BY <1>3, SoundStrobed DEF Strobed, Reads
  <2>2. cst = "idle" /\ ~rise_rd /\ ~rise_wr
    BY <1>3, <2>1 DEF Sound, ReadStage, busy, busy_int, CacheOn, rise_wr
  <2>3. ~s_pending
    BY <2>1, <2>2, PendingWhen DEF Writing
  <2>4. Left = PortLeft
    BY <2>2 DEF Left, Writing
  <2> QED BY <1>1, <1>2, <2>2, <2>3, <2>4
<1>4. CASE prms = "write"
  <2>1. wr /\ ~rd /\ Drops /\ ~Waits
    BY <1>4, SoundStrobed DEF Strobed, Drops
  <2>2. cst \in {"idle", "wr", "tail"} /\ ~rise_rd /\ ~rise_wr /\ ~WPend
    BY <2>1 DEF Sound, WriteStage, rise_rd, WPend
  <2>3. ~s_pending
    BY <2>2 DEF s_pending, Port2!Pending, s_rd, WPend, Sound, CacheOn
  <2>4. \/ Left = hcnt + 1 \/ Left = PortLeft + 4 \/ Left = PortLeft
    BY <2>2 DEF Left, Writing
  <2> QED BY <1>1, <1>2, <2>2, <2>3, <2>4
<1> QED BY <1>3, <1>4

LEMMA LoadLaw ==
  ASSUME TypeOK, load.main # {}
  PROVE  /\ load.gap \in Nat /\ load.between \in 0 .. load.gap /\ HaltLag \in Nat
         /\ load.gap >= HaltLag + 18 /\ load.gap > HaltLag + load.between
         /\ load.between >= 6 /\ Lines <= 2 * Boot + 1 /\ gap \in Int /\ gap <= load.gap
<1>1. load \in Loads /\ gap \in (0 - Boot) .. load.gap /\ Boot \in Nat /\ HaltLag \in Nat
  BY BoundAssumption DEF TypeOK
<1>2. load.gap \in Nat /\ load.between \in 0 .. load.gap
  BY <1>1, LoadAssumption
<1>3. /\ load.gap >= HaltLag + 18 /\ load.gap > HaltLag + load.between
      /\ load.between >= 6 /\ Lines <= 2 * Boot + 1
  BY <1>1, TimingAssumption
<1> QED BY <1>1, <1>2, <1>3

(* The main CPU on a clock of clk_sys.                                     *)
MainMoves ==
  \/ /\ main.st = "off" /\ main' = main /\ (sbrq' <=> sbrq)
     /\ IF gap < load.gap THEN gap' = gap + 1 ELSE gap' = gap
  \/ main.st = "off" /\ main'.st = "on" /\ gap = load.gap /\ gap' = gap /\ (sbrq' <=> sbrq)
  \/ main.st = "off" /\ main' = main /\ gap = load.gap /\ gap' = 0 /\ (sbrq' <=> ~sbrq)
  \/ main.st = "on" /\ main' = main /\ gap' = gap /\ (sbrq' <=> sbrq)
  \/ main.st = "on" /\ main'.st = "off" /\ mack /\ gap' = load.gap - load.between /\ (sbrq' <=> sbrq)

LEMMA MainSteps ==
  ASSUME TypeOK, TypeAux, MainCpu
  PROVE  MainMoves
<1>1. main \in [st : {"off", "on"}, op : Op]
  BY DEF TypeAux
<1>2. CASE UNCHANGED <<main, sbrq>> /\ gap' = IF main.st = "off" /\ gap < load.gap THEN gap + 1 ELSE gap
  BY <1>1, <1>2 DEF MainMoves
<1>3. CASE main.st = "off" /\ gap = load.gap /\ (\E o \in load.main : main' = On(o)) /\ UNCHANGED <<gap, sbrq>>
  BY <1>1, <1>3 DEF On, MainMoves
<1>4. CASE main.st = "off" /\ gap = load.gap /\ sbrq' = ~sbrq /\ gap' = 0 /\ UNCHANGED main
  BY <1>1, <1>4 DEF MainMoves
<1>5. CASE main.st = "on" /\ mack /\ main' = Off /\ gap' = load.gap - load.between /\ UNCHANGED sbrq
  BY <1>1, <1>5 DEF Off, MainMoves
<1> QED BY <1>2, <1>3, <1>4, <1>5 DEF MainCpu

(* While the cache is being cleared the main CPU is off the bus.           *)
LEMMA ClearStep ==
  ASSUME CacheStaysOn, Sound, Tick, TypeOK', load.main # {}, cst' = "init"
  PROVE  /\ (sbrq' <=> TRUE) /\ main'.st = "off" /\ gap' <= 0 /\ gap' \in Int
         /\ Lines - icnt' <= 1 + phase' - 2 * gap'
<1>1. Dated /\ Clocked
  BY TickDated DEF Dated
<1>2. cst = "init"
  BY <1>1, CacheMoves DEF CacheMove
<1>3. icnt' = icnt + 1
  BY <1>1, <1>2 DEF Clocked, CacheStep, CacheInit, CacheIdle, CacheLook, CacheMiss, CacheWrite, CacheHold
<1>4. PICK L \in Nat, c \in Nat, d \in Nat : Lines = L /\ icnt = c /\ icnt' = d /\ d = c + 1 /\ d <= L - 1
  BY <1>3, CacheAssumption DEF Sound, TypeOK
<1>5. PICK t \in {0, 1}, g \in Int : phase = t /\ phase' = 1 - t /\ gap = g
  BY LoadLaw DEF Tick, Sound, TypeOK
<1>6. sbrq /\ main.st = "off" /\ g <= 0 /\ L - c <= 1 + t - 2 * g
  BY <1>2, <1>4, <1>5 DEF Sound, Timing
<1>7. CASE phase = 1
  <2>1. sbrq' = sbrq /\ main' = main /\ gap' = gap
    BY <1>7 DEF Tick, users
  <2>2. gap' = g /\ icnt' = d /\ phase' = 0 /\ t = 1
    BY <1>4, <1>5, <1>7, <2>1
  <2>3. L - d <= 1 + 0 - 2 * g
    BY <1>4, <1>6, <2>2
  <2> QED BY <1>4, <1>6, <2>1, <2>2, <2>3
<1>8. CASE phase = 0
  <2>1. MainMoves /\ gap < load.gap
    BY <1>5, <1>6, <1>8, MainSteps, LoadLaw DEF Tick, Users, Sound
  <2>2. main' = main /\ (sbrq' <=> sbrq) /\ gap' = g + 1
    BY <1>5, <1>6, <2>1 DEF MainMoves
  <2>3. t = 0 /\ phase' = 1 /\ icnt' = d
    BY <1>4, <1>5, <1>8
  <2>4. L - d <= 1 + 1 - 2 * (g + 1) /\ g + 1 <= 0
    BY <1>4, <1>6, <2>3
  <2> QED BY <1>4, <1>6, <2>2, <2>3, <2>4
<1> QED BY <1>5, <1>7, <1>8

LEMMA HalfClock ==
  ASSUME Tick, phase = 1
  PROVE  /\ sbrq' <=> sbrq
         /\ main' = main /\ gap' = gap /\ prms' = prms
  BY DEF Tick, users, asic

(* The main CPU finds the lines at rest when its turn comes.               *)
LEMMA WindowOpens ==
  ASSUME CacheStaysOn, Sound, Tick, TypeOK', TypeAux', SubData', MainData', load' = load,
         Halting', kept' <= Budget'
  PROVE  Need' <= 2 * (load'.gap - gap') + phase'
<1>1. Dated /\ Strobes' /\ TypeOK /\ TypeAux /\ MainData
  BY TickDated DEF Sound
<1>0. load.main # {} /\ sbrq' /\ gap' >= HaltLag /\ main'.st = "off"
  BY DEF Halting
<1>2. PICK H \in Nat, G \in Nat, b \in Nat :
        /\ HaltLag = H /\ load.gap = G /\ load'.gap = G /\ load.between = b /\ b <= G
        /\ G >= H + 18 /\ G > H + b /\ b >= 6
  BY <1>0, <1>1, LoadLaw
<1>3. PICK t \in {0, 1}, g \in Int, e \in Int : phase = t /\ phase' = 1 - t /\ gap = g /\ gap' = e /\ g <= G
  BY <1>0, <1>1, <1>2, LoadLaw DEF Tick, TypeOK
<1>4. cst' = "init" => Lines - icnt' <= 2
  <2>1. SUFFICES ASSUME cst' = "init" PROVE Lines - icnt' <= 2
    OBVIOUS
  <2>2. e <= 0 /\ Lines - icnt' <= 1 + (1 - t) - 2 * e
    BY <1>0, <1>3, <2>1, ClearStep
  <2>3. PICK L \in Nat, d \in Nat : Lines = L /\ icnt' = d
    BY CacheAssumption, <1>1 DEF Dated, TypeOK
  <2>4. e = 0
    BY <1>0, <1>2, <1>3, <2>2
  <2> QED BY <1>3, <2>2, <2>3, <2>4
<1>5. PICK s \in Nat : Rank' = s /\ s <= 37
  BY <1>0, <1>1, <1>4, RankBound
<1>6. PICK w \in Nat : /\ Need' = w /\ (~Asks' => w = s)
                       /\ w <= 2 * (G - H) + 1
  <2>1. Budget' = 2 * (G - H - 18)
    BY <1>2 DEF Budget
  <2>2. PICK d \in Nat : kept' = d
    BY DEF TypeOK
  <2>3. Need' = s + (IF Asks' THEN 2 * (G - H - 18) - d ELSE 0)
    BY <1>5, <2>1, <2>2 DEF Need
  <2>4. d <= 2 * (G - H - 18)
    BY <2>1, <2>2
  <2> QED BY <1>2, <1>5, <2>2, <2>3, <2>4
<1> SUFFICES w <= 2 * (G - e) + (1 - t)
  BY <1>2, <1>3, <1>6
<1>7. ASSUME Halting
      PROVE  w < 2 * (G - g) + t \/ w = 0
  <2>1. kept <= Budget /\ Need \in Nat /\ (Need' < Need \/ Need' = 0)
    BY <1>7, NeedStep
  <2>2. Need <= 2 * (load.gap - gap) + phase
    BY <1>0, <1>7, <2>1 DEF Sound, Timing
  <2> QED BY <1>2, <1>3, <1>6, <2>1, <2>2
<1>8. CASE phase = 1
  <2>1. (sbrq' <=> sbrq) /\ main' = main /\ gap' = gap
    BY <1>8, HalfClock
  <2>2. Halting
    BY <1>0, <2>1 DEF Halting
  <2> QED BY <1>2, <1>3, <1>7, <1>8, <2>1, <2>2
<1>9. CASE phase = 0
  <2>1. MainMoves
    BY <1>1, <1>9, MainSteps DEF Tick, Users
  <2>2. CASE main.st = "off" /\ main' = main /\ (sbrq' <=> sbrq) /\ IF gap < load.gap THEN gap' = gap + 1 ELSE gap' = gap
    <3>1. IF g < G THEN e = g + 1 ELSE e = g
      BY <1>2, <1>3, <2>2
    <3>2. CASE g >= H
      <4>1. Halting
        BY <1>0, <1>2, <1>3, <2>2, <3>2 DEF Halting
      <4> QED BY <1>2, <1>3, <1>7, <1>9, <3>1, <3>2, <4>1
    <3>3. CASE ~(g >= H)
      <4>1. e = H
        BY <1>0, <1>2, <1>3, <3>1, <3>3
      <4> QED BY <1>2, <1>3, <1>6, <1>9, <4>1
    <3> QED BY <3>2, <3>3
  <2>3. CASE main.st = "off" /\ main' = main /\ gap = load.gap /\ gap' = 0 /\ (sbrq' <=> ~sbrq)
    <3>1. e = 0 /\ H = 0
      BY <1>0, <1>2, <1>3, <2>3
    <3> QED BY <1>2, <1>3, <1>6, <1>9, <3>1
  <2>4. CASE main.st = "on" /\ main'.st = "off" /\ mack /\ gap' = load.gap - load.between /\ (sbrq' <=> sbrq)
    <3>1. prms = "end" /\ gap = load.gap /\ sbrq
      BY <1>0, <1>1, <2>4 DEF MainData
    <3>2. ~PAct /\ ~SubWaits /\ Left <= 12 /\ ~Asks
      BY <1>0, <2>4, <3>1 DEF Sound, Timing
    <3>3. ~MainIssues /\ ~MainGoes
      BY <3>1 DEF MainIssues, MainGoes
    <3>4. gap >= HaltLag
      BY <1>2, <1>3, <3>1
    <3>5. Rank \in Nat /\ (Rank' < Rank \/ (Rank = 0 /\ Rank' = 0) \/ (PutOff /\ Rank' <= Rank))
      BY <3>1, <3>3, <3>4, RankStep
    <3>6. PICK r \in Nat : Rank = r
      BY <3>5
    <3>7. r <= 12
      BY <3>2, <3>6, RankIs DEF RankLaw
    <3>8. ~Asks' /\ ~PutOff
      BY <3>1, <3>2, <3>3, <3>4, AskStep
    <3>9. w = s /\ s <= 12 /\ e = G - b
      BY <1>2, <1>3, <1>5, <1>6, <2>4, <3>5, <3>6, <3>7, <3>8
    <3> QED BY <1>2, <1>3, <1>9, <3>9
  <2> QED BY <1>0, <2>1, <2>2, <2>3, <2>4 DEF MainMoves
<1> QED BY <1>3, <1>8, <1>9

(* While the main CPU is on the bus, nobody else is.                       *)
LEMMA WindowHolds ==
  ASSUME CacheStaysOn, Sound, Tick, TypeOK', TypeAux', load.main # {}, load' = load,
         sbrq', main'.st = "on", ~late'
  PROVE  /\ ~PAct' /\ ~SubWaits'
         /\ prms' = "idle" => Left' = 0
         /\ prms' = "end" => Left' <= 12 /\ ~Asks'
<1>1. Dated /\ TypeOK /\ TypeAux /\ MainData
  BY TickDated DEF Sound
<1>2. PICK l \in Nat, k \in Nat : /\ Left = l /\ Left' = k
                                  /\ ~(rise_rd' \/ rise_wr') =>
                                       k < l \/ (l = 0 /\ k = 0) \/ (PutOff /\ k <= l)
                                  /\ PutOff => l > 0
  BY <1>1, LeftStep DEF PutOff
<1>3. phase \in {0, 1} /\ load.gap >= HaltLag
  <2>1. PICK H \in Nat, G \in Nat : HaltLag = H /\ load.gap = G /\ G >= H + 18
    BY <1>1, LoadLaw
  <2> QED BY <1>1, <2>1 DEF TypeOK
<1>4. CASE phase = 1
  <2>1. (sbrq' <=> sbrq) /\ main' = main /\ gap' = gap /\ prms' = prms
    BY <1>4, HalfClock
  <2>2. sbrq /\ main.st = "on" /\ gap >= HaltLag
    BY <1>1, <1>3, <2>1 DEF MainData
  <2>3. /\ ~PAct /\ ~SubWaits
        /\ prms = "idle" => l = 0
        /\ prms = "end" => l <= 12 /\ ~Asks
    BY <1>2, <2>2 DEF Sound, Timing
  <2>4. /\ SubWaits' => SubWaits
        /\ rise_rd' \/ rise_wr' => phase = 0
        /\ PAct' => PAct \/ phase = 0
        /\ Asks' => Asks \/ phase = 0
    BY <2>2, Calm, AskStep
  <2> QED BY <1>2, <1>4, <2>1, <2>3, <2>4
<1>5. CASE phase = 0 /\ main.st = "off"
  <2>1. MainMoves
    BY <1>1, <1>5, MainSteps DEF Tick, Users
  <2>2. gap = load.gap /\ sbrq
    BY <1>5, <2>1 DEF MainMoves
  <2>3. gap >= HaltLag /\ ~MainIssues /\ ~MainGoes
    BY <1>3, <1>5, <2>2 DEF MainIssues, MainSel, MainGoes
  <2>4. Halting /\ ~(kept > Budget)
    <3>1. Halting
      BY <1>5, <2>2, <2>3 DEF Halting
    <3> QED BY <3>1 DEF Tick, Watch
  <2>5. PICK G \in Nat, c \in Nat, r \in Nat, u \in Nat :
          load.gap = G /\ kept = c /\ Rank = r /\ Until = u
    <3>1. load.gap \in Nat /\ kept \in Nat /\ Until \in Nat
      BY <1>1, LoadLaw, LeftTypes DEF TypeOK
    <3>2. Rank \in Nat
      BY <2>2, <2>3, RankStep
    <3> QED BY <3>1, <3>2
  <2>6. r = 0
    <3>1. PICK v \in Int : Budget = v
      <4>1. HaltLag \in Nat
        BY BoundAssumption
      <4> QED BY <2>5, <4>1 DEF Budget
    <3>2. c <= v
      BY <2>4, <2>5, <3>1
    <3>3. Need <= 0
      <4>1. Need <= 2 * (load.gap - gap) + phase
        BY <2>4, <2>5, <3>1, <3>2 DEF Sound, Timing
      <4> QED BY <1>5, <2>2, <2>5, <4>1
    <3>4. Need = r + (IF Asks THEN v - c ELSE 0)
      BY <2>5, <3>1 DEF Need
    <3> QED BY <2>5, <3>1, <3>2, <3>3, <3>4
  <2>7. ~PAct /\ ~SubWaits /\ l = 0
    <3>1. u > 0
      BY <1>2, <1>5, <2>5, RankIs DEF RankLaw
    <3> QED BY <1>2, <2>5, <2>6, <3>1, RankIs DEF RankLaw
  <2>8. /\ SubWaits' => SubWaits
        /\ SubTakes => SubWaits
        /\ rise_rd' \/ rise_wr' => MainGoes \/ SubTakes
        /\ PAct' => PAct \/ SubTakes
    BY <2>2, <2>3, Calm
  <2>9. ~Asks'
    <3>1. ~Asks
      BY <1>2, <2>2, <2>3, <2>5, <2>6, <2>7, AskStep
    <3> QED BY <2>2, <2>3, <3>1, AskStep
  <2> QED BY <1>2, <2>3, <2>7, <2>8, <2>9
<1>6. CASE phase = 0 /\ main.st = "on"
  <2>1. MainMoves
    BY <1>1, <1>6, MainSteps DEF Tick, Users
  <2>2. sbrq /\ gap = load.gap
    BY <1>1, <1>6, <2>1 DEF MainMoves, MainData
  <2>3. gap >= HaltLag
    BY <1>3, <2>2
  <2>4. /\ ~PAct /\ ~SubWaits
        /\ prms = "end" => l <= 12 /\ ~Asks
    BY <1>2, <1>6, <2>2 DEF Sound, Timing
  <2>5. /\ SubWaits' => SubWaits
        /\ SubTakes => SubWaits
        /\ rise_rd' \/ rise_wr' => MainGoes \/ SubTakes
        /\ PAct' => PAct \/ SubTakes
        /\ Asks' => Asks \/ MainGoes
    BY <2>2, <2>3, Calm, AskStep
  <2>6. PRMS /\ (mack <=> prms = "end") /\ prms \in {"idle", "wait", "read", "write", "end"}
    BY <1>1, <1>6 DEF Tick, GateArray, MainData, TypeOK
  <2>7. prms' # "idle"
    BY <1>6, <2>2, <2>6 DEF PRMS, MainIssues, MainSel, open
  <2>8. prms' = "end" => prms = "end" \/ (prms = "read" /\ ~busy) \/ prms = "write"
    BY <1>6, <2>2, <2>6 DEF PRMS, MainIssues, MainSel, open
  <2>9. prms' = "end" => l <= 12 /\ ~MainGoes /\ ~Asks
    BY <1>1, <1>2, <2>4, <2>8, EndLeft DEF MainGoes, Asks
  <2> QED BY <1>2, <2>4, <2>5, <2>7, <2>9
<1> QED BY <1>1, <1>3, <1>4, <1>5, <1>6 DEF TypeAux

LEMMA TimingStep ==
  ASSUME CacheStaysOn, Sound, Tick, TypeOK', TypeAux', SubData', MainData', ~late'
  PROVE  Timing'
<1>1. load' = load
  BY DEF Tick, Osd, board
<1>2. SUFFICES ASSUME load.main # {} PROVE Timing'
  BY <1>1 DEF Timing
<1>3. cst' = "init" => sbrq' /\ main'.st = "off" /\ gap' <= 0 /\ Lines - icnt' <= 1 + phase' - 2 * gap'
  BY <1>2, ClearStep
<1>4. Halting' /\ kept' <= Budget' => Need' <= 2 * (load'.gap - gap') + phase'
  BY <1>1, WindowOpens
<1>5. main'.st = "on" /\ sbrq' =>
        /\ ~PAct' /\ ~SubWaits'
        /\ prms' = "idle" => Left' = 0
        /\ prms' = "end" => Left' <= 12 /\ ~Asks'
  BY <1>1, <1>2, WindowHolds
<1> QED BY <1>3, <1>4, <1>5 DEF Timing

LEMMA TickStep ==
  ASSUME CacheStaysOn, InTime, Tick, TypeOK', TypeAux', ~late'
  PROVE  InTime'
<1>1. Sound /\ Landing /\ Fetch /\ LinesOk
  BY DEF InTime
<1>2. Dated /\ Strobes'
  BY <1>1, TickDated
<1>3. Clocked
  BY <1>2 DEF Dated
<1>4. CacheOn' /\ ReadStage' /\ WriteStage'
  BY <1>3, CacheOnStep, ReadStageStep, WriteStageStep
<1>5. Landing' /\ Fetch' /\ LinesOk'
  BY <1>1, <1>2, LandingStep, FetchStep, LinesStep
<1>7. SubData' /\ MainData'
  <2>1. phase \in {0, 1} /\ (old_wr' <=> wr)
    BY <1>1, <1>3 DEF Sound, TypeOK, Clocked, CacheStep
  <2>2. CASE phase = 0
    <3>1. GateArray /\ Users /\ Osd
      BY <2>2 DEF Tick
    <3> QED BY <1>1, <2>1, <2>2, <3>1, SubDataStep, MainDataStep
  <2>3. CASE phase = 1
    <3>1. UNCHANGED <<asic, users, board, shadow, want>>
      BY <2>3 DEF Tick
    <3>2. SubData /\ MainData
      BY <1>1 DEF Sound
    <3>3. SubData'
      BY <3>1, <3>2 DEF SubData, asic, users, rd, wr
    <3>4. MainData'
      BY <3>1, <3>2 DEF MainData, MAct, asic, users, board, rd, wr
    <3> QED BY <3>3, <3>4
  <2> QED BY <2>1, <2>2, <2>3
<1>8. Timing'
  BY <1>1, <1>7, TimingStep
<1> QED BY <1>2, <1>4, <1>5, <1>7, <1>8 DEF InTime, Sound

(* Everything off, and the cache about to be cleared.                      *)
AtStart ==
  /\ rd = FALSE /\ wr = FALSE /\ prms = "idle" /\ prss = "idle"
  /\ mack = FALSE /\ sack = FALSE /\ posted = FALSE
  /\ sbrq = TRUE /\ gap = 0 - Boot /\ main = Off /\ sub = Off /\ dma = Off
  /\ cst = "init" /\ icnt = 0 /\ s_rd_r = FALSE /\ pend_rd = FALSE /\ pend_wr = FALSE
  /\ old_rd = FALSE /\ old_wr = FALSE /\ wreg = NoWrite
  /\ en = TRUE /\ toggles = 0 /\ (ssel => sc = 0 /\ sd)
  /\ shadow = IF sc \in 1 .. 3 THEN Put(mem, sa) ELSE mem

LEMMA Starts == TypeOK /\ TypeAux /\ AtStart => InTime
<1> SUFFICES ASSUME TypeOK, TypeAux, AtStart PROVE InTime
  OBVIOUS
<1>1. /\ ~rd /\ ~wr /\ ~rise_rd /\ ~rise_wr /\ ~WPend /\ ~PAct /\ ~MAct /\ ~Waits /\ ~Reads /\ ~Drops
      /\ ~SubWaits /\ cst = "init" /\ ~Writing
  BY DEF AtStart, rise_rd, rise_wr, WPend, PAct, MAct, Waits, Reads, Drops, SubWaits, Off, Writing
<1>2. Strobes
  BY <1>1 DEF AtStart, Strobes, Off
<1>3. CacheOn
  BY DEF AtStart, CacheOn, NoWrite
<1>4. ReadStage
  BY <1>1 DEF ReadStage
<1>5. WriteStage
  BY <1>1 DEF WriteStage
<1>6. Landing
  BY <1>1 DEF AtStart, Landing
<1>7. Fetch
  BY <1>1 DEF Fetch
<1>8. LinesOk
  BY <1>1 DEF AtStart, LinesOk
<1>9. SubData
  BY <1>1 DEF AtStart, SubData, Off
<1>10. MainData
  BY <1>1 DEF AtStart, MainData, Off
<1>11. ASSUME load.main # {}, gap >= HaltLag
       PROVE  Need <= 2 * (load.gap - gap) + phase
  <2>1. PICK H \in Nat, G \in Nat, B \in Nat, L \in Nat :
          /\ HaltLag = H /\ load.gap = G /\ Boot = B /\ Lines = L
          /\ G >= H + 18 /\ L <= 2 * B + 1 /\ gap = 0 - B /\ B = 0
    <3>1. Boot \in Nat /\ Lines \in Nat /\ gap = 0 - Boot
      BY BoundAssumption, CacheAssumption DEF AtStart
    <3> QED BY <1>11, <3>1, LoadLaw
  <2>2. Left \in Nat /\ Left <= 16
    <3>1. Lines - icnt <= 2
      BY <2>1 DEF AtStart
    <3> QED BY <1>3, <1>4, <1>5, <3>1, LeftBound DEF LeftLaw
  <2>3. Need = Left
    <3>1. ~s_pending
      BY <1>1 DEF AtStart, s_pending, Port2!Pending, s_rd, WPend
    <3>2. Rank = Left /\ ~Asks
      BY <1>1, <3>1, RankIs DEF RankLaw, Asks
    <3> QED BY <2>2, <3>2 DEF Need
  <2>4. PICK t \in {0, 1} : phase = t
    BY DEF TypeOK
  <2> QED BY <2>1, <2>2, <2>3, <2>4
<1>12. load.main # {} => gap <= 0 /\ Lines - icnt <= 1 + phase - 2 * gap
  <2>1. SUFFICES ASSUME load.main # {} PROVE gap <= 0 /\ Lines - icnt <= 1 + phase - 2 * gap
    OBVIOUS
  <2>2. PICK B \in Nat, L \in Nat : Boot = B /\ Lines = L /\ L <= 2 * B + 1 /\ gap = 0 - B /\ icnt = 0
    BY <2>1, BoundAssumption, CacheAssumption, LoadLaw DEF AtStart
  <2>3. PICK t \in {0, 1} : phase = t
    BY DEF TypeOK
  <2> QED BY <2>2, <2>3
<1>13. Timing
  BY <1>11, <1>12 DEF AtStart, Timing, Off, Halting
<1> QED BY <1>2, <1>3, <1>4, <1>5, <1>6, <1>7, <1>8, <1>9, <1>10, <1>13 DEF InTime, Sound

LEMMA StartsNext == TypeOK' /\ TypeAux' /\ AtStart' => InTime'
  BY Starts, PTL

LEMMA InitStarts ==
  ASSUME CacheStaysOn, Init
  PROVE  InTime
<1>1. TypeOK /\ TypeAux
  BY TypesInit
<1>2. en = TRUE
  BY DEF Init, Port2!Init, CacheStaysOn
<1>3. rd = FALSE /\ wr = FALSE
  BY DEF Init, Port2!Init, Silent, rd, wr
<1>4. AtStart
  BY <1>2, <1>3 DEF Init, Port2!Init, AtStart
<1> QED BY <1>1, <1>4, Starts

LEMMA ResetStep ==
  ASSUME CacheStaysOn, InTime, Reset, TypeOK', TypeAux'
  PROVE  InTime'
<1>1. SdramPort /\ Cache(TRUE)
  BY DEF Reset, CacheStaysOn
<1>2. CacheReset /\ old_rd' = FALSE /\ old_wr' = FALSE
  BY <1>1 DEF Cache
<1>3. rd' = FALSE /\ wr' = FALSE
  <2>1. bus' = [Silent EXCEPT !.a = bus.a]
    BY DEF Reset
  <2> QED BY <2>1 DEF Silent, rd, wr
<1>4. ssel' => sc' = 0 /\ sd'
  <2>1. (ssel' <=> sc = 6) /\ (sd' <=> sc # 0)
    BY <1>1, PortMoves
  <2>2. SUFFICES ASSUME sc = 6 PROVE sc' = 0
    BY <2>1
  <2> QED BY <1>1, <2>2, PortMoves
<1>5. shadow' = IF sc' \in 1 .. 3 THEN Put(mem, sa)' ELSE mem'
  BY DEF Reset, Put
<1>6. en' = TRUE /\ toggles' = 0
  BY DEF Reset, InTime, Sound, CacheOn, TypeOK
<1>7. AtStart'
  BY <1>2, <1>3, <1>4, <1>5, <1>6 DEF Reset, CacheReset, KeepStore, AtStart
<1> QED BY <1>7, StartsNext

LEMMA StutterStep ==
  ASSUME InTime, UNCHANGED vars
  PROVE  InTime'
<1>1. UNCHANGED <<phase, load, en, toggles, sc, sd, sd2, ssel, sold, sa, sdout, sp, waited, mem>>
  BY DEF vars, board, port
<1>2. UNCHANGED <<cst, hcnt, icnt, saw_busy, s_rd_r, old_rd, old_wr, pend_rd, pend_wr, q_op, dout_r, line, q, wreg>>
  BY DEF vars, cache
<1>3. UNCHANGED <<bus, prms, prss, mack, sack, mdo, sdo, posted, sbrq, gap, main, sub, dma, shadow, want, kept>>
  BY DEF vars, asic, users
<1>4. TypeOK' /\ TypeAux'
  BY TypesNext DEF InTime, Sound
<1>5. /\ (rd' <=> rd) /\ (wr' <=> wr) /\ (rise_rd' <=> rise_rd) /\ (rise_wr' <=> rise_wr) /\ Line' = Line
      /\ (PAct' <=> PAct) /\ (MAct' <=> MAct) /\ (Waits' <=> Waits) /\ (Reads' <=> Reads) /\ (Drops' <=> Drops)
      /\ (PFree' <=> PFree) /\ (WPend' <=> WPend) /\ (SubWaits' <=> SubWaits) /\ (Writing' <=> Writing)
      /\ (s_pending' <=> s_pending)
  BY <1>1, <1>2, <1>3 DEF rd, wr, rise_rd, rise_wr, Line, PAct, MAct, Waits, Reads, Drops, PFree, WPend, SubWaits,
                          Writing, s_pending, Port2!Pending, s_rd
<1>6. Strobes'
  BY <1>3, <1>5 DEF InTime, Sound, Strobes
<1>7. CacheOn'
  BY <1>1, <1>2, <1>5 DEF InTime, Sound, CacheOn
<1>8. ReadStage'
  BY <1>1, <1>2, <1>3, <1>5 DEF InTime, Sound, ReadStage
<1>9. WriteStage'
  BY <1>1, <1>2, <1>3, <1>5 DEF InTime, Sound, WriteStage
<1>10. Landing'
  BY <1>1, <1>3, <1>5 DEF InTime, Landing, Put
<1>11. Fetch'
  BY <1>1, <1>2, <1>3, <1>5 DEF InTime, Fetch
<1>12. LinesOk'
  BY <1>2, <1>3, <1>5 DEF InTime, LinesOk, Fresh, Eff, Wop
<1>13. SubData'
  BY <1>3, <1>5 DEF InTime, Sound, SubData
<1>14. MainData'
  BY <1>1, <1>3, <1>5 DEF InTime, Sound, MainData
<1>15. Left' = Left
  BY <1>1, <1>2, <1>5 DEF Left, PortLeft
<1>16. Rank' = Rank
  BY <1>1, <1>3, <1>5, <1>15 DEF Rank, Until
<1>17. Need' = Need /\ (Halting' <=> Halting) /\ (Asks' <=> Asks) /\ Budget' = Budget
  BY <1>1, <1>2, <1>3, <1>5, <1>16 DEF Need, Halting, Asks, Budget
<1>18. Timing'
  BY <1>1, <1>2, <1>3, <1>5, <1>15, <1>17 DEF InTime, Sound, Timing
<1> QED BY <1>4, <1>6, <1>7, <1>8, <1>9, <1>10, <1>11, <1>12, <1>13, <1>14, <1>18 DEF InTime, Sound

-----------------------------------------------------------------------------
(* What holds in every reachable state.                                    *)
LEMMA NextStep ==
  ASSUME CacheStaysOn, IInv, [Next]_vars
  PROVE  IInv'
<1>1. TypeOK' /\ TypeAux'
  BY TypesNext DEF IInv
<1>2. late => late'
  BY DEF Next, Tick, Reset, Watch, vars
<1>3. ASSUME InTime, ~late' PROVE InTime'
  <2>1. CASE Tick
    BY <1>1, <1>3, <2>1, TickStep
  <2>2. CASE Reset
    BY <1>1, <1>3, <2>2, ResetStep
  <2>3. CASE UNCHANGED vars
    BY <1>3, <2>3, StutterStep
  <2> QED BY <2>1, <2>2, <2>3 DEF Next
<1> QED BY <1>1, <1>2, <1>3 DEF IInv

(* IInv, with the types, the machines, the time and the data it relates,   *)
(* is kept by every clock, every reset and every access.                   *)
THEOREM Inductive ==
  ASSUME CacheStaysOn
  PROVE  Spec => []IInv
<1>1. Init => IInv
  <2> SUFFICES ASSUME Init PROVE IInv
    OBVIOUS
  <2> QED BY InitStarts, TypesInit DEF IInv
<1>2. IInv /\ [Next]_vars => IInv'
  BY NextStep
<1> QED BY <1>1, <1>2, PTL DEF Spec

(* A read of PRG-RAM returns the last word written to its address by the   *)
(* main CPU, the sub-CPU or the CDC DMA: a hit of prg_cache does not serve *)
(* a line an older write has made stale, and a miss does not overtake one; *)
(* until the main CPU comes after more waits than its gap makes up for.    *)
THEOREM ReadsAreLatest ==
  ASSUME CacheStaysOn
  PROVE  Spec => []ReadsLatest
<1>1. IInv => ReadsLatest
  <2> SUFFICES ASSUME InTime PROVE ReadsLatest
    BY DEF IInv, ReadsLatest
  <2>1. sub.st = "on" /\ sack /\ sub.op.we = {} => sdo = want.sub
    BY DEF InTime, Sound, SubData
  <2>2. main.st = "on" /\ mack /\ open /\ prms = "end" /\ main.op.we = {} => mdo = want.main
    BY DEF InTime, Sound, MainData, open
  <2> QED BY <2>1, <2>2 DEF ReadsLatest
<1> QED BY <1>1, Inductive, PTL

(* PRMS and PRSS never have a request on the shared lines at once, though  *)
(* neither looks at the other and PRMS does not look at busy, for any      *)
(* waits of port 2, until from BUSREQ to some cycle of the main CPU they   *)
(* come to more than Budget: with 28 cycles of clk_sys between the two and *)
(* HaltLag = 2, to more than 16 of clk_ram.                                *)
THEOREM OneAccessAtATime ==
  ASSUME CacheStaysOn
  PROVE  Spec => []OneAtATime
<1>1. IInv => OneAtATime
  BY DEF IInv, InTime, Sound, Strobes, PAct, MAct, OneAtATime
<1> QED BY <1>1, Inductive, PTL

(* The sub-CPU's /DTACK answers the bus cycle it is in: an acknowledge     *)
(* given early to a posted write has gone before the next cycle samples it.*)
THEOREM DtackIsFresh ==
  ASSUME CacheStaysOn
  PROVE  Spec => []NoStaleDtack
<1>1. IInv => NoStaleDtack
  BY DEF IInv, InTime, Sound, SubData, NoStaleDtack
<1> QED BY <1>1, Inductive, PTL

(* With both machines idle and port 2 free, every write the gate array has *)
(* issued is in the SDRAM, and no valid line of the cache differs from it. *)
THEOREM WritesSettle ==
  ASSUME CacheStaysOn
  PROVE  Spec => []Settled
<1>1. IInv => Settled
  <2> SUFFICES ASSUME InTime, AtRest PROVE Settled
    BY DEF IInv, Settled
  <2>1. ~rd /\ ~wr
    BY DEF AtRest, InTime, Sound, Strobes, PAct, MAct
  <2>2. sc = 0 /\ ~WPend /\ ~rise_wr
    BY <2>1 DEF AtRest, s_busy, Port2!Busy, WPend, rise_wr
  <2>3. mem = shadow
    BY <2>2 DEF InTime, Landing
  <2>4. ASSUME cst = "idle", ~wreg.on, NEW i \in DOMAIN line, line[i].v
        PROVE  line[i].d = mem[line[i].a]
    <3>1. i \in 0 .. Lines - 1
      BY DEF InTime, Sound, TypeOK
    <3>2. Eff(i) = line[i] /\ ~Writing
      BY <2>2, <2>4 DEF Eff, Writing
    <3>3. Fresh(line[i])
      BY <2>4, <3>1, <3>2 DEF InTime, LinesOk
    <3> QED BY <2>3, <2>4, <3>2, <3>3 DEF Fresh
  <2> QED BY <2>3, <2>4 DEF Settled
<1> QED BY <1>1, Inductive, PTL
=============================================================================
