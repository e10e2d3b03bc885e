------------------------------ MODULE PrgPort ------------------------------
(***************************************************************************)
(* The path to the Mega CD PRG-RAM: the two bus machines of the gate array *)
(* (ASIC.vhd, PRMS for the main CPU's window and PRSS for the sub-CPU and  *)
(* CDC DMA) that share one set of lines, the read cache on those lines     *)
(* (prg_cache.sv) and port 2 of the SDRAM controller behind it.            *)
(*                                                                         *)
(* One step is an edge of clk_ram; the gate array and the processors are   *)
(* clocked by clk_sys and move where phase = 0.  A tag and an index are    *)
(* together an address, so a line keeps the whole address it holds.        *)
(***************************************************************************)
EXTENDS Integers

CONSTANTS Addr, Lanes, Byte,
          Quiet,            \* what the lines carry after a reset
          Lines,            \* 2^IDX, the lines of the cache
          IndexOf(_),       \* the line of an address
          Contents,         \* what PRG-RAM may hold at first
          Protected,        \* addresses below the WP register
          Loads,            \* what the two CPUs and the DMA may issue, the clk_sys cycles from BUSREQ to
                            \* a main CPU bus cycle (gap) and from one to the next (between), and bounds:
                            \* the resets, the clk_ram cycles the other ports keep port 2 waiting (wait)
          PostWrites,       \* the values the OSD gives PRG_POST_WR
          EarlyDtack,       \* DBG_EARLY_DTACK
          EnFirst,          \* is the cache on at first: values
          NoHits,           \* the values the OSD gives nohit
          HaltLag,          \* clk_sys cycles after BUSREQ in which the sub-CPU may still start
          Boot,             \* clk_sys cycles a reset keeps the main CPU off the bus
          Toggles,          \* bound: OSD changes of en
          ResetsCache       \* is the cache reset too: {TRUE} the button, {FALSE} a download

Word == [Lanes -> Byte]
Op   == [a : Addr, d : Word, we : SUBSET Lanes]     \* we = {} is a read

Entry == [v : BOOLEAN, a : Addr, d : Word]          \* a line: valid, tag and index, data
Blank == [v |-> FALSE, a |-> Quiet.a, d |-> Quiet.d]

ASSUME CacheAssumption == /\ Lines \in Nat \ {0} /\ Quiet \in Op /\ Quiet.we = {}
                          /\ \A x \in Addr : IndexOf(x) \in 0 .. Lines - 1
                          /\ NoHits \cup PostWrites \cup ResetsCache \cup EnFirst \subseteq BOOLEAN /\ Contents \subseteq [Addr -> Word]
ASSUME BoundAssumption == {HaltLag, Boot, Toggles} \subseteq Nat
ASSUME LoadAssumption ==
  \A l \in Loads :
    /\ l.sub \cup l.main \cup l.dma \subseteq Op /\ \A o \in l.dma : o.we # {}
    /\ {l.gap, l.resets, l.wait} \subseteq Nat /\ l.between \in 0 .. l.gap
(* With a main CPU on the bus: BUSREQ leaves time for two accesses that    *)
(* nobody puts off, a main CPU cycle for a write to end, a reset for the   *)
(* cache to be cleared.                                                    *)
ASSUME TimingAssumption ==
  \A l \in Loads : l.main # {} => /\ l.gap >= HaltLag + 18 /\ l.gap > HaltLag + l.between
                                  /\ l.between >= 6 /\ Lines <= 2 * Boot + 1

VARIABLES
  phase,
  load, en, nohit, post_wr, toggles, resets,                      \* the OSD and the reset button
  sc, sd, sd2, ssel, sold, sa, sdout, sp, waited,  \* SDRAM port 2
  mem,                                             \* the PRG-RAM area of the chip
  cst, hcnt, icnt, saw_busy, s_rd_r,               \* prg_cache
  old_rd, old_wr, pend_rd, pend_wr, q_op, dout_r, line, q, wreg,
  bus, prms, prss, mack, sack, mdo, sdo, posted, dma_run,   \* the gate array
  sbrq, gap, main, sub, dma,                       \* the processors
  shadow, want,                                    \* history: see Users
  kept, late                                       \* history: see Watch

board  == <<load, en, nohit, post_wr, toggles, resets>>
port   == <<sc, sd, sd2, ssel, sold, sa, sdout, sp, waited>>
cache  == <<cst, hcnt, icnt, saw_busy, s_rd_r, old_rd, old_wr, pend_rd, pend_wr,
            q_op, dout_r, line, q, wreg>>
asic   == <<bus, prms, prss, mack, sack, mdo, sdo, posted, dma_run>>
users  == <<sbrq, gap, main, sub, dma>>
vars   == <<phase, board, port, mem, cache, asic, users, shadow, want, kept, late>>

Merge(w, lanes, d) == [l \in Lanes |-> IF l \in lanes THEN d[l] ELSE w[l]]

-----------------------------------------------------------------------------
(* The wires: bus carries what the gate array drives.                      *)
rd == bus.rd
wr == bus.we # {}

s_rd == IF en THEN s_rd_r ELSE rd
Line == [a |-> bus.a, d |-> bus.d, we |-> bus.we]

(* Port 2 of the SDRAM controller.                                         *)
Port2 == INSTANCE OnePort WITH rd <- s_rd, line <- Line

s_busy    == Port2!Busy
s_pending == Port2!Pending

busy_int_AckWrites == cst # "idle" \/ s_busy       \* busy rises with the write request
busy_int_Dips == \/ cst \in {"init", "look", "hit", "tail"}    \* not in S_MISS
                 \/ cst = "wr" /\ saw_busy
                 \/ s_busy
busy_int == \/ cst \in {"init", "look", "miss", "hit", "tail"}
            \/ cst = "wr" /\ saw_busy
            \/ s_busy
busy == IF en THEN busy_int ELSE s_busy
dout == IF en THEN dout_r ELSE sp

rise_rd == rd /\ ~old_rd
rise_wr == wr /\ ~old_wr

-----------------------------------------------------------------------------
(* SDRAM port 2 as Sdram has it.  Of the other ports two things are        *)
(* assumed: they keep it waiting for load.wait cycles at most, and PRG-RAM *)
(* is an area of the chip that none of them writes.                        *)
PutOff == sc = 0 /\ s_pending /\ sc' = 0
SdramPort ==
  /\ Port2!Step
  /\ PutOff => waited < load.wait
  /\ waited' = IF PutOff THEN waited + 1 ELSE 0
  /\ sc # 3 => UNCHANGED mem

-----------------------------------------------------------------------------
(* The cache.  hit compares the line read on the last clock with the       *)
(* address latched with the request.                                       *)
NoWrite == [on |-> FALSE, i |-> 0, e |-> Blank]
Store(e) == wreg' = [on |-> TRUE, i |-> IndexOf(e.a), e |-> e]
KeepStore == wreg' = NoWrite

hit == q.v /\ q.a = q_op.a

CacheReset ==           \* reset, and while bypassed
  /\ cst' = "init" /\ icnt' = 0 /\ s_rd_r' = FALSE /\ saw_busy' = FALSE
  /\ pend_rd' = FALSE /\ pend_wr' = FALSE
  /\ KeepStore /\ UNCHANGED <<hcnt, q_op, dout_r>>

(* A request noticed while the cache is occupied is remembered.            *)
Remember == pend_rd' = (pend_rd \/ rise_rd) /\ pend_wr' = (pend_wr \/ rise_wr)

CacheInit_OneMore ==    \* counts past the last line
  /\ cst = "init" /\ Remember
  /\ wreg' = [on |-> TRUE, i |-> 0, e |-> Blank]
  /\ IF icnt = Lines THEN cst' = "idle" /\ UNCHANGED icnt
     ELSE icnt' = icnt + 1 /\ UNCHANGED cst
  /\ UNCHANGED <<hcnt, saw_busy, s_rd_r, q_op, dout_r>>

CacheInit ==
  /\ cst = "init" /\ Remember
  /\ wreg' = [on |-> TRUE, i |-> icnt, e |-> Blank]
  /\ IF icnt = Lines - 1 THEN cst' = "idle" /\ UNCHANGED icnt
     ELSE icnt' = icnt + 1 /\ UNCHANGED cst
  /\ UNCHANGED <<hcnt, saw_busy, s_rd_r, q_op, dout_r>>

CacheIdle ==
  /\ cst = "idle" /\ KeepStore
  /\ saw_busy' = FALSE
  /\ IF pend_rd \/ rise_rd
     THEN /\ cst' = "look" /\ q_op' = [q_op EXCEPT !.a = bus.a]
          /\ pend_rd' = FALSE /\ pend_wr' = (pend_wr \/ rise_wr)
     ELSE IF pend_wr \/ rise_wr
     THEN cst' = "wr" /\ q_op' = Line /\ pend_wr' = FALSE /\ UNCHANGED pend_rd
     ELSE UNCHANGED <<cst, q_op, pend_rd, pend_wr>>
  /\ UNCHANGED <<hcnt, icnt, s_rd_r, dout_r>>

CacheLook ==
  /\ cst = "look" /\ Remember /\ KeepStore
  /\ IF hit /\ ~nohit
     THEN cst' = "hit" /\ dout_r' = q.d /\ hcnt' = 2 /\ UNCHANGED s_rd_r
     ELSE cst' = "miss" /\ s_rd_r' = TRUE /\ UNCHANGED <<dout_r, hcnt>>
  /\ UNCHANGED <<icnt, saw_busy, q_op>>

CacheMiss ==
  /\ cst = "miss" /\ Remember
  /\ saw_busy' = (saw_busy \/ s_busy)
  /\ IF saw_busy /\ ~s_busy
     THEN /\ dout_r' = sp /\ Store([v |-> TRUE, a |-> q_op.a, d |-> sp])
          /\ s_rd_r' = FALSE /\ hcnt' = 3 /\ cst' = "hit"
     ELSE KeepStore /\ UNCHANGED <<dout_r, s_rd_r, hcnt, cst>>
  /\ UNCHANGED <<icnt, q_op>>

CacheWrite ==
  /\ cst = "wr" /\ Remember
  /\ saw_busy' = (saw_busy \/ s_busy)
  /\ IF saw_busy /\ ~s_busy
     THEN /\ IF hit \/ q_op.we = Lanes
             THEN Store([v |-> TRUE, a |-> q_op.a, d |-> Merge(q.d, q_op.we, q_op.d)])
             ELSE KeepStore
          /\ hcnt' = 2 /\ cst' = "tail"
     ELSE KeepStore /\ UNCHANGED <<hcnt, cst>>
  /\ UNCHANGED <<icnt, s_rd_r, q_op, dout_r>>

CacheHold ==            \* S_HIT and S_TAIL
  /\ cst \in {"hit", "tail"} /\ Remember /\ KeepStore
  /\ IF hcnt = 0 THEN cst' = "idle" /\ UNCHANGED hcnt ELSE hcnt' = hcnt - 1 /\ UNCHANGED cst
  /\ UNCHANGED <<icnt, saw_busy, s_rd_r, q_op, dout_r>>

(* The store: a read of the line being written returns the old or the new. *)
Read(i) == IF wreg.on /\ wreg.i = i THEN {line[i], wreg.e} ELSE {line[i]}
CacheStore ==
  /\ line' = IF wreg.on THEN [line EXCEPT ![wreg.i] = wreg.e] ELSE line
  /\ q' \in Read(IndexOf(IF cst = "idle" THEN bus.a ELSE q_op.a))

Cache(reset) ==
  /\ IF reset \/ ~en THEN CacheReset
     ELSE CacheInit \/ CacheIdle \/ CacheLook \/ CacheMiss \/ CacheWrite \/ CacheHold
  /\ old_rd' = (rd /\ ~reset) /\ old_wr' = (wr /\ ~reset)
  /\ CacheStore

-----------------------------------------------------------------------------
(* The gate array, on clk_sys.  Both machines may assign the lines in one  *)
(* clock; PRSS comes later in the process, so it has the last word.        *)
open == sbrq
SubSel  == sub.st = "on"
MainSel == main.st = "on"
DmaSel  == dma.st = "ask"

MainIssues_Always == prms = "idle" /\ MainSel /\ ~mack     \* without SBRQ
MainIssues == prms = "idle" /\ open /\ MainSel /\ ~mack
DmaIssues  == prss = "idle" /\ DmaSel /\ ~sbrq /\ ~busy
SubTakes   == prss = "idle" /\ ~DmaIssues /\ SubSel /\ ~sack /\ ~busy
Blocked    == sub.op.we # {} /\ sub.op.a \in Protected
SubIssues  == SubTakes /\ ~Blocked

Drive(o) == [a |-> o.a, d |-> o.d, we |-> o.we, rd |-> o.we = {}]
DropWrite(b) == [b EXCEPT !.we = {}]
DropRead(b)  == [b EXCEPT !.rd = FALSE]

MainBus == IF MainIssues THEN Drive(main.op)
           ELSE IF prms = "read" /\ ~busy THEN DropRead(bus)
           ELSE IF prms = "write" THEN DropWrite(bus) ELSE bus
SubBus(b) == IF DmaIssues THEN Drive(dma.op)
             ELSE IF SubIssues THEN Drive(sub.op)
             ELSE IF SubTakes THEN DropRead(DropWrite(Drive(sub.op)))
             ELSE IF prss = "read" /\ ~busy THEN DropRead(b)
             ELSE IF prss = "write" \/ (prss = "dma_write" /\ ~busy) THEN DropWrite(b)
             ELSE b

PRMS ==
  /\ prms' = CASE MainIssues -> "wait"
               [] prms = "idle" /\ ~open /\ MainSel /\ ~mack -> "end"
               [] prms = "wait" /\ busy -> IF rd THEN "read" ELSE "write"
               [] prms = "read" /\ ~busy -> "end"
               [] prms = "write" -> "end"
               [] prms = "end" /\ mack /\ ~MainSel -> "idle"
               [] OTHER -> prms
  /\ mdo' = IF prms = "read" /\ ~busy THEN dout ELSE mdo
  /\ mack' = IF prms # "end" /\ prms' = "end" THEN TRUE
             ELSE IF prms = "end" /\ ~MainSel THEN FALSE ELSE mack

(* /DTACK of the sub-CPU follows its strobes unless it is given just now.  *)
SubAck_Again == \/ SubTakes /\ (Blocked \/ (post_wr /\ sub.op.we # {}))
                \/ prss = "read" /\ ~busy
                \/ prss = "write"                         \* without PRG_WR_POSTED
SubAck == \/ SubTakes /\ (Blocked \/ (post_wr /\ sub.op.we # {}))
          \/ prss = "wait" /\ busy /\ EarlyDtack /\ rd
          \/ prss = "read" /\ ~busy
          \/ prss = "write" /\ ~posted

PRSS_DmaEnds ==         \* the DMA write ends as a CPU's does, and leaves PR_DMA_RUN set
  /\ prss' = CASE DmaIssues -> "dma_wait"
               [] SubTakes -> IF Blocked THEN "end" ELSE "wait"
               [] prss = "wait" /\ busy -> IF rd THEN "read" ELSE "write"
               [] prss = "read" /\ ~busy -> "end"
               [] prss = "write" -> "end"
               [] prss = "end" /\ (~sack \/ ~SubSel) -> "idle"
               [] prss = "dma_wait" /\ busy -> "dma_write"
               [] prss = "dma_write" /\ ~busy -> "end"
               [] OTHER -> prss
  /\ sdo' = IF prss = "read" /\ ~busy THEN dout ELSE sdo
  /\ sack' = (SubAck \/ (sack /\ SubSel))
  /\ posted' = IF SubIssues /\ post_wr /\ sub.op.we # {} THEN TRUE
               ELSE IF prss = "write" THEN FALSE ELSE posted
  /\ dma_run' = IF DmaIssues THEN TRUE ELSE dma_run

PRSS ==
  /\ prss' = CASE DmaIssues -> "dma_wait"
               [] SubTakes -> IF Blocked THEN "end" ELSE "wait"
               [] prss = "wait" /\ busy -> IF rd THEN "read" ELSE "write"
               [] prss = "read" /\ ~busy -> "end"
               [] prss = "write" -> "end"
               [] prss = "end" /\ (~sack \/ ~SubSel) -> "idle"
               [] prss = "dma_wait" /\ busy -> "dma_write"
               [] prss = "dma_write" /\ ~busy -> "dma_end"
               [] prss = "dma_end" -> "idle"
               [] OTHER -> prss
  /\ sdo' = IF prss = "read" /\ ~busy THEN dout ELSE sdo
  /\ sack' = (SubAck \/ (sack /\ SubSel))
  /\ posted' = IF SubIssues /\ post_wr /\ sub.op.we # {} THEN TRUE
               ELSE IF prss = "write" THEN FALSE ELSE posted
  /\ dma_run' = IF DmaIssues THEN TRUE ELSE IF prss = "dma_end" THEN FALSE ELSE dma_run

GateArray == PRMS /\ PRSS /\ bus' = SubBus(MainBus)

-----------------------------------------------------------------------------
(* The processors and the DMA, also on clk_sys.  A CPU may end its bus     *)
(* cycle any time after /DTACK, and the sub-CPU may start the next one at  *)
(* once.  The main CPU's cycles are load.between apart, and load.gap from   *)
(* BUSREQ, a cycle of its own; the sub-CPU stops within HaltLag of it.      *)
Off == [st |-> "off", op |-> Quiet]
On(o) == [st |-> "on", op |-> o]

SubCpu == \/ UNCHANGED sub
          \/ sub.st = "off" /\ (~sbrq \/ gap < HaltLag) /\ \E o \in load.sub : sub' = On(o)
          \/ sub.st = "on" /\ sack /\ sub' = Off

MainCpu ==
  \/ UNCHANGED <<main, sbrq>> /\ gap' = IF main.st = "off" /\ gap < load.gap THEN gap + 1 ELSE gap
  \/ main.st = "off" /\ gap = load.gap /\ (\E o \in load.main : main' = On(o))
     /\ UNCHANGED <<gap, sbrq>>
  \/ main.st = "off" /\ gap = load.gap /\ sbrq' = ~sbrq /\ gap' = 0 /\ UNCHANGED main
  \/ main.st = "on" /\ mack /\ main' = Off /\ gap' = load.gap - load.between /\ UNCHANGED sbrq

(* The DMA machine keeps its word until PRSS has taken and finished it.    *)
Dma ==
  \/ dma.st = "off" /\ UNCHANGED dma
  \/ dma.st = "off" /\ \E o \in load.dma : dma' = [st |-> "ask", op |-> o]
  \/ dma.st = "ask"  /\ dma' = IF dma_run THEN [dma EXCEPT !.st = "wait"] ELSE dma
  \/ dma.st = "wait" /\ dma' = IF dma_run THEN dma ELSE Off

(* shadow takes each write when the gate array issues it; want is the word *)
(* a read should return, noted when it is issued.                          *)
Issued == IF DmaIssues THEN dma.op ELSE IF SubIssues THEN sub.op
          ELSE IF MainIssues THEN main.op ELSE Quiet
Users ==
  /\ SubCpu /\ MainCpu /\ Dma
  /\ shadow' = [shadow EXCEPT ![Issued.a] = Merge(@, Issued.we, Issued.d)]
  /\ want' = [sub   |-> IF SubTakes THEN shadow[sub.op.a] ELSE IF SubSel THEN want.sub ELSE Quiet.d,
              main  |-> IF MainIssues THEN shadow[main.op.a] ELSE IF MainSel THEN want.main ELSE Quiet.d,
              taken |-> SubTakes \/ (SubSel /\ want.taken)]

(* PRMS does not look at busy, so it counts for how many cycles of clk_ram *)
(* port 2 is put off once BUSREQ has stopped the sub-CPU: kept.  Two       *)
(* accesses that nobody puts off are over in 18 of clk_sys; late is set    *)
(* when the main CPU comes although kept is above what the gap leaves.     *)
Budget == 2 * (load.gap - HaltLag - 18)
Halting == load.main # {} /\ sbrq /\ gap >= HaltLag /\ main.st = "off"
Watch ==
  /\ kept' = IF ~Halting' THEN 0 ELSE IF PutOff /\ kept <= Budget THEN kept + 1 ELSE kept
  /\ late' = (late \/ (Halting /\ main'.st = "on" /\ kept > Budget))

-----------------------------------------------------------------------------
Silent == [a |-> Quiet.a, d |-> Quiet.d, we |-> {}, rd |-> FALSE]

NoWant == [sub |-> Quiet.d, main |-> Quiet.d, taken |-> FALSE]

Init ==
  /\ phase = 0 /\ load \in Loads /\ en \in EnFirst /\ nohit \in NoHits /\ post_wr \in PostWrites /\ toggles = 0 /\ resets = 0
  /\ Port2!Init /\ waited = 0
  /\ mem \in Contents /\ shadow = mem
  /\ cst = "init" /\ icnt = 0 /\ s_rd_r = FALSE /\ saw_busy = FALSE /\ hcnt = 0
  /\ old_rd = FALSE /\ old_wr = FALSE /\ pend_rd = FALSE /\ pend_wr = FALSE
  /\ q_op = Quiet /\ dout_r = Quiet.d /\ q = Blank /\ wreg = NoWrite
  /\ line \in [0 .. Lines - 1 -> Entry]
  /\ bus = Silent /\ prms = "idle" /\ prss = "idle"
  /\ mack = FALSE /\ sack = FALSE /\ posted = FALSE /\ dma_run = FALSE
  /\ mdo = Quiet.d /\ sdo = Quiet.d
  /\ sbrq = TRUE /\ gap = 0 - Boot /\ main = Off /\ sub = Off /\ dma = Off /\ want = NoWant
  /\ kept = 0 /\ late = FALSE

(* A reset clears the gate array and the processors; the access the SDRAM  *)
(* has accepted still completes.  The cache is cleared with them by the    *)
(* reset button, and left as it is by a ROM or BIOS download.              *)
Reset ==
  /\ phase = 0 /\ resets < load.resets
  /\ resets' = resets + 1 /\ UNCHANGED <<load, en, nohit, post_wr, toggles>>
  /\ SdramPort /\ \E whole \in ResetsCache : Cache(whole)
  /\ bus' = [Silent EXCEPT !.a = bus.a] /\ prms' = "idle" /\ prss' = "idle"
  /\ mack' = FALSE /\ sack' = FALSE /\ posted' = FALSE /\ dma_run' = FALSE
  /\ sbrq' = TRUE /\ gap' = 0 - Boot /\ main' = Off /\ sub' = Off /\ dma' = Off /\ want' = NoWant
  /\ UNCHANGED <<mdo, sdo>> /\ Watch
  /\ shadow' = IF sc' \in 1 .. 3 THEN [mem' EXCEPT ![sa'.a] = Merge(@, sa'.we, sa'.d)] ELSE mem'
  /\ phase' = 1

(* The OSD may switch the cache on or off, and its hits, at any time.      *)
Osd == /\ \/ UNCHANGED <<en, toggles>>
          \/ toggles < Toggles /\ toggles' = toggles + 1 /\ en' = ~en
       /\ nohit' \in NoHits /\ post_wr' \in PostWrites
       /\ UNCHANGED <<load, resets>>

Tick ==
  /\ SdramPort /\ Cache(FALSE)
  /\ phase' = 1 - phase
  /\ IF phase = 0 THEN GateArray /\ Users /\ Osd
     ELSE UNCHANGED <<asic, users, board, shadow, want>>
  /\ Watch

Next == Tick \/ Reset

Spec == Init /\ [][Next]_vars /\ WF_vars(Tick)

-----------------------------------------------------------------------------
TypeOK ==
  /\ phase \in {0, 1} /\ load \in Loads /\ en \in BOOLEAN /\ {nohit, post_wr} \subseteq BOOLEAN
  /\ sc \in 0 .. 6 /\ waited \in 0 .. load.wait /\ sa \in Op /\ sp \in Word /\ sdout \in Word
  /\ {sd, sd2, ssel} \subseteq BOOLEAN /\ sold \in [rd : BOOLEAN, wr : BOOLEAN]
  /\ mem \in [Addr -> Word] /\ shadow \in [Addr -> Word]
  /\ cst \in {"init", "idle", "look", "miss", "hit", "wr", "tail"}
  /\ hcnt \in 0 .. 3 /\ icnt \in 0 .. Lines - 1
  /\ {saw_busy, s_rd_r, old_rd, old_wr, pend_rd, pend_wr} \subseteq BOOLEAN
  /\ q_op \in Op /\ dout_r \in Word /\ line \in [0 .. Lines - 1 -> Entry] /\ q \in Entry
  /\ wreg \in [on : BOOLEAN, i : 0 .. Lines - 1, e : Entry]
  /\ bus \in [a : Addr, d : Word, we : SUBSET Lanes, rd : BOOLEAN]
  /\ prms \in {"idle", "wait", "read", "write", "end"}
  /\ prss \in {"idle", "wait", "read", "write", "end", "dma_wait", "dma_write", "dma_end"}
  /\ {mack, sack, posted, dma_run, sbrq} \subseteq BOOLEAN /\ mdo \in Word /\ sdo \in Word
  /\ gap \in (0 - Boot) .. load.gap /\ kept \in Nat /\ late \in BOOLEAN

(* A read returns the last word written to its address by any of the three *)
(* writers, whether the cache or the SDRAM answers; until the OSD switches *)
(* the cache, which an access under way does not survive, or the main CPU  *)
(* comes after more waits than its gap makes up for.                       *)
ReadsLatest ==
  toggles = 0 /\ ~late =>
    /\ sub.st = "on" /\ sack /\ sub.op.we = {} => sdo = want.sub
    /\ main.st = "on" /\ mack /\ open /\ prms = "end" /\ main.op.we = {} => mdo = want.main

(* /DTACK is never left over from an earlier bus cycle, until then.        *)
NoStaleDtack == ~late /\ sub.st = "on" /\ sack => want.taken

(* Until then, once both machines are at rest and the port is free, every  *)
(* write issued has reached the SDRAM, and every valid line holds what is  *)
(* there.                                                                  *)
AtRest == prms = "idle" /\ prss = "idle" /\ ~s_busy /\ ~s_pending
Settled ==
  ~late /\ AtRest =>
    /\ mem = shadow
    /\ en /\ cst = "idle" /\ ~wreg.on => \A i \in DOMAIN line : line[i].v => line[i].d = mem[line[i].a]

(* The lines carry one access at a time: neither machine starts while the  *)
(* other's request is not yet done with, unless, since BUSREQ, port 2 has  *)
(* been put off for more than Budget before a cycle of the main CPU.       *)
OneAtATime == late \/ ~(prms \in {"wait", "read", "write"}
                         /\ prss \in {"wait", "read", "write", "dma_wait", "dma_write"})

(* Every sub-CPU bus cycle is acknowledged, and so is every DMA word.      *)
SubServed == /\ sub.st = "on" ~> sack \/ sub.st = "off"
             /\ dma.st = "wait" ~> dma.st = "off"
=============================================================================
