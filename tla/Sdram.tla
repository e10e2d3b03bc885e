------------------------------- MODULE Sdram -------------------------------
(***************************************************************************)
(* The multi-port SDRAM controller, core/rtl/sdram.sv, together with the   *)
(* chip behind it and the consumers on its ports.                          *)
(*                                                                         *)
(* One step is one edge of clk_ram: every register of the three always     *)
(* blocks moves at once, so Next is a conjunction of the part of each      *)
(* block.  The consumers are clocked by clk_sys, half of clk_ram, and move *)
(* on the edges where phase = 0.                                           *)
(***************************************************************************)
EXTENDS Integers, FiniteSets

CONSTANTS Ports,        \* the ports, a set of naturals: 0 is served first
          PrgPort,      \* the Mega CD PRG-RAM port, 2
          Posted,       \* ports whose consumer drops a write as soon as it is taken
          Prompt,       \* ports whose consumer samples on the edge busy falls
          Addr, Lanes, Byte,
          Quiet,        \* what the address and data lines carry without a strobe
          RfsCnt,       \* RFS_CNT, clk_ram cycles from a refresh to the next
          RstTop, RstPre, RstLdm,   \* 31, 14 and 3: steps of the power-up counter
          PrgFirst,     \* the values the OSD gives prg_first
          OpsOf(_),     \* the operations the consumer of a port issues
          InitFalls     \* bound: how often the PLL may drop its lock

ASSUME PortsAssumption == Ports \subseteq Nat /\ PrgFirst \subseteq BOOLEAN
ASSUME RfsAssumption == RfsCnt \in Nat
ASSUME RstAssumption == /\ RstTop \in Nat /\ RstPre \in Nat /\ RstLdm \in Nat
                        /\ 0 < RstLdm /\ RstLdm < RstPre /\ RstPre < RstTop
ASSUME FallsAssumption == InitFalls \in Nat

IDLE  == 0
START == 1
CONT  == 3      \* STATE_START + RASCAS_DELAY
READY == 6      \* STATE_CONT + CAS_LATENCY + 1
LAST  == READY

SinceMax == RfsCnt + LAST + 2   \* history only: the count saturates

Word == [Lanes -> Byte]
Op   == [a : Addr, d : Word, we : SUBSET Lanes]     \* we = {} is a read

ASSUME OpsAssumption == Quiet \in Op /\ \A p \in Ports : OpsOf(p) \subseteq Op

VARIABLES
  state, mode, reset,               \* the access cycle and the power-up sequence
  rfs_timer, old_rd, old_wr,        \* the access manager
  ram_req, ram_req_d, ram_req_d2,   \* one-hot: the port in service, and its two echoes
  we, a, data,                      \* the access latched at its start
  dout, dout_sel, dout_p,           \* the captured word on its way to its port
  mem,                              \* the contents of the chip
  phase, prg_first, falls,          \* clk_sys, the OSD bit, PLL lock losses so far
  stage, op,                        \* the consumers
  done, result, age, since          \* history: see History

powerup   == <<mode, reset, falls>>
manager   == <<rfs_timer, old_rd, old_wr, ram_req, ram_req_d, ram_req_d2, we, a, data>>
pipeline  == <<dout, dout_sel, dout_p>>
consumers == <<stage, op>>
history   == <<done, result, age, since>>
vars == <<state, powerup, manager, pipeline, mem, phase, prg_first, consumers, history>>

-----------------------------------------------------------------------------
(* The wires between the consumers and the controller.                     *)

rd == {p \in Ports : op[p].we = {} /\ stage[p] \in {"wait", "busy"}}
wr == {p \in Ports : op[p].we # {} /\ \/ stage[p] = "wait"
                                      \/ stage[p] = "busy" /\ p \notin Posted}

Busy_NoTail(p) == p \in ram_req       \* before busy was stretched
Busy(p) == p \in ram_req \cup ram_req_d \cup ram_req_d2

(* A consumer may take the word from the edge busy falls on.               *)
MayFinish(p) == stage[p] = "busy" /\ ~Busy(p)

Pending(p) == p \in (rd \ old_rd) \cup (wr \ old_wr)

(* The else-if chain; with prg_first the ports in front of PRG-RAM, 0 and  *)
(* 1, step aside while it has a request.                                   *)
Before_Fixed(p, q) == p < q      \* prg_first not looked at
Before(p, q) == \/ p < q /\ ~(prg_first /\ q = PrgPort)
                \/ prg_first /\ p = PrgPort
Wins(p) == Pending(p) /\ \A q \in Ports \ {p} : Pending(q) => Before(p, q)

-----------------------------------------------------------------------------
Advance == state' = IF state = LAST THEN IDLE ELSE state + 1

KeepOld == old_rd' = old_rd \cap rd /\ old_wr' = old_wr \cap wr

CountRefresh_Wraps == rfs_timer' = rfs_timer - 1     \* if(rfs_timer) left out
CountRefresh == rfs_timer' = IF rfs_timer = 0 THEN 0 ELSE rfs_timer - 1

(* An accepted strobe is old until it falls.                               *)
Taken_Lost(old, lines, p) == old \cap lines      \* old_xx[p] <= xx[p] left out
Taken(old, lines, p) ==
  IF p \in lines THEN (old \cap lines) \cup {p} ELSE (old \cap lines) \ {p}

RefreshDue_Polite == rfs_timer = 0 /\ \A p \in Ports : ~Pending(p)   \* when no port asks
RefreshDue == rfs_timer = 0

(* An idle controller in normal mode refreshes before it serves anybody.   *)
Refresh ==
  /\ state = IDLE /\ mode = "normal" /\ RefreshDue
  /\ rfs_timer' = RfsCnt
  /\ we' = {}
  /\ state' = START
  /\ KeepOld
  /\ UNCHANGED <<ram_req, a, data>>

Accept(p) ==
  /\ state = IDLE /\ mode = "normal" /\ ~RefreshDue
  /\ Wins(p)
  /\ old_rd' = Taken(old_rd, rd, p) /\ old_wr' = Taken(old_wr, wr, p)
  /\ a' = op[p].a /\ data' = op[p].d
  /\ we' = IF p \in wr THEN op[p].we ELSE {}
  /\ ram_req' = {p}
  /\ state' = START
  /\ CountRefresh

Rest ==
  /\ state = IDLE /\ mode = "normal" /\ ~RefreshDue
  /\ \A p \in Ports : ~Pending(p)
  /\ KeepOld /\ CountRefresh
  /\ state' = IF reset # 0 THEN START ELSE IDLE
  /\ UNCHANGED <<ram_req, we, a, data>>

(* Every other cycle; in READY a request being served ends.                *)
Cycle ==
  /\ state # IDLE \/ mode # "normal"
  /\ Advance /\ KeepOld /\ CountRefresh
  /\ ram_req' = IF state = READY THEN {} ELSE ram_req
  /\ UNCHANGED <<we, a, data>>

Manager == Refresh \/ (\E p \in Ports : Accept(p)) \/ Rest \/ Cycle

-----------------------------------------------------------------------------
(* The data pins in READY: the word addressed, or noise after a write.     *)
DQ == IF we = {} THEN {mem[a]} ELSE Word

Pipeline_Shared ==                  \* one data register for all the ports
  /\ ram_req_d' = ram_req /\ ram_req_d2' = ram_req_d
  /\ IF state = READY /\ ram_req # {} THEN dout' \in DQ ELSE dout' = dout
  /\ dout_sel' = IF state = READY THEN ram_req ELSE {}
  /\ dout_p' = [p \in Ports |-> IF dout_sel # {} THEN dout ELSE dout_p[p]]
Pipeline ==
  /\ ram_req_d' = ram_req /\ ram_req_d2' = ram_req_d
  /\ IF state = READY /\ ram_req # {} THEN dout' \in DQ ELSE dout' = dout
  /\ dout_sel' = IF state = READY THEN ram_req ELSE {}
  /\ dout_p' = [p \in Ports |-> IF p \in dout_sel THEN dout ELSE dout_p[p]]

(* init falls when the PLL locks; it reloads the counter and nothing else. *)
InitFall == /\ falls < InitFalls
            /\ falls' = falls + 1 /\ reset' = RstTop
            /\ UNCHANGED mode

Sequence ==
  /\ UNCHANGED falls
  /\ IF state # LAST THEN UNCHANGED <<reset, mode>>
     ELSE IF reset = 0 THEN mode' = "normal" /\ UNCHANGED reset
     ELSE /\ reset' = reset - 1
          /\ mode' = IF reset = RstPre THEN "precharge"
                     ELSE IF reset = RstLdm THEN "load" ELSE "reset"

PowerUp == InitFall \/ Sequence

Refreshes == state = START /\ mode = "normal" /\ ram_req = {}
Writes == state = CONT /\ mode = "normal" /\ ram_req # {} /\ we # {}
Reads  == state = READY /\ ram_req # {} /\ we = {}

Chip ==
  mem' = IF Writes
         THEN [mem EXCEPT ![a] = [l \in Lanes |-> IF l \in we THEN data[l] ELSE @[l]]]
         ELSE mem

-----------------------------------------------------------------------------
(* The consumers of R raise their strobes, those of F are done.            *)
Moves(R, F) ==
  stage' = [p \in Ports |-> IF p \in R THEN "wait"
                            ELSE IF stage[p] = "wait" /\ Busy(p) THEN "busy"
                            ELSE IF p \in F THEN "idle"
                            ELSE stage[p]]

(* A consumer raises its strobe on a free port and holds it until it sees  *)
(* busy; a posted write is dropped there, anything else is held until busy *)
(* has fallen.  The gate array and the 32X sample a read on that very edge *)
(* (Prompt); a 68000 bus cycle may end any time later.                     *)
Consumers ==
  \E R \in SUBSET {p \in Ports : stage[p] = "idle" /\ ~Busy(p)} :
  \E F \in SUBSET {p \in Ports : MayFinish(p)} :
  \E new \in {f \in [R -> UNION {OpsOf(p) : p \in R}] : \A p \in R : f[p] \in OpsOf(p)} :
    /\ \A p \in Prompt : MayFinish(p) => p \in F
    /\ Moves(R, F)
    /\ op' = [p \in Ports |-> IF p \in R THEN new[p]
                                ELSE IF p \in F THEN Quiet ELSE op[p]]
    /\ prg_first' \in PrgFirst

Clock ==
  /\ phase' = 1 - phase
  /\ IF phase = 0 THEN Consumers ELSE UNCHANGED <<stage, op, prg_first>>

(* History variables.  done counts how often an operation has reached the  *)
(* chip since it was raised and result is the word a read found there; age *)
(* is how long dout_p has been stable, in clk_ram cycles up to 2; since is *)
(* the cycles since the last refresh began, in normal mode.                *)
History ==
  /\ done' = [p \in Ports |->
       IF stage[p] = "idle" /\ stage'[p] = "wait" THEN 0
       ELSE IF p \in ram_req /\ (Writes \/ Reads) /\ done[p] < 2 THEN done[p] + 1
       ELSE done[p]]
  /\ result' = [p \in Ports |-> IF p \in ram_req /\ Reads THEN mem[a]
                                 ELSE IF stage'[p] = "idle" THEN Quiet.d ELSE result[p]]
  /\ age' = [p \in Ports |-> IF p \in dout_sel THEN 0
                              ELSE IF age[p] < 2 THEN age[p] + 1 ELSE 2]
  /\ since' = IF mode # "normal" \/ Refreshes THEN 0
              ELSE IF since < SinceMax THEN since + 1 ELSE since

-----------------------------------------------------------------------------
Init ==
  /\ state = IDLE /\ mode = "normal" /\ reset = RstTop
  /\ rfs_timer = 0 /\ old_rd = {} /\ old_wr = {}
  /\ ram_req = {} /\ ram_req_d = {} /\ ram_req_d2 = {} /\ dout_sel = {}
  /\ we = {} /\ a = Quiet.a /\ data = Quiet.d /\ dout = Quiet.d
  /\ dout_p = [p \in Ports |-> Quiet.d]
  /\ mem \in [Addr -> Word]
  /\ phase = 0 /\ prg_first \in PrgFirst /\ falls = 0
  /\ stage = [p \in Ports |-> "idle"] /\ op = [p \in Ports |-> Quiet]
  /\ done = [p \in Ports |-> 0] /\ result = dout_p
  /\ age = [p \in Ports |-> 2] /\ since = 0

Next == Manager /\ Pipeline /\ PowerUp /\ Chip /\ Clock /\ History

Spec == Init /\ [][Next]_vars /\ WF_vars(Next)

-----------------------------------------------------------------------------
TypeOK ==
  /\ state \in IDLE .. LAST
  /\ mode \in {"normal", "reset", "precharge", "load"}
  /\ reset \in 0 .. RstTop /\ falls \in 0 .. InitFalls
  /\ rfs_timer \in 0 .. RfsCnt
  /\ old_rd \subseteq Ports /\ old_wr \subseteq Ports
  /\ ram_req \subseteq Ports /\ ram_req_d \subseteq Ports /\ ram_req_d2 \subseteq Ports
  /\ dout_sel \subseteq Ports
  /\ we \subseteq Lanes /\ a \in Addr /\ data \in Word
  /\ dout \in Word /\ dout_p \in [Ports -> Word]
  /\ mem \in [Addr -> Word]
  /\ phase \in {0, 1} /\ prg_first \in BOOLEAN
  /\ stage \in [Ports -> {"idle", "wait", "busy"}] /\ op \in [Ports -> Op]
  /\ done \in [Ports -> 0 .. 2] /\ result \in [Ports -> Word]
  /\ age \in [Ports -> 0 .. 2] /\ since \in 0 .. SinceMax

(* A consumer that finishes has had its operation done once and only once, *)
(* though its strobe stays up across the whole access and other ports are  *)
(* served while it waits (sdram.sv:23-24, 158-159).                        *)
ExactlyOnce ==
  \A p \in Ports : done[p] < 2 /\ (MayFinish(p) => done[p] = 1)

(* The word a consumer samples when busy falls is the one its own read     *)
(* found, whatever the other ports did in between, and the register that   *)
(* holds it had been still for two cycles (sdram.sv:121-127, 139-141).     *)
SampleCorrect ==
  \A p \in Ports : MayFinish(p) /\ op[p].we = {} =>
    dout_p[p] = result[p] /\ age[p] >= 1

(* Saturated ports cannot put a refresh off by more than one access.       *)
RefreshBound == since <= RfsCnt + LAST + 1

(* The first two ports in the order of service are always served, whatever *)
(* the others ask for: busy outlives the access, so a consumer cannot have *)
(* its strobe up again when the controller next looks.                     *)
Served(p) == stage[p] = "wait" ~> stage[p] = "busy"
FirstTwoServed ==
  /\ <>[](prg_first) => Served(PrgPort) /\ Served(0)
  /\ <>[](~prg_first) => Served(0) /\ Served(1)

(* The controller is a multi-port memory: what a port shows once busy has  *)
(* fallen is the answer to its own operation.                              *)
Memory == INSTANCE PortMemory WITH
  Blank  <- Quiet.d,
  at     <- [p \in Ports |-> IF stage[p] = "idle" THEN "idle"
                             ELSE IF done[p] = 0 THEN "asked" ELSE "done"],
  answer <- [p \in Ports |-> IF stage[p] # "idle" /\ done[p] # 0 /\ op[p].we = {}
                             THEN IF Busy(p) THEN result[p] ELSE dout_p[p]
                             ELSE Quiet.d]
IsPortMemory == Memory!Spec
=============================================================================
