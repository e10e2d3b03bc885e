---------------------------- MODULE SdramProofs ----------------------------
(***************************************************************************)
(* Proofs about the SDRAM controller: for any set of ports, any contents   *)
(* and any refresh interval, ExactlyOnce and SampleCorrect hold, refreshes *)
(* are in time and the controller implements PortMemory.                   *)
(*                                                                         *)
(* The argument follows one access through the cycle.  ServiceInv says     *)
(* where the three copies of the one-hot request are in each state;        *)
(* PortInv says, for each port, what its consumer has seen of them.        *)
(*                                                                         *)
(* For the refinement a step of clk_ram is a Commit of PortMemory when the *)
(* access in service reaches the chip, a write in CONT or a read in READY; *)
(* what the consumers do in the same step are its Ask, Finish and Stay.    *)
(***************************************************************************)
EXTENDS Sdram, TLAPS

(* The request in service and its echoes, state by state.                  *)
ServiceInv ==
  /\ ram_req # {} => mode = "normal" /\ \E p \in Ports : ram_req = {p}
  /\ state = IDLE  => ram_req = {} /\ ram_req_d \subseteq ram_req_d2 /\ dout_sel = ram_req_d
  /\ state = START => ram_req_d = {}
  /\ state = 2     => ram_req_d = ram_req /\ ram_req_d2 = {}
  /\ state >= CONT => ram_req_d = ram_req /\ ram_req_d2 = ram_req
  /\ state # IDLE  => dout_sel = {}

(* A consumer that has not raised its strobe is not being served; one that *)
(* has raised it notices busy within two cycles.                           *)
NoticeInv(p) ==
  /\ stage[p] = "idle" => ~Busy(p)
  /\ stage[p] = "wait" => /\ p \notin ram_req_d2
                          /\ p \in ram_req_d => p \in ram_req
                          /\ p \in ram_req => state = START \/ (state = 2 /\ phase = 0)

(* A strobe that has been served is old until it falls.                    *)
OldInv(p) ==
  stage[p] = "busy" \/ p \in ram_req =>
    (p \in rd => p \in old_rd) /\ (p \in wr => p \in old_wr)

(* The access latched is the one asked for, and it is counted when it      *)
(* reaches the chip: a write in CONT, a read in READY.                     *)
AccessInv(p) ==
  /\ p \in ram_req => we = op[p].we /\ a = op[p].a /\ data = op[p].d
  /\ stage[p] = "wait" => done[p] = 0
  /\ p \in ram_req => done[p] = IF state > CONT /\ we # {} THEN 1 ELSE 0
  /\ stage[p] = "busy" /\ p \notin ram_req => done[p] = 1
  /\ done[p] < 2

(* The word read moves from dout to the port's register and rests there.   *)
DataInv(p) ==
  stage[p] = "busy" /\ p \notin ram_req =>
    /\ op[p].we = {} => IF p \in dout_sel THEN dout = result[p] ELSE dout_p[p] = result[p]
    /\ p \notin dout_sel => p \in ram_req_d2 \/ age[p] >= 1

IInv == /\ TypeOK
        /\ ServiceInv
        /\ \A p \in Ports : NoticeInv(p) /\ OldInv(p) /\ AccessInv(p) /\ DataInv(p)

-----------------------------------------------------------------------------
LEMMA ConstantTypes ==
  /\ Quiet \in Op /\ Quiet.a \in Addr /\ Quiet.d \in Word
  /\ \A p \in Ports : OpsOf(p) \subseteq Op
  /\ PrgFirst \subseteq BOOLEAN /\ RfsCnt \in Nat /\ RstTop \in Nat /\ InitFalls \in Nat
  BY OpsAssumption, PortsAssumption, RfsAssumption, RstAssumption, FallsAssumption DEF Op

LEMMA TypeInit == Init => TypeOK
  BY ConstantTypes DEF Init, TypeOK, IDLE, LAST, READY, SinceMax

LEMMA TypeStep == TypeOK /\ [Next]_vars => TypeOK'
<1> SUFFICES ASSUME TypeOK, [Next]_vars PROVE TypeOK'
    OBVIOUS
<1>1. CASE UNCHANGED vars
  BY <1>1 DEF TypeOK, vars, powerup, manager, pipeline, consumers, history
<1>2. CASE Next
  <2> USE <1>2 DEF Next
  <2>1. /\ state' \in IDLE .. LAST /\ rfs_timer' \in 0 .. RfsCnt
        /\ old_rd' \subseteq Ports /\ old_wr' \subseteq Ports /\ ram_req' \subseteq Ports
        /\ we' \subseteq Lanes /\ a' \in Addr /\ data' \in Word
    <3>1. rd \subseteq Ports /\ wr \subseteq Ports /\ \A p \in Ports : op[p] \in Op
      BY DEF TypeOK, rd, wr
    <3>2. CASE Refresh
      BY <3>1, <3>2, ConstantTypes
         DEF Refresh, TypeOK, KeepOld, IDLE, START, READY, LAST
    <3>3. ASSUME NEW p \in Ports, Accept(p)
          PROVE  /\ state' \in IDLE .. LAST /\ rfs_timer' \in 0 .. RfsCnt
                 /\ old_rd' \subseteq Ports /\ old_wr' \subseteq Ports /\ ram_req' \subseteq Ports
                 /\ we' \subseteq Lanes /\ a' \in Addr /\ data' \in Word
      BY <3>1, <3>3, ConstantTypes
         DEF Accept, TypeOK, Taken, CountRefresh, Op, IDLE, START, READY, LAST
    <3>4. CASE Rest
      BY <3>1, <3>4, ConstantTypes
         DEF Rest, TypeOK, KeepOld, CountRefresh, IDLE, START, READY, LAST
    <3>5. CASE Cycle
      BY <3>1, <3>5, ConstantTypes
         DEF Cycle, Advance, TypeOK, KeepOld, CountRefresh, IDLE, START, READY, LAST
    <3> QED BY <3>2, <3>3, <3>4, <3>5 DEF Manager
  <2>2. /\ dout' \in Word /\ dout_p' \in [Ports -> Word]
        /\ ram_req_d' \subseteq Ports /\ ram_req_d2' \subseteq Ports /\ dout_sel' \subseteq Ports
    BY DEF Pipeline, TypeOK, DQ
  <2>3. mode' \in {"normal", "reset", "precharge", "load"} /\ reset' \in 0 .. RstTop
        /\ falls' \in 0 .. InitFalls
    BY ConstantTypes DEF PowerUp, InitFall, Sequence, TypeOK
  <2>4. mem' \in [Addr -> Word]
    BY DEF Chip, Writes, TypeOK, Word
  <2>5. /\ phase' \in {0, 1} /\ prg_first' \in BOOLEAN
        /\ stage' \in [Ports -> {"idle", "wait", "busy"}] /\ op' \in [Ports -> Op]
    BY ConstantTypes DEF Clock, Consumers, Moves, TypeOK
  <2>6. /\ done' \in [Ports -> 0 .. 2] /\ result' \in [Ports -> Word]
        /\ age' \in [Ports -> 0 .. 2] /\ since' \in 0 .. SinceMax
    BY ConstantTypes DEF History, TypeOK, SinceMax, LAST, READY
  <2> QED BY <2>1, <2>2, <2>3, <2>4, <2>5, <2>6 DEF TypeOK
<1> QED BY <1>1, <1>2

(* Every register keeps to its range (sdram.sv:113-156, 269-271).          *)
THEOREM TypeCorrect == Spec => []TypeOK
  BY TypeInit, TypeStep, PTL DEF Spec

-----------------------------------------------------------------------------
LEMMA InvInit == Init => IInv
<1> SUFFICES ASSUME Init PROVE IInv
    OBVIOUS
<1>1. TypeOK
  BY TypeInit
<1>2. ServiceInv
  BY DEF Init, ServiceInv, IDLE, START, CONT
<1>3. \A p \in Ports : NoticeInv(p) /\ OldInv(p) /\ AccessInv(p) /\ DataInv(p)
  BY DEF Init, NoticeInv, OldInv, AccessInv, DataInv, Busy
<1> QED BY <1>1, <1>2, <1>3 DEF IInv

(* Who is in service after a step: nobody new unless a port was accepted,  *)
(* and then one that waits and was not being served.                       *)
LEMMA ServiceStep ==
  ASSUME IInv, Next
  PROVE  \/ \E p \in Ports : /\ Accept(p) /\ stage[p] = "wait" /\ ram_req' = {p}
                              /\ state = IDLE /\ state' = START /\ mode = "normal"
         \/ /\ ~\E p \in Ports : Accept(p)
            /\ ram_req' = (IF state = READY THEN {} ELSE ram_req)
            /\ a' = a /\ data' = data /\ (we' = we \/ ram_req = {})
            /\ state' = (IF state = LAST THEN IDLE ELSE state + 1) \/ (state = IDLE /\ state' = IDLE)
            /\ KeepOld
<1>1. \A p \in Ports : Pending(p) => stage[p] = "wait"
  BY DEF IInv, TypeOK, OldInv, Pending, rd, wr
<1>2. CASE Refresh
  BY <1>2 DEF Refresh, Accept, IInv, ServiceInv, IDLE, READY, LAST, START
<1>3. CASE \E p \in Ports : Accept(p)
  BY <1>1, <1>3 DEF Accept, Wins
<1>4. CASE Rest
  BY <1>4 DEF Rest, Accept, Wins, IInv, ServiceInv, IDLE, READY, LAST, START
<1>5. CASE Cycle
  BY <1>5 DEF Cycle, Advance, Accept, IInv, ServiceInv, IDLE, READY, LAST, START
<1> QED BY <1>2, <1>3, <1>4, <1>5 DEF Next, Manager

LEMMA ServiceInvStep ==
  ASSUME IInv, Next
  PROVE  ServiceInv'
<1> USE DEF IDLE, START, CONT, READY, LAST
<1>1. /\ ram_req_d' = ram_req /\ ram_req_d2' = ram_req_d
      /\ dout_sel' = IF state = READY THEN ram_req ELSE {}
  BY DEF Next, Pipeline
<1>2. mode' = mode \/ state = LAST
  BY DEF Next, PowerUp, InitFall, Sequence
<1>3. state \in 0 .. 6 /\ ServiceInv
  BY DEF IInv, TypeOK
<1>4. CASE \E p \in Ports : Accept(p) /\ ram_req' = {p} /\ state = IDLE /\ state' = START
                             /\ mode = "normal"
  BY <1>1, <1>2, <1>3, <1>4 DEF ServiceInv
<1>5. CASE /\ ram_req' = (IF state = READY THEN {} ELSE ram_req)
           /\ state' = (IF state = LAST THEN IDLE ELSE state + 1) \/ (state = IDLE /\ state' = IDLE)
  BY <1>1, <1>2, <1>3, <1>5 DEF ServiceInv
<1> QED BY <1>4, <1>5, ServiceStep

(* What the consumer of p does on a step.                                  *)
LEMMA ConsumerStep ==
  ASSUME TypeOK, Next, NEW p \in Ports
  PROVE  \/ stage'[p] = stage[p] /\ op'[p] = op[p] /\ (phase = 0 => ~(stage[p] = "wait" /\ Busy(p)))
         \/ stage[p] = "idle" /\ stage'[p] = "wait" /\ ~Busy(p)
         \/ stage[p] = "wait" /\ stage'[p] = "busy" /\ op'[p] = op[p] /\ Busy(p)
         \/ MayFinish(p) /\ stage'[p] = "idle"
<1>1. CASE phase = 0
  <2>1. PICK R \in SUBSET {q \in Ports : stage[q] = "idle" /\ ~Busy(q)} :
        \E F \in SUBSET {q \in Ports : MayFinish(q)} :
          Moves(R, F) /\ (p \notin R \cup F => op'[p] = op[p])
    BY <1>1 DEF Next, Clock, Consumers
  <2>2. PICK F \in SUBSET {q \in Ports : MayFinish(q)} :
          Moves(R, F) /\ (p \notin R \cup F => op'[p] = op[p])
    BY <2>1
  <2> QED BY <2>2 DEF MayFinish, Moves
<1>2. CASE phase = 1
  BY <1>2 DEF Next, Clock
<1> QED BY <1>1, <1>2 DEF TypeOK

(* Which of the request's copies p is in after a step.                     *)
LEMMA EchoStep ==
  ASSUME IInv, Next, NEW p \in Ports
  PROVE  /\ ram_req_d' = ram_req /\ ram_req_d2' = ram_req_d
         /\ Busy(p)' <=> p \in ram_req' \cup ram_req \cup ram_req_d
         /\ p \in ram_req' /\ p \notin ram_req => stage[p] = "wait" /\ Accept(p) /\ state = IDLE
         /\ p \in ram_req /\ p \notin ram_req' => state = READY
<1>1. ram_req_d' = ram_req /\ ram_req_d2' = ram_req_d
  BY DEF Next, Pipeline
<1>2. Busy(p)' <=> p \in ram_req' \cup ram_req \cup ram_req_d
  BY <1>1 DEF Busy
<1>3. ServiceInv
  BY DEF IInv
<1>4. CASE \E q \in Ports : /\ Accept(q) /\ stage[q] = "wait" /\ ram_req' = {q}
                            /\ state = IDLE /\ state' = START /\ mode = "normal"
  BY <1>1, <1>2, <1>3, <1>4 DEF ServiceInv
<1>5. CASE ram_req' = (IF state = READY THEN {} ELSE ram_req)
  BY <1>1, <1>2, <1>5
<1> QED BY <1>4, <1>5, ServiceStep

LEMMA NoticeStep ==
  ASSUME IInv, Next, NEW p \in Ports
  PROVE  NoticeInv(p)'
<1> USE DEF IDLE, START, CONT, READY, LAST
<1>1. NoticeInv(p) /\ ServiceInv /\ state \in 0 .. 6 /\ phase \in {0, 1} /\ TypeOK
  BY DEF IInv, TypeOK
<1>2. phase' = 1 - phase
  BY DEF Next, Clock
<1>3. p \in ram_req /\ p \in ram_req' => state' = state + 1
  BY <1>1, ServiceStep DEF ServiceInv
<1>4. p \in ram_req' /\ p \notin ram_req => state' = START
  BY ServiceStep, EchoStep
<1>5. p \in ram_req /\ stage[p] = "wait" => state \in {1, 2}
  BY <1>1 DEF NoticeInv
<1>6. CASE stage'[p] = stage[p]
  <2>1. CASE stage[p] = "idle"
    BY <1>1, <1>6, <2>1, EchoStep DEF NoticeInv, Busy
  <2>2. CASE stage[p] = "wait" /\ p \in ram_req
    <3>1. phase = 1 /\ state = START
      BY <1>1, <1>6, <2>2, ConsumerStep DEF NoticeInv, Busy, MayFinish
    <3>2. p \in ram_req' /\ state' = 2 /\ phase' = 0
      BY <1>2, <1>3, <2>2, <3>1, EchoStep
    <3>3. p \notin ram_req_d
      BY <1>1, <3>1 DEF ServiceInv
    <3> QED BY <1>6, <2>2, <3>2, <3>3, EchoStep DEF NoticeInv
  <2>3. CASE stage[p] = "wait" /\ p \notin ram_req
    BY <1>1, <1>4, <1>6, <2>3, EchoStep DEF NoticeInv
  <2>4. CASE stage[p] = "busy"
    BY <1>6, <2>4 DEF NoticeInv
  <2> QED BY <1>1, <2>1, <2>2, <2>3, <2>4 DEF TypeOK
<1>7. CASE stage[p] = "idle" /\ stage'[p] = "wait" /\ ~Busy(p)
  BY <1>1, <1>4, <1>7, EchoStep DEF NoticeInv, Busy
<1>8. CASE stage[p] = "wait" /\ stage'[p] = "busy"
  BY <1>8 DEF NoticeInv
<1>9. CASE MayFinish(p) /\ stage'[p] = "idle"
  BY <1>1, <1>9, EchoStep DEF NoticeInv, Busy, MayFinish
<1> QED BY <1>1, <1>6, <1>7, <1>8, <1>9, ConsumerStep

LEMMA OldStep ==
  ASSUME IInv, Next, NEW p \in Ports
  PROVE  OldInv(p)'
<1>1. OldInv(p) /\ NoticeInv(p) /\ TypeOK /\ ServiceInv
  BY DEF IInv
<1>2. ASSUME stage'[p] = "busy" \/ p \in ram_req'
      PROVE  (p \in rd' => p \in rd) /\ (p \in wr' => p \in wr)
  BY <1>1, <1>2, ConsumerStep, EchoStep
     DEF rd, wr, NoticeInv, Busy, MayFinish, TypeOK
<1>3. CASE \E q \in Ports : Accept(q)
  <2>1. PICK q \in Ports : Accept(q)
    BY <1>3
  <2>2. CASE q = p
    BY <1>2, <2>1, <2>2 DEF Accept, Taken, OldInv
  <2>3. CASE q # p
    <3>1. p \notin ram_req /\ p \notin ram_req'
      BY <1>1, <2>1, <2>3 DEF Accept, ServiceInv
    <3>2. stage'[p] = "busy" => stage[p] = "busy" \/ p \in ram_req
      BY <1>1, <3>1, ConsumerStep DEF NoticeInv, Busy
    <3>3. /\ p \in old_rd' <=> p \in old_rd /\ p \in rd
          /\ p \in old_wr' <=> p \in old_wr /\ p \in wr
      BY <2>1, <2>3 DEF Accept, Taken
    <3> QED BY <1>1, <1>2, <3>1, <3>2, <3>3 DEF OldInv
  <2> QED BY <2>2, <2>3
<1>4. CASE ~\E q \in Ports : Accept(q)
  <2>1. KeepOld /\ (p \in ram_req' => p \in ram_req)
    BY <1>4, ServiceStep
  <2>2. stage'[p] = "busy" => stage[p] = "busy" \/ p \in ram_req
    BY <1>1, ConsumerStep DEF NoticeInv, Busy
  <2> QED BY <1>1, <1>2, <2>1, <2>2 DEF OldInv, KeepOld
<1> QED BY <1>3, <1>4

LEMMA AccessStep ==
  ASSUME IInv, Next, NEW p \in Ports
  PROVE  AccessInv(p)'
<1> USE DEF IDLE, START, CONT, READY, LAST
<1>1. /\ AccessInv(p) /\ NoticeInv(p) /\ ServiceInv /\ TypeOK
      /\ state \in 0 .. 6 /\ done[p] \in 0 .. 2 /\ stage[p] \in {"idle", "wait", "busy"}
  BY DEF IInv, TypeOK
<1>2. done'[p] = IF stage[p] = "idle" /\ stage'[p] = "wait" THEN 0
                 ELSE IF p \in ram_req /\ (Writes \/ Reads) /\ done[p] < 2 THEN done[p] + 1
                 ELSE done[p]
  BY DEF Next, History
<1>3. stage[p] = "wait" /\ stage'[p] = "wait" => done'[p] = 0
  BY <1>1, <1>2 DEF AccessInv, NoticeInv, Writes, Reads
<1>4. CASE p \notin ram_req /\ p \in ram_req'
  <2>1. stage[p] = "wait" /\ stage'[p] = "wait" /\ state' = START /\ Accept(p) /\ op'[p] = op[p]
    BY <1>1, <1>4, EchoStep, ConsumerStep, ServiceStep DEF NoticeInv, Busy, MayFinish, IInv
  <2>2. we' = op[p].we /\ a' = op[p].a /\ data' = op[p].d
    <3>1. op[p].we # {} <=> p \in wr
      BY <2>1 DEF wr
    <3> QED BY <2>1, <3>1 DEF Accept
  <2> QED BY <1>3, <2>1, <2>2 DEF AccessInv
<1>5. CASE p \in ram_req /\ p \in ram_req'
  <2>1. /\ we' = we /\ a' = a /\ data' = data /\ state' = state + 1 /\ state # READY
        /\ mode = "normal" /\ state # IDLE
    BY <1>1, <1>5, ServiceStep DEF ServiceInv
  <2>2. /\ op'[p] = op[p] /\ stage[p] \in {"wait", "busy"} /\ stage'[p] \in {"wait", "busy"}
        /\ stage'[p] = "wait" => stage[p] = "wait"
    BY <1>1, <1>5, ConsumerStep DEF NoticeInv, Busy, MayFinish
  <2>3. done'[p] = IF state = CONT /\ we # {} THEN 1 ELSE done[p]
    BY <1>1, <1>2, <1>5, <2>1, <2>2 DEF AccessInv, Writes, Reads
  <2>4. done'[p] = IF state' > CONT /\ we' # {} THEN 1 ELSE 0
    BY <1>1, <1>5, <2>1, <2>3 DEF AccessInv
  <2>5. we' = op'[p].we /\ a' = op'[p].a /\ data' = op'[p].d
    BY <1>1, <1>5, <2>1, <2>2 DEF AccessInv
  <2> QED BY <1>3, <1>5, <2>2, <2>4, <2>5 DEF AccessInv
<1>6. CASE p \in ram_req /\ p \notin ram_req'
  <2>1. state = READY /\ stage[p] = "busy" /\ stage'[p] = "busy"
    BY <1>1, <1>6, EchoStep, ConsumerStep DEF NoticeInv, Busy, MayFinish
  <2>2. done'[p] = 1
    BY <1>1, <1>2, <1>6, <2>1 DEF AccessInv, Writes, Reads
  <2> QED BY <1>6, <2>1, <2>2 DEF AccessInv
<1>7. CASE p \notin ram_req /\ p \notin ram_req'
  <2>1. stage'[p] = "busy" => stage[p] = "busy"
    BY <1>1, <1>7, ConsumerStep DEF NoticeInv, Busy
  <2> QED BY <1>1, <1>2, <1>3, <1>7, <2>1, ConsumerStep DEF AccessInv
<1> QED BY <1>4, <1>5, <1>6, <1>7

LEMMA DataStep ==
  ASSUME IInv, Next, NEW p \in Ports
  PROVE  DataInv(p)'
<1> USE DEF IDLE, START, CONT, READY, LAST
<1>1. /\ DataInv(p) /\ AccessInv(p) /\ NoticeInv(p) /\ ServiceInv /\ TypeOK
      /\ state \in 0 .. 6 /\ age[p] \in 0 .. 2 /\ stage[p] \in {"idle", "wait", "busy"}
  BY DEF IInv, TypeOK
<1>2. /\ result'[p] = IF p \in ram_req /\ Reads THEN mem[a]
                       ELSE IF stage'[p] = "idle" THEN Quiet.d ELSE result[p]
      /\ age'[p] = IF p \in dout_sel THEN 0 ELSE IF age[p] < 2 THEN age[p] + 1 ELSE 2
  BY DEF Next, History
<1>3. /\ dout_sel' = IF state = READY THEN ram_req ELSE {}
      /\ dout_p'[p] = IF p \in dout_sel THEN dout ELSE dout_p[p]
      /\ state = READY /\ ram_req # {} => dout' \in DQ
      /\ ram_req_d2' = ram_req_d
  BY DEF Next, Pipeline
<1>4. SUFFICES ASSUME stage'[p] = "busy", p \notin ram_req'
               PROVE  /\ op'[p].we = {} => IF p \in dout_sel' THEN dout' = result'[p]
                                           ELSE dout_p'[p] = result'[p]
                      /\ p \notin dout_sel' => p \in ram_req_d2' \/ age'[p] >= 1
  BY DEF DataInv
<1>5. op'[p] = op[p]
  BY <1>4, ConsumerStep, <1>1
<1>6. CASE p \in ram_req
  <2>1. state = READY /\ p \in dout_sel'
    BY <1>3, <1>4, <1>6, EchoStep
  <2>2. op[p].we = {} => Reads /\ dout' = mem[a]
    BY <1>1, <1>3, <1>6, <2>1 DEF AccessInv, Reads, DQ
  <2> QED BY <1>2, <1>5, <1>6, <2>1, <2>2
<1>7. CASE p \notin ram_req
  <2>1. stage[p] = "busy" /\ p \notin dout_sel'
    BY <1>1, <1>3, <1>4, <1>7, ConsumerStep DEF NoticeInv, Busy
  <2>2. op[p].we = {} => dout_p'[p] = result'[p]
    BY <1>1, <1>2, <1>3, <1>4, <1>7, <2>1 DEF DataInv
  <2>3. p \in ram_req_d2' \/ age'[p] >= 1
    BY <1>1, <1>2, <1>3, <1>7, <2>1 DEF DataInv, ServiceInv
  <2> QED BY <1>5, <2>1, <2>2, <2>3
<1> QED BY <1>6, <1>7

LEMMA InvStep == IInv /\ [Next]_vars => IInv'
<1> SUFFICES ASSUME IInv, [Next]_vars PROVE IInv'
    OBVIOUS
<1>1. CASE UNCHANGED vars
  BY <1>1 DEF IInv, TypeOK, ServiceInv, NoticeInv, OldInv, AccessInv, DataInv, Busy, rd, wr,
              vars, powerup, manager, pipeline, consumers, history
<1>2. CASE Next
  <2>1. TypeOK'
    BY <1>2, TypeStep DEF IInv
  <2> QED BY <1>2, <2>1, ServiceInvStep, NoticeStep, OldStep, AccessStep, DataStep DEF IInv
<1> QED BY <1>1, <1>2

LEMMA InvAlways == Spec => []IInv
  BY InvInit, InvStep, PTL DEF Spec

(* Every operation a consumer finishes has reached the chip exactly once,  *)
(* for any number of ports (sdram.sv:158-159, 171-230).                    *)
THEOREM OnceEach == Spec => []ExactlyOnce
<1>1. IInv => ExactlyOnce
  BY DEF IInv, ExactlyOnce, AccessInv, MayFinish, Busy
<1> QED BY <1>1, InvAlways, PTL

(* The word sampled as busy falls is the sampler's own, and was still for  *)
(* two cycles (sdram.sv:128, 142, 232-249).                                *)
THEOREM SampledWord == Spec => []SampleCorrect
<1>1. IInv => SampleCorrect
  <2> SUFFICES ASSUME IInv, NEW p \in Ports, MayFinish(p), op[p].we = {}
               PROVE  dout_p[p] = result[p] /\ age[p] >= 1
    BY DEF SampleCorrect
  <2>1. p \notin dout_sel
    BY DEF IInv, ServiceInv, MayFinish, Busy
  <2> QED BY <2>1 DEF IInv, DataInv, MayFinish, Busy
<1> QED BY <1>1, InvAlways, PTL

-----------------------------------------------------------------------------
(* Nobody waits for a refresh longer than until the timer has run out and  *)
(* the access begun by then is over.  (A refresh is about to be sent where *)
(* START serves no port.)                                                  *)
Begun == IF state = IDLE THEN LAST ELSE state - 1
RefreshInv ==
  /\ RefreshBound
  /\ mode = "normal" /\ ~(state = START /\ ram_req = {}) =>
       /\ rfs_timer # 0 => since <= RfsCnt - rfs_timer
       /\ rfs_timer = 0 => since <= RfsCnt + Begun

LEMMA RefreshInit == Init => RefreshInv
  BY RfsAssumption DEF Init, RefreshInv, RefreshBound, Begun, IDLE, START, READY, LAST

(* Both bounds leave room for a refresh just sent.                         *)
LEMMA Room ==
  /\ \A t \in 0 .. RfsCnt : 0 <= RfsCnt - t
  /\ \A b \in 0 .. 6 : 0 <= RfsCnt + b
  /\ 0 <= RfsCnt + LAST + 1
  BY RfsAssumption DEF LAST, READY

LEMMA RefreshStep ==
  ASSUME IInv, RefreshInv, Next
  PROVE  RefreshInv'
<1> USE RfsAssumption DEF IDLE, START, CONT, READY, LAST
<1>1. /\ state \in 0 .. 6 /\ rfs_timer \in 0 .. RfsCnt /\ since \in Nat
      /\ state' \in 0 .. 6 /\ rfs_timer' \in 0 .. RfsCnt /\ since' \in Nat
      /\ (state = IDLE => ram_req = {})
  <2>1. TypeOK' /\ TypeOK /\ ServiceInv
    BY TypeStep DEF IInv
  <2> QED BY <2>1 DEF TypeOK, ServiceInv, SinceMax
<1>2. since' = IF mode # "normal" \/ Refreshes THEN 0
               ELSE IF since < SinceMax THEN since + 1 ELSE since
  BY DEF Next, History
<1>3. CASE since' = 0
  <2>1. Begun' \in 0 .. 6
    BY <1>1 DEF Begun
  <2>2. 0 <= RfsCnt - rfs_timer' /\ 0 <= RfsCnt + Begun' /\ 0 <= RfsCnt + LAST + 1
    BY <1>1, <2>1, Room
  <2>3. RefreshBound'
    BY <1>3, <2>2 DEF RefreshBound
  <2> QED BY <1>3, <2>2, <2>3 DEF RefreshInv
<1>4. CASE since' # 0
  <2>1. mode = "normal" /\ ~Refreshes /\ since' <= since + 1
    BY <1>1, <1>2, <1>4 DEF SinceMax
  <2>2. /\ rfs_timer # 0 => since <= RfsCnt - rfs_timer
        /\ rfs_timer = 0 => since <= RfsCnt + Begun
    BY <2>1 DEF RefreshInv, Refreshes
  <2>3. CASE Refresh
    BY <1>1, <2>1, <2>2, <2>3 DEF Refresh, RefreshDue, RefreshInv, RefreshBound, Begun
  <2>4. CASE \E p \in Ports : Accept(p)
    BY <1>1, <2>1, <2>2, <2>4 DEF Accept, RefreshDue, CountRefresh, RefreshInv, RefreshBound, Begun
  <2>5. CASE Rest
    BY <1>1, <2>1, <2>2, <2>5 DEF Rest, RefreshDue, CountRefresh, RefreshInv, RefreshBound, Begun
  <2>6. CASE Cycle
    BY <1>1, <2>1, <2>2, <2>6 DEF Cycle, Advance, CountRefresh, RefreshInv, RefreshBound, Begun
  <2> QED BY <2>3, <2>4, <2>5, <2>6 DEF Next, Manager
<1> QED BY <1>3, <1>4

(* Saturated ports cannot put a refresh off by more than one access,       *)
(* whatever the interval and however many ports (sdram.sv:163).            *)
THEOREM RefreshInTime == Spec => []RefreshBound
<1>1. RefreshInv /\ IInv /\ [Next]_vars => RefreshInv'
  <2>1. RefreshInv /\ UNCHANGED vars => RefreshInv'
    BY DEF RefreshInv, RefreshBound, Begun, vars, powerup, manager, history
  <2> QED BY <2>1, RefreshStep
<1>2. RefreshInv => RefreshBound
  BY DEF RefreshInv
<1> QED BY <1>1, <1>2, RefreshInit, InvAlways, PTL DEF Spec

-----------------------------------------------------------------------------
(* What a port shows of its answer is the word its read found, busy or not. *)
LEMMA Shown ==
  ASSUME IInv, NEW p \in Ports, stage[p] # "idle", done[p] # 0, op[p].we = {}, ~Busy(p)
  PROVE  dout_p[p] = result[p]
<1>1. stage[p] = "busy" /\ p \notin ram_req /\ p \notin dout_sel
  BY DEF IInv, TypeOK, AccessInv, ServiceInv, Busy
<1> QED BY <1>1 DEF IInv, DataInv

(* The access that reaches the chip is that of the port in service, ...    *)
Reaching(p) == p \in ram_req /\ (Writes \/ Reads)

LEMMA OneReaches ==
  ASSUME IInv, Next
  PROVE  \/ mem' = mem /\ \A p \in Ports : ~Reaching(p)
         \/ \E p \in Ports : Reaching(p) /\ \A q \in Ports \ {p} : ~Reaching(q)
<1>1. CASE ram_req = {}
  BY <1>1 DEF Next, Chip, Reaching, Writes
<1>2. CASE ~(Writes \/ Reads)
  BY <1>2 DEF Next, Chip, Reaching
<1>3. CASE ram_req # {} /\ (Writes \/ Reads)
  BY <1>3 DEF IInv, ServiceInv, Reaching
<1> QED BY <1>1, <1>2, <1>3

(* ... whose consumer waits for it; it takes effect now.                   *)
LEMMA Commits ==
  ASSUME IInv, Next, NEW p \in Ports, Reaching(p)
  PROVE  Memory!Commit(p)
<1> USE DEF IDLE, START, CONT, READY, LAST
<1>1. /\ IInv' /\ TypeOK /\ ServiceInv /\ NoticeInv(p) /\ AccessInv(p)
  BY InvStep DEF IInv
<1>2. done[p] = 0 /\ we = op[p].we /\ a = op[p].a /\ data = op[p].d
  BY <1>1 DEF AccessInv, Reaching, Writes, Reads
<1>3. stage[p] # "idle" /\ stage'[p] # "idle" /\ op'[p] = op[p]
  BY <1>1, ConsumerStep DEF NoticeInv, Busy, MayFinish, Reaching
<1>4. done'[p] = 1 /\ (Reads => result'[p] = mem[a])
  BY <1>2, <1>3 DEF Next, History, Reaching
<1>5. Reads => Busy(p)'
  BY EchoStep DEF Reaching
<1>6. mem' = IF op[p].we = {} THEN mem ELSE [mem EXCEPT ![op[p].a] = Memory!Merge(@, op[p])]
  BY <1>2 DEF Next, Chip, Writes, Reads, Reaching, Memory!Merge
<1>7. op[p].we = {} => Reads
  BY <1>2 DEF Reaching, Writes
<1> QED BY <1>2, <1>3, <1>4, <1>5, <1>6, <1>7 DEF Memory!Commit

(* Any other consumer asks, is done, or stays where it is.                 *)
LEMMA Others ==
  ASSUME IInv, Next, NEW p \in Ports, ~Reaching(p)
  PROVE  Memory!Ask(p) \/ Memory!Finish(p) \/ Memory!Stay(p)
<1>1. IInv' /\ TypeOK /\ TypeOK' /\ AccessInv(p) /\ NoticeInv(p)
  BY InvStep DEF IInv
<1>2. /\ done'[p] = IF stage[p] = "idle" /\ stage'[p] = "wait" THEN 0 ELSE done[p]
      /\ result'[p] = IF stage'[p] = "idle" THEN Quiet.d ELSE result[p]
  BY DEF Next, History, Reaching
<1>3. CASE stage[p] = "idle" /\ stage'[p] = "wait"
  <2>1. op'[p] \in Memory!Op
    BY <1>1 DEF TypeOK, Op, Word, Memory!Op, Memory!Word
  <2> QED BY <1>2, <1>3, <2>1 DEF Memory!Ask
<1>4. CASE MayFinish(p) /\ stage'[p] = "idle"
  <2>1. stage[p] = "busy" /\ done[p] = 1
    BY <1>1, <1>4 DEF MayFinish, AccessInv, Busy
  <2> QED BY <1>4, <2>1 DEF Memory!Finish
<1>5. CASE stage[p] = "idle" /\ stage'[p] = "idle"
  BY <1>5 DEF Memory!Stay
<1>6. CASE stage[p] # "idle" /\ stage'[p] # "idle" /\ op'[p] = op[p]
  <2>1. done'[p] = done[p] /\ result'[p] = result[p]
    BY <1>2, <1>6
  <2>2. done[p] # 0 /\ op[p].we = {} /\ ~Busy(p) => dout_p[p] = result[p]
    BY <1>6, Shown
  <2>3. done'[p] # 0 /\ op'[p].we = {} /\ ~Busy(p)' => dout_p'[p] = result'[p]
    BY <1>1, <1>6 DEF IInv, TypeOK, AccessInv, ServiceInv, DataInv, Busy
  <2> QED BY <1>6, <2>1, <2>2, <2>3 DEF Memory!Stay
<1> QED BY <1>1, <1>3, <1>4, <1>5, <1>6, ConsumerStep DEF TypeOK

LEMMA MemoryInit == Init => Memory!Init
<1> SUFFICES ASSUME Init PROVE Memory!Init
    OBVIOUS
<1>1. Quiet \in Memory!Op
  BY ConstantTypes DEF Op, Word, Memory!Op, Memory!Word
<1> QED BY <1>1 DEF Init, Memory!Init, Word, Memory!Word

LEMMA MemoryStep == IInv /\ [Next]_vars => [Memory!Next]_(Memory!vars)
<1> SUFFICES ASSUME IInv, [Next]_vars PROVE [Memory!Next]_(Memory!vars)
    OBVIOUS
<1>1. CASE UNCHANGED vars
  BY <1>1 DEF vars, manager, pipeline, consumers, history, Memory!vars, Busy
<1>2. CASE Next
  <2>1. DOMAIN op' = Ports
    BY <1>2, TypeStep DEF IInv, TypeOK
  <2>2. CASE mem' = mem /\ \A p \in Ports : ~Reaching(p)
    <3>1. \A p \in Ports : Memory!Ask(p) \/ Memory!Finish(p) \/ Memory!Stay(p)
      BY <1>2, <2>2, Others
    <3> QED BY <2>1, <2>2, <3>1 DEF Memory!Next
  <2>3. ASSUME NEW p \in Ports, Reaching(p), \A q \in Ports \ {p} : ~Reaching(q)
        PROVE  Memory!Next
    <3>1. Memory!Commit(p)
      BY <1>2, <2>3, Commits
    <3>2. \A q \in Ports \ {p} : Memory!Ask(q) \/ Memory!Finish(q) \/ Memory!Stay(q)
      BY <1>2, <2>3, Others
    <3> QED BY <2>1, <3>1, <3>2 DEF Memory!Next
  <2> QED BY <1>2, <2>2, <2>3, OneReaches
<1> QED BY <1>1, <1>2

(* The controller is a multi-port memory: each operation takes effect once *)
(* between its asking and its finishing, and a read finishes with the word *)
(* it found there, for any number of ports (sdram.sv:113-249).             *)
THEOREM Implements == Spec => IsPortMemory
<1> QED BY MemoryInit, MemoryStep, InvAlways, PTL DEF Spec, IsPortMemory, Memory!Spec

-----------------------------------------------------------------------------
(* The controller seen from one of its ports: the accesses of the others   *)
(* are left out, and only their time is left of them.                      *)
Seen(p) == INSTANCE OnePort WITH
  rd <- p \in rd, wr <- p \in wr, line <- op[p],
  sc <- IF p \in ram_req THEN state ELSE 0,
  sd <- p \in ram_req_d, sd2 <- p \in ram_req_d2, ssel <- p \in dout_sel,
  sold <- [rd |-> p \in old_rd, wr |-> p \in old_wr],
  sa <- IF p \in ram_req THEN [a |-> a, d |-> data, we |-> we] ELSE Quiet,
  sdout <- IF p \in dout_sel THEN dout ELSE Quiet.d,
  sp <- dout_p[p]

(* Every port is what PrgPort takes port 2 for, on every edge: when its    *)
(* access begins it runs its course whatever the others and the refresh    *)
(* do, and an access of another port shows nothing but its time.           *)
PortsAsSeen == [][\A p \in Ports : Seen(p)!Step]_vars

LEMMA SeenInit ==
  ASSUME Init, NEW p \in Ports
  PROVE  Seen(p)!Init
<1>1. p \notin ram_req /\ (p \in ram_req_d) = FALSE /\ (p \in ram_req_d2) = FALSE /\ (p \in dout_sel) = FALSE
  BY DEF Init
<1>2. (p \in old_rd) = FALSE /\ (p \in old_wr) = FALSE /\ dout_p[p] = Quiet.d
  BY DEF Init
<1> QED BY <1>1, <1>2 DEF Seen!Init

(* Its strobes are remembered on every edge, and taken when it is served.  *)
LEMMA SeenStrobes ==
  ASSUME IInv, Manager, NEW p \in Ports
  PROVE  \/ /\ Accept(p)
            /\ (p \in old_rd') = (p \in rd) /\ (p \in old_wr') = (p \in wr)
         \/ /\ \/ UNCHANGED ram_req /\ (p \in ram_req => UNCHANGED <<we, a, data>>)
               \/ \E q \in Ports \ {p} : ram_req' = {q} /\ state = IDLE
               \/ ram_req' = {} /\ state = READY
            /\ (p \in old_rd') = (p \in old_rd /\ p \in rd)
            /\ (p \in old_wr') = (p \in old_wr /\ p \in wr)
<1>1. CASE Refresh
  BY <1>1 DEF Refresh, KeepOld, IInv, ServiceInv
<1>2. ASSUME NEW q \in Ports, Accept(q)
      PROVE  \/ /\ Accept(p)
                /\ (p \in old_rd') = (p \in rd) /\ (p \in old_wr') = (p \in wr)
             \/ /\ \E r \in Ports \ {p} : ram_req' = {r} /\ state = IDLE
                /\ (p \in old_rd') = (p \in old_rd /\ p \in rd)
                /\ (p \in old_wr') = (p \in old_wr /\ p \in wr)
  BY <1>2 DEF Accept, Taken
<1>3. CASE Rest
  BY <1>3 DEF Rest, KeepOld
<1>4. CASE Cycle
  BY <1>4 DEF Cycle, KeepOld
<1> QED BY <1>1, <1>2, <1>3, <1>4 DEF Manager

LEMMA SeenStep ==
  ASSUME IInv, Next, NEW p \in Ports
  PROVE  Seen(p)!Step
<1> USE DEF IDLE, START, CONT, READY, LAST
<1>1. /\ state \in 0 .. 6 /\ (p \in ram_req => state # 0 /\ mode = "normal" /\ ram_req = {p})
      /\ (state = 0 => ram_req = {})
  BY DEF IInv, TypeOK, ServiceInv
<1>2. Manager /\ Pipeline /\ Chip
  BY DEF Next
<1>3. Seen(p)!Accept \/ Seen(p)!Other
  <2>1. CASE /\ Accept(p)
             /\ (p \in old_rd') = (p \in rd) /\ (p \in old_wr') = (p \in wr)
    <3>1. p \notin ram_req /\ state = 0 /\ p \in ram_req' /\ state' = 1
      BY <1>1, <2>1 DEF Accept
    <3>2. (p \in rd /\ ~(p \in old_rd)) \/ (p \in wr /\ ~(p \in old_wr))
      BY <2>1 DEF Accept, Wins, Pending
    <3>3. [a |-> a', d |-> data', we |-> we'] = op[p]
      <4>1. a' = op[p].a /\ data' = op[p].d /\ we' = op[p].we
        BY <2>1, <3>2 DEF Accept, rd, wr
      <4>2. op[p] = [a |-> op[p].a, d |-> op[p].d, we |-> op[p].we]
        BY DEF IInv, TypeOK, Op
      <4> QED BY <4>1, <4>2
    <3> QED BY <2>1, <3>1, <3>2, <3>3 DEF Seen!Accept, Seen!Pending
  <2>2. CASE /\ \/ UNCHANGED ram_req /\ (p \in ram_req => UNCHANGED <<we, a, data>>)
                \/ \E q \in Ports \ {p} : ram_req' = {q} /\ state = IDLE
                \/ ram_req' = {} /\ state = READY
             /\ (p \in old_rd') = (p \in old_rd /\ p \in rd)
             /\ (p \in old_wr') = (p \in old_wr /\ p \in wr)
    <3>1. CASE p \in ram_req /\ state # 6
      <4>1. p \in ram_req' /\ state' = state + 1 /\ UNCHANGED <<we, a, data>>
        BY <1>1, <1>2, <2>2, <3>1 DEF Manager, Refresh, Accept, Rest, Cycle, Advance
      <4> QED BY <1>1, <2>2, <3>1, <4>1 DEF Seen!Other
    <3>2. CASE p \in ram_req /\ state = 6
      <4>1. p \notin ram_req'
        BY <1>1, <1>2, <3>2 DEF Manager, Refresh, Accept, Rest, Cycle
      <4> QED BY <1>1, <2>2, <3>2, <4>1 DEF Seen!Other
    <3>3. CASE p \notin ram_req
      <4>1. p \notin ram_req'
        BY <2>2, <3>3
      <4> QED BY <1>1, <2>2, <3>3, <4>1 DEF Seen!Other
    <3> QED BY <3>1, <3>2, <3>3
  <2> QED BY <1>2, <2>1, <2>2, SeenStrobes
<1>4. /\ (p \in ram_req_d') = (p \in ram_req) /\ (p \in ram_req_d2') = (p \in ram_req_d)
      /\ (p \in dout_sel') = (p \in ram_req /\ state = 6)
  BY <1>2 DEF Pipeline
<1>5. p \in dout_sel' => dout' \in DQ
  BY <1>2, <1>4 DEF Pipeline
<1>6. dout_p'[p] = IF p \in dout_sel THEN dout ELSE dout_p[p]
  BY <1>2 DEF Pipeline
<1>7. p \in ram_req /\ state = 3 =>
        mem' = [mem EXCEPT ![a] = [l \in Lanes |-> IF l \in we THEN data[l] ELSE @[l]]]
  <2>1. CASE we # {}
    BY <1>1, <1>2, <2>1 DEF Chip, Writes
  <2>2. CASE we = {}
    <3>1. mem \in [Addr -> Word] /\ a \in Addr
      BY DEF IInv, TypeOK
    <3>2. mem[a] = [l \in Lanes |-> mem[a][l]]
      BY <3>1 DEF Word
    <3>3. mem = [mem EXCEPT ![a] = [l \in Lanes |-> mem[a][l]]]
      BY <3>1, <3>2
    <3> QED BY <1>2, <2>2, <3>3 DEF Chip, Writes
  <2> QED BY <2>1, <2>2
<1> QED BY <1>1, <1>3, <1>4, <1>5, <1>6, <1>7 DEF Seen!Step, DQ, Word

(* For any ports, contents and refresh interval each port is what PrgPort  *)
(* takes port 2 for, from power-up on, and its busy is the same            *)
(* (sdram.sv:154-261).                                                     *)
THEOREM AsSeen ==
  Spec => /\ \A p \in Ports : Seen(p)!Init
          /\ PortsAsSeen
          /\ [](\A p \in Ports : Seen(p)!Busy <=> Busy(p))
<1>1. Init => \A p \in Ports : Seen(p)!Init
  BY SeenInit
<1>2. IInv /\ [Next]_vars => [\A p \in Ports : Seen(p)!Step]_vars
  BY SeenStep
<1>3. IInv => \A p \in Ports : Seen(p)!Busy <=> Busy(p)
  BY DEF IInv, ServiceInv, Busy, Seen!Busy, IDLE
<1> QED BY <1>1, <1>2, <1>3, InvAlways, PTL DEF Spec, PortsAsSeen

-----------------------------------------------------------------------------
(* How long the port in front waits.  Edges until the controller next      *)
(* takes a request: the rest of the cycle, and one of refresh if the timer *)
(* has run out by then.                                                    *)
Front(p)  == \A q \in Ports \ {p} : ~Before(q, p)
CycleLeft == IF state = IDLE THEN 0 ELSE LAST + 1 - state
Delay     == CycleLeft + IF rfs_timer <= CycleLeft THEN LAST + 1 ELSE 0

(* A request of the port in front of the others, port 2 with prg_first and *)
(* the first port without, is counted down to, and taken.                  *)
TurnComes ==
  [][\A p \in Ports : mode = "normal" /\ Pending(p) /\ Front(p) =>
       IF Delay = 0 THEN Accept(p) ELSE Delay' = Delay - 1]_vars

LEMMA FrontWins ==
  ASSUME NEW p \in Ports, Pending(p), Front(p), PrgPort \in Nat
  PROVE  Wins(p) /\ \A q \in Ports : Wins(q) => q = p
<1>1. \A q \in Ports \ {p} : p \in Nat /\ q \in Nat /\ (p < q \/ q < p)
  BY PortsAssumption
<1> QED BY <1>1 DEF Front, Wins, Before

LEMMA TurnStep ==
  ASSUME IInv, Next, RfsCnt > LAST, PrgPort \in Nat,
         NEW p \in Ports, mode = "normal", Pending(p), Front(p)
  PROVE  IF Delay = 0 THEN Accept(p) ELSE Delay' = Delay - 1
<1> USE DEF IDLE, START, READY, LAST
<1>1. state \in 0 .. 6 /\ rfs_timer \in 0 .. RfsCnt /\ RfsCnt \in Nat
  BY RfsAssumption DEF IInv, TypeOK
<1>2. Manager
  BY DEF Next
<1>3. CASE Refresh
  BY <1>1, <1>3 DEF Refresh, RefreshDue, Delay, CycleLeft
<1>4. ASSUME NEW q \in Ports, Accept(q)
      PROVE  Delay = 0 /\ Accept(p)
  <2>1. q = p
    BY <1>4, FrontWins DEF Accept
  <2>2. state = 0 /\ rfs_timer # 0
    BY <1>4 DEF Accept, RefreshDue
  <2> QED BY <1>1, <1>4, <2>1, <2>2 DEF Delay, CycleLeft
<1>5. CASE Rest
  BY <1>5 DEF Rest
<1>6. CASE Cycle
  BY <1>1, <1>6 DEF Cycle, Advance, CountRefresh, Delay, CycleLeft
<1> QED BY <1>2, <1>3, <1>4, <1>5, <1>6 DEF Manager

(* Whatever the other ports ask for, the port in front is taken within 14  *)
(* edges of clk_ram, the access in service and a refresh included          *)
(* (sdram.sv:163-197); PRG-RAM's bound is this with prg_first on.          *)
THEOREM FrontInTime ==
  ASSUME RfsCnt > LAST, PrgPort \in Nat
  PROVE  Spec => TurnComes /\ [](Delay \in 0 .. 2 * LAST + 1)
<1>1. IInv /\ [Next]_vars =>
        [\A p \in Ports : mode = "normal" /\ Pending(p) /\ Front(p) =>
           IF Delay = 0 THEN Accept(p) ELSE Delay' = Delay - 1]_vars
  BY TurnStep
<1>2. IInv => Delay \in 0 .. 2 * LAST + 1
  <2>1. IInv => state \in 0 .. 6 /\ rfs_timer \in 0 .. RfsCnt /\ RfsCnt \in Nat
    BY RfsAssumption DEF IInv, TypeOK, IDLE, LAST, READY
  <2> QED BY <2>1 DEF Delay, CycleLeft, IDLE, LAST, READY
<1> QED BY <1>1, <1>2, InvAlways, PTL DEF Spec, TurnComes
=============================================================================
