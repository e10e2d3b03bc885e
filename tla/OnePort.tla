------------------------------ MODULE OnePort ------------------------------
(***************************************************************************)
(* One port of the SDRAM controller, core/rtl/sdram.sv, as its master sees *)
(* it: what Sdram is shown to do at each port, and what PrgPort is built   *)
(* on.  Of an access of another port nothing shows here but the time it    *)
(* takes, so an access of this one begins when the controller pleases; it  *)
(* then goes through states 1 to 6, and busy is up for two cycles more.    *)
(* One step is one edge of clk_ram.                                        *)
(***************************************************************************)
EXTENDS Integers

CONSTANTS Lanes, Byte,
          Quiet             \* stands for what is not this port's

VARIABLES
  rd, wr, line,             \* what the master drives: two strobes, address, data and lanes
  sc,                       \* the state of the access, 0 when this port has none
  sd, sd2, ssel,            \* the port's bits of ram_req_d, ram_req_d2, dout_sel
  sold,                     \* and of old_rd and old_wr
  sa,                       \* the access latched
  sdout, sp,                \* the word captured, the port's data register
  mem                       \* the contents of the chip

registers == <<sc, sd, sd2, ssel, sold, sa, sdout, sp>>

Pending == (rd /\ ~sold.rd) \/ (wr /\ ~sold.wr)
Busy    == sc # 0 \/ sd \/ sd2

Init ==
  /\ sc = 0 /\ sd = FALSE /\ sd2 = FALSE /\ ssel = FALSE
  /\ sold = [rd |-> FALSE, wr |-> FALSE]
  /\ sa = Quiet /\ sdout = Quiet.d /\ sp = Quiet.d

(* A risen strobe is taken, with what the lines carry, ...                 *)
Accept ==
  /\ sc = 0 /\ Pending
  /\ sc' = 1 /\ sa' = line /\ sold' = [rd |-> rd, wr |-> wr]

(* ... or has to wait; an access goes on.                                  *)
Other ==
  /\ sc' = (IF sc \in {0, 6} THEN 0 ELSE sc + 1)
  /\ sa' = (IF sc \in {0, 6} THEN Quiet ELSE sa)
  /\ sold' = [rd |-> sold.rd /\ rd, wr |-> sold.wr /\ wr]

(* A write lands in state 3.  The word is captured in state 6, noise after *)
(* a write, and is in the port's register a cycle later.                   *)
Step ==
  /\ Accept \/ Other
  /\ sd' = (sc # 0) /\ sd2' = sd /\ ssel' = (sc = 6)
  /\ sdout' \in IF sc # 6 THEN {Quiet.d} ELSE IF sa.we = {} THEN {mem[sa.a]} ELSE [Lanes -> Byte]
  /\ sp' = IF ssel THEN sdout ELSE sp
  /\ sc = 3 => mem' = [mem EXCEPT ![sa.a] = [l \in Lanes |-> IF l \in sa.we THEN sa.d[l] ELSE @[l]]]
=============================================================================
