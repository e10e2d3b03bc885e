------------------------------ MODULE S32xDdr -------------------------------
(***************************************************************************)
(* The 32X's memories in the HPS DDR3 (s32x_ddr.sv): the SH-2 work RAM     *)
(* behind a one-line cache, the frame buffers' draw port (a write FIFO and *)
(* a one-line read cache) and the display's line prefetch, on one bridge.  *)
(*                                                                         *)
(* Clock is one clk_sys.  A 64-bit beat holds one word here, so a cache     *)
(* line is two words.  The bridge is the Avalon port of the HPS: it stalls *)
(* at will, answers reads in order, after any delay, and serves commands   *)
(* in the order it took them.                                              *)
(***************************************************************************)
EXTENDS Integers, Sequences

CONSTANTS SdrWords, FbWords,          \* words of the work RAM and of a frame buffer
          Data,                       \* what a word can hold
          LpBeats,                    \* LP_BEATS, beats of a display line
          WfSize,                     \* entries of wfifo
          TelBeats,                   \* telemetry beats written at a time
          First,                      \* what the memories hold at first
          Workloads                   \* bound: how many requests of each kind a behaviour makes

ASSUME SizeAssumption ==
  /\ \A w \in {SdrWords, FbWords} : w \in Nat \ {0} /\ w % 2 = 0
  /\ LpBeats \in 1 .. FbWords /\ WfSize \in Nat /\ WfSize >= 4 /\ TelBeats \in Nat
ASSUME DataAssumption == Data \subseteq 0 .. FbWords - 1 /\ 0 \in Data /\ First \subseteq Data
ASSUME BoundAssumption ==
  Workloads \subseteq [accesses : Nat, draws : Nat, lines : Nat, tels : Nat, resets : Nat]

Banks  == {"fb0", "fb1"}
SdrAddr == {"sdr"} \X (0 .. SdrWords - 1)
FbAddr  == Banks \X (0 .. FbWords - 1)
Line(a) == <<a[1], a[2] \div 2>>
NoCmd   == [op |-> "none", a |-> <<"tel", 0>>, n |-> 0, d |-> 0]
NoLine  == <<"tel", 0>>                                            \* no table entry read yet
Blank   == [v |-> FALSE, a |-> <<"tel", 0>>, d |-> <<0, 0>>]      \* a line cache
Word(c, a)      == c.d[1 + (a[2] % 2)]
Hit(c, a)       == c.v /\ c.a = Line(a)
Updated(c, a, d) == IF Hit(c, a) THEN [c EXCEPT !.d[1 + (a[2] % 2)] = d] ELSE c

VARIABLES
  ce, bus, cycle, strobe, beats,                                \* the SH-2 and its bus
  old_strobe, sdr_rd_pend, sdr_wr_pend, sdr_a_q, sdr_d_q, sdr_cache,        \* sdr_*
  wfifo, ungranted, fbd_rd_pend, fbd_ra_q, fbd_rdy, fbd_cache,             \* fbd_*
  lp_pend, lp_fb_q, lp_line_q, lp_go, lp_go2, lp_beat, lp_left, lp_2nd,    \* lp_*
  lb_wa, lb_we, lb_wd, linebuf, tel_pend,
  state, kind, beat, cmd,                                       \* the request machine
  ram, pipe,                                                    \* the bridge
  rst,
  shadow, drawn, table, accesses, draws, lines, tels, resets    \* history, and what is left of the workload

sh2  == <<ce, bus, cycle, strobe, beats, accesses>>
sdr  == <<old_strobe, sdr_rd_pend, sdr_wr_pend, sdr_a_q, sdr_d_q, sdr_cache>>
fbd  == <<wfifo, ungranted, fbd_rd_pend, fbd_ra_q, fbd_rdy, fbd_cache>>
lp   == <<lp_pend, lp_fb_q, lp_line_q, lp_go, lp_go2, lp_beat, lp_left, lp_2nd,
          lb_wa, lb_we, lb_wd, linebuf, table>>
eng  == <<state, kind, beat, cmd>>
vars == <<sh2, sdr, fbd, lp, tel_pend, eng, ram, pipe, rst, shadow, drawn, draws, lines, tels, resets>>

-----------------------------------------------------------------------------
(* The SH-2's bus controller on a 16-bit SDRAM area: the strobe rises at a *)
(* CE_R; TRC ends at a CE_R that finds WAIT_N high; TD latches the word at *)
(* its CE_F.  Only the first beat of a burst has a TRC.                    *)
sdr_busy == sdr_rd_pend \/ sdr_wr_pend
sdr_rd == strobe /\ cycle.op = "rd"
sdr_wr == strobe /\ cycle.op = "wr"

ClockEnable ==           \* CE_R, CE_F or neither; F and R alternate, a clock may be skipped before F
  ce' \in CASE ce = "F" -> {"R"} [] ce = "R" -> {"F", "gap"} [] ce = "gap" -> {"F"}

SteppedIn(a) == IF a[2] % 2 = 1 THEN <<a[1], a[2] - 1>> ELSE <<a[1], a[2] + 1>>

Start ==
  /\ accesses > 0 /\ accesses' = accesses - 1
  /\ bus' = "TRC" /\ strobe' = TRUE
  /\ \/ \E a \in SdrAddr, n \in {0, 1} :
          /\ cycle' = [op |-> "rd", a |-> a, d |-> 0] /\ beats' = n /\ UNCHANGED shadow
     \/ \E a \in SdrAddr, d \in Data :
          /\ cycle' = [op |-> "wr", a |-> a, d |-> d] /\ beats' = 0
          /\ shadow' = [shadow EXCEPT ![a] = d]

NextBeat ==
  /\ beats > 0 /\ beats' = beats - 1 /\ strobe' = TRUE
  /\ cycle' = [cycle EXCEPT !.a = SteppedIn(@)] /\ UNCHANGED <<bus, accesses, shadow>>

Quiet == UNCHANGED <<bus, cycle, strobe, beats, accesses, shadow>>

Sh2 ==
  \/ rst /\ bus' = "T0" /\ strobe' = FALSE /\ beats' = 0 /\ UNCHANGED <<cycle, accesses>>
         /\ shadow' = [a \in SdrAddr |-> ram[a]]
  \/ /\ ~rst /\ ce = "R"
     /\ CASE bus = "T0"  -> Start \/ Quiet
          [] bus = "TRC" -> IF sdr_busy THEN Quiet
                            ELSE bus' = "TD" /\ UNCHANGED <<cycle, strobe, beats, accesses, shadow>>
          [] bus = "TD"  -> IF beats > 0 THEN NextBeat
                            ELSE \/ Start
                                 \/ bus' = "T0" /\ UNCHANGED <<cycle, strobe, beats, accesses, shadow>>
  \/ /\ ~rst /\ ce = "F" /\ bus = "TD"
     /\ strobe' = FALSE /\ UNCHANGED <<bus, cycle, beats, accesses, shadow>>
  \/ ~rst /\ (ce = "gap" \/ (ce = "F" /\ bus # "TD")) /\ Quiet

sdr_dout == Word(sdr_cache, IF sdr_rd THEN cycle.a ELSE sdr_a_q)

-----------------------------------------------------------------------------
(* What a clock accepts.  issue is the request the machine takes up.       *)
SdrRead  == sdr_rd /\ ~old_strobe /\ ~sdr_busy
SdrWrite == sdr_wr /\ ~old_strobe /\ ~sdr_busy

wf_full  == Len(wfifo) = WfSize - 1
fbd_busy_Late == Len(wfifo) >= WfSize - 1   \* no slot left for the write under way
fbd_busy == Len(wfifo) >= WfSize - 2

Pick_ReadsFirst ==                           \* a draw read overtakes the queued writes
  IF tel_pend > 0        THEN "tel"
  ELSE IF lp_pend        THEN "lp"
  ELSE IF sdr_wr_pend    THEN "sdr_wr"
  ELSE IF fbd_rd_pend    THEN "fbd_rd"
  ELSE IF wfifo # <<>>   THEN "wf"
  ELSE IF sdr_rd_pend    THEN "sdr_rd" ELSE "none"
Pick ==
  IF tel_pend > 0        THEN "tel"
  ELSE IF lp_pend        THEN "lp"
  ELSE IF wfifo # <<>>   THEN "wf"
  ELSE IF sdr_wr_pend    THEN "sdr_wr"
  ELSE IF fbd_rd_pend    THEN "fbd_rd"
  ELSE IF sdr_rd_pend    THEN "sdr_rd" ELSE "none"
Issue(busy) == IF rst \/ busy \/ state # "idle" THEN "none" ELSE Pick

(* The lines a clock can fill: beat k of the line that kind owns.          *)
Filled(c, owner, ready) ==
  IF ready /\ state = "rd_line" /\ kind = owner
  THEN [c EXCEPT !.d[IF beat THEN 2 ELSE 1] = pipe[1].d, !.v = beat] ELSE c
Taken(c, q) == [c EXCEPT !.a = Line(q), !.v = FALSE]
Ends(owner, ready) == ready /\ state = "rd_line" /\ kind = owner /\ beat

SdrPort(issue, ready) ==
  /\ old_strobe' = strobe
  /\ sdr_a_q' = IF SdrRead \/ SdrWrite THEN cycle.a ELSE sdr_a_q
  /\ sdr_d_q' = IF SdrWrite THEN cycle.d ELSE sdr_d_q
  /\ sdr_rd_pend' = /\ ~rst /\ ~Ends("sdr", ready)
                    /\ sdr_rd_pend \/ (SdrRead /\ ~Hit(sdr_cache, cycle.a))
  /\ sdr_wr_pend' = /\ ~rst /\ issue # "sdr_wr"
                    /\ sdr_wr_pend \/ SdrWrite
  /\ sdr_cache' =
       LET c == Filled(IF SdrWrite THEN Updated(sdr_cache, cycle.a, cycle.d) ELSE sdr_cache,
                       "sdr", ready)
       IN  CASE rst -> [c EXCEPT !.v = FALSE]
             [] ~rst /\ issue = "sdr_rd" -> Taken(c, sdr_a_q)
             [] OTHER -> c

(* The draw port in a clock in which the VDP makes the edge draw: none, a  *)
(* read or a write.                                                        *)
DrawPort(draw, issue, ready) ==
  LET read  == draw.op = "rd" /\ ~fbd_rd_pend
      write == draw.op = "wr" /\ ~wf_full
      put   == IF write THEN Append(wfifo, [a |-> draw.a, d |-> draw.d]) ELSE wfifo
      c     == Filled(IF write THEN Updated(fbd_cache, draw.a, draw.d) ELSE fbd_cache, "fbd", ready)
  IN  /\ wfifo' = (IF rst THEN <<>> ELSE IF issue = "wf" THEN Tail(put) ELSE put)
      /\ fbd_ra_q' = IF read THEN draw.a ELSE fbd_ra_q
      /\ fbd_rdy' = ((read /\ Hit(fbd_cache, draw.a)) \/ Ends("fbd", ready))
      /\ fbd_rd_pend' = /\ ~rst /\ ~Ends("fbd", ready)
                        /\ fbd_rd_pend \/ (read /\ ~Hit(fbd_cache, draw.a))
      /\ fbd_cache' = CASE rst -> [c EXCEPT !.v = FALSE]
                        [] ~rst /\ issue = "fbd_rd" -> Taken(c, fbd_ra_q)
                        [] OTHER -> c

fbd_dout == Word(fbd_cache, fbd_ra_q)

-----------------------------------------------------------------------------
(* The request machine, a disjunct per state; a beat that arrives and a    *)
(* command that is accepted are taken up in the same clock.                *)
Fetched(op, a, n, d) == cmd' = [op |-> op, a |-> a, n |-> n, d |-> d]
Accepted(busy) == cmd' = IF busy THEN cmd ELSE NoCmd
KeepsLine == UNCHANGED <<lp_go, lp_go2, lp_beat, lp_left, lp_2nd, table>>

InIdle(issue, busy) ==
  /\ state = "idle"
  /\ CASE issue = "none"   -> Accepted(busy) /\ UNCHANGED <<state, kind, beat>>
       [] issue = "tel"    -> Fetched("wr", <<"tel", 0>>, 1, 0)
                              /\ state' = "wr" /\ UNCHANGED <<kind, beat>>
       [] issue = "lp"     -> Fetched("rd", <<lp_fb_q, lp_line_q>>, 1, 0)
                              /\ state' = "lp_tab" /\ UNCHANGED <<kind, beat>>
       [] issue = "wf"     -> Fetched("wr", wfifo[1].a, 1, wfifo[1].d)
                              /\ state' = "wr" /\ UNCHANGED <<kind, beat>>
       [] issue = "sdr_wr" -> Fetched("wr", sdr_a_q, 1, sdr_d_q)
                              /\ state' = "wr" /\ UNCHANGED <<kind, beat>>
       [] issue = "fbd_rd" -> Fetched("rd", <<fbd_ra_q[1], 2 * (fbd_ra_q[2] \div 2)>>, 2, 0)
                              /\ state' = "rd_line" /\ kind' = "fbd" /\ beat' = FALSE
       [] issue = "sdr_rd" -> Fetched("rd", <<sdr_a_q[1], 2 * (sdr_a_q[2] \div 2)>>, 2, 0)
                              /\ state' = "rd_line" /\ kind' = "sdr" /\ beat' = FALSE
  /\ KeepsLine

InWr(busy) ==
  /\ state = "wr" /\ Accepted(busy)
  /\ state' = IF busy THEN "wr" ELSE "idle"
  /\ KeepsLine /\ UNCHANGED <<kind, beat>>

InRdLine(busy, ready) ==
  /\ state = "rd_line" /\ Accepted(busy)
  /\ beat' = (beat \/ ready)
  /\ state' = IF ready /\ beat THEN "idle" ELSE "rd_line"
  /\ KeepsLine /\ UNCHANGED kind

Room == FbWords - lp_beat                 \* lp_room, beats to the end of the buffer

(* The line's first burst: all of it, or what is left of the buffer.       *)
Burst_NoWrap ==                           \* reads on past the end of the buffer
  /\ Fetched("rd", <<lp_fb_q, lp_beat>>, LpBeats, 0) /\ lp_left' = LpBeats /\ lp_2nd' = 0
Burst_OneOver ==                          \* the second burst a beat too long
  LET n == IF Room >= LpBeats THEN LpBeats ELSE Room
  IN  /\ Fetched("rd", <<lp_fb_q, lp_beat>>, n, 0)
      /\ lp_left' = n /\ lp_2nd' = LpBeats - n + 1
Burst ==
  LET n == IF Room >= LpBeats THEN LpBeats ELSE Room
  IN  /\ Fetched("rd", <<lp_fb_q, lp_beat>>, n, 0)
      /\ lp_left' = n /\ lp_2nd' = LpBeats - n

InLpTab(busy, ready) ==
  /\ state = "lp_tab" /\ UNCHANGED <<kind, beat, lp_go2>>
  /\ IF ready THEN lp_beat' = pipe[1].d /\ table' = pipe[1].a ELSE UNCHANGED <<lp_beat, table>>
  /\ IF lp_go /\ ~busy
     THEN lp_go' = FALSE /\ Burst /\ state' = "lp_burst"
     ELSE lp_go' = (lp_go \/ ready) /\ Accepted(busy) /\ UNCHANGED <<lp_left, lp_2nd, state>>

InLpBurst_WhenFree(busy, ready) ==        \* the last beat is missed while the bridge stalls
  LET last == ready /\ lp_left = 1 /\ ~busy
  IN  /\ state = "lp_burst" /\ UNCHANGED <<kind, beat, lp_beat, lp_go, table>>
      /\ IF lp_go2 /\ ~busy
         THEN /\ lp_go2' = FALSE /\ Fetched("rd", <<lp_fb_q, 0>>, lp_2nd, 0)
              /\ lp_left' = lp_2nd /\ lp_2nd' = 0
         ELSE /\ lp_go2' = (lp_go2 \/ (last /\ lp_2nd # 0)) /\ Accepted(busy)
              /\ lp_left' = (IF ready THEN lp_left - 1 ELSE lp_left) /\ UNCHANGED lp_2nd
      /\ state' = IF last /\ lp_2nd = 0 THEN "idle" ELSE "lp_burst"
InLpBurst(busy, ready) ==
  LET last == ready /\ lp_left = 1
  IN  /\ state = "lp_burst" /\ UNCHANGED <<kind, beat, lp_beat, lp_go, table>>
      /\ IF lp_go2 /\ ~busy
         THEN /\ lp_go2' = FALSE /\ Fetched("rd", <<lp_fb_q, 0>>, lp_2nd, 0)
              /\ lp_left' = lp_2nd /\ lp_2nd' = 0
         ELSE /\ lp_go2' = (lp_go2 \/ (last /\ lp_2nd # 0)) /\ Accepted(busy)
              /\ lp_left' = (IF ready THEN lp_left - 1 ELSE lp_left) /\ UNCHANGED lp_2nd
      /\ state' = IF last /\ lp_2nd = 0 THEN "idle" ELSE "lp_burst"

EngineReset ==
  /\ state' = "idle" /\ cmd' = NoCmd /\ lp_go' = FALSE /\ lp_go2' = FALSE /\ table' = NoLine
  /\ UNCHANGED <<kind, beat, lp_beat, lp_left, lp_2nd>>

Engine(issue, busy, ready) ==
  \/ rst /\ EngineReset
  \/ /\ ~rst
     /\ InIdle(issue, busy) \/ InWr(busy) \/ InRdLine(busy, ready)
        \/ InLpTab(busy, ready) \/ InLpBurst(busy, ready)

(* The line buffer takes a beat the clock after it arrived.                *)
LineBuffer(ready) ==
  /\ lb_we' = (ready /\ state = "lp_burst")
  /\ lb_wd' = IF ready /\ state = "lp_burst" THEN pipe[1].a ELSE lb_wd
  /\ linebuf' = IF lb_we THEN [linebuf EXCEPT ![lb_wa] = lb_wd] ELSE linebuf
  /\ lb_wa' = IF ready /\ state = "lp_tab" THEN 0 ELSE IF lb_we THEN lb_wa + 1 ELSE lb_wa

(* The bridge takes the command the machine shows.  A beat carries its     *)
(* address beside its word.                                                *)
Stored(a) == IF a \in DOMAIN ram THEN ram[a] ELSE 0
Bridge(busy, ready) ==
  LET rest == IF ready THEN Tail(pipe) ELSE pipe
  IN  /\ pipe' = IF ~busy /\ cmd.op = "rd"
                 THEN rest \o [i \in 1 .. cmd.n |->
                         LET a == <<cmd.a[1], cmd.a[2] + i - 1>> IN [a |-> a, d |-> Stored(a)]]
                 ELSE rest
      /\ ram' = IF ~busy /\ cmd.op = "wr" THEN [a \in DOMAIN ram |-> IF a = cmd.a THEN cmd.d ELSE ram[a]]
                ELSE ram

-----------------------------------------------------------------------------
(* The draw port's user keeps two rules: it writes when fbd_busy was low   *)
(* in the clock before, and not while a read of its own is on its way.     *)
NoDraw == [op |-> "none"]
Draws ==
  {NoDraw} \cup
  (IF draws = 0 \/ rst \/ fbd_rd_pend THEN {}
   ELSE {[op |-> "rd", a |-> a] : a \in FbAddr} \cup
        IF ungranted THEN {} ELSE {[op |-> "wr", a |-> a, d |-> d] : a \in FbAddr, d \in Data})

DrawHistory(draw) ==
  /\ draws' = IF draw = NoDraw THEN draws ELSE draws - 1
  /\ ungranted' = fbd_busy
  /\ drawn' = CASE rst -> [a \in FbAddr |-> ram[a]]
                [] ~rst /\ draw.op = "wr" -> [drawn EXCEPT ![draw.a] = draw.d]
                [] OTHER -> drawn

(* The display asks for a line in HBLANK; a line has been fetched long     *)
(* before the next HBLANK.                                                 *)
Fetching == lp_pend \/ state \in {"lp_tab", "lp_burst"} \/ lb_we

LineRequest(issue) ==
  \/ /\ lines > 0 /\ ~Fetching /\ ~rst /\ lines' = lines - 1
     /\ lp_pend' = TRUE /\ lp_fb_q' \in Banks /\ lp_line_q' \in 0 .. FbWords - 1
  \/ /\ lp_pend' = (lp_pend /\ ~rst /\ issue # "lp") /\ UNCHANGED <<lp_fb_q, lp_line_q, lines>>

Telemetry(issue) ==
  \/ tels > 0 /\ tels' = tels - 1
     /\ tel_pend' = IF issue = "tel" THEN tel_pend - 1 ELSE TelBeats
  \/ UNCHANGED tels /\ tel_pend' = IF issue = "tel" THEN tel_pend - 1 ELSE tel_pend

(* Reset outlasts every read of the bridge.                                *)
Resetting ==
  \/ ~rst /\ resets > 0 /\ rst' = TRUE /\ resets' = resets - 1
  \/ rst /\ pipe = <<>> /\ cmd = NoCmd /\ rst' = FALSE /\ UNCHANGED resets
  \/ UNCHANGED <<rst, resets>>

Clock(draw, busy, ready) ==
  LET issue == Issue(busy)
  IN  /\ ready => pipe # <<>>
      /\ ClockEnable /\ Sh2 /\ SdrPort(issue, ready)
      /\ DrawPort(draw, issue, ready) /\ DrawHistory(draw)
      /\ LineRequest(issue) /\ Telemetry(issue)
      /\ Engine(issue, busy, ready) /\ LineBuffer(ready) /\ Bridge(busy, ready)
      /\ Resetting

Init ==
  /\ ce = "F" /\ bus = "T0" /\ cycle = [op |-> "rd", a |-> <<"sdr", 0>>, d |-> 0]
  /\ strobe = FALSE /\ beats = 0 /\ old_strobe = FALSE
  /\ sdr_rd_pend = FALSE /\ sdr_wr_pend = FALSE /\ sdr_a_q = <<"sdr", 0>> /\ sdr_d_q = 0
  /\ sdr_cache = Blank /\ fbd_cache = Blank
  /\ wfifo = <<>> /\ ungranted = FALSE /\ fbd_rd_pend = FALSE /\ fbd_ra_q = <<"fb0", 0>>
  /\ fbd_rdy = FALSE
  /\ lp_pend = FALSE /\ lp_fb_q = "fb0" /\ lp_line_q = 0 /\ lp_go = FALSE /\ lp_go2 = FALSE
  /\ lp_beat = 0 /\ lp_left = 0 /\ lp_2nd = 0
  /\ lb_wa = 0 /\ lb_we = FALSE /\ lb_wd = <<"tel", 0>>
  /\ linebuf = [i \in 0 .. LpBeats - 1 |-> <<"tel", 0>>]
  /\ tel_pend = 0 /\ state = "idle" /\ kind = "sdr" /\ beat = FALSE /\ cmd = NoCmd
  /\ \E v \in First : /\ ram = [a \in SdrAddr \cup FbAddr |-> v]
                       /\ shadow = [a \in SdrAddr |-> v] /\ drawn = [a \in FbAddr |-> v]
  /\ pipe = <<>> /\ rst = FALSE /\ table = NoLine
  /\ \E w \in Workloads : /\ accesses = w.accesses /\ draws = w.draws /\ lines = w.lines
                           /\ tels = w.tels /\ resets = w.resets

Next == \E draw \in Draws, busy, ready \in BOOLEAN : Clock(draw, busy, ready)

(* The clock runs and the bridge answers: a command shown is taken and a   *)
(* word read arrives.                                                      *)
Progress == \E draw \in Draws : Clock(draw, FALSE, pipe # <<>>)
Spec == Init /\ [][Next]_vars /\ WF_vars(Next) /\ SF_vars(Progress)

-----------------------------------------------------------------------------
TypeOK ==
  /\ ce \in {"F", "R", "gap"} /\ bus \in {"T0", "TRC", "TD"} /\ beats \in 0 .. 1
  /\ {strobe, old_strobe, sdr_rd_pend, sdr_wr_pend, fbd_rd_pend, fbd_rdy, lp_pend, lp_go, lp_go2,
      lb_we, beat, rst, ungranted} \subseteq BOOLEAN
  /\ sdr_a_q \in SdrAddr /\ sdr_d_q \in Data /\ fbd_ra_q \in FbAddr
  /\ wfifo \in Seq([a : FbAddr, d : Data]) /\ Len(wfifo) < WfSize
  /\ lp_fb_q \in Banks /\ lp_line_q \in 0 .. FbWords - 1 /\ lp_beat \in 0 .. FbWords - 1
  /\ {lp_left, lp_2nd, lb_wa} \subseteq 0 .. LpBeats /\ tel_pend \in 0 .. TelBeats
  /\ state \in {"idle", "wr", "rd_line", "lp_tab", "lp_burst"} /\ kind \in {"sdr", "fbd"}
  /\ ram \in [SdrAddr \cup FbAddr -> Data]

(* The word the SH-2 latches is the one last written there, on each beat   *)
(* of a burst and whether or not the cache held it; so is a word read back *)
(* through the draw port, the writes queued before the read in it.         *)
ReadsLatest ==
  ~rst => /\ bus = "TD" /\ ce = "F" /\ sdr_rd => sdr_dout = shadow[cycle.a]
          /\ fbd_rdy => fbd_dout = drawn[fbd_ra_q]

(* No write is dropped or overtaken: memory holds the last word written    *)
(* unless that is still on its way.                                        *)
Under(a) == \/ cmd.op = "wr" /\ cmd.a = a
            \/ \E i \in 1 .. Len(wfifo) : wfifo[i].a = a
            \/ (sdr_wr_pend \/ (sdr_wr /\ bus = "TRC" /\ ~old_strobe)) /\ cycle.a = a
WritesLand ==
  ~rst => /\ \A a \in SdrAddr : ~Under(a) => ram[a] = shadow[a]
          /\ \A a \in FbAddr  : ~Under(a) => ram[a] = drawn[a]

(* A fetched line is whole: all its beats from where its table entry, read *)
(* from the same buffer, says, in order, round the end of the buffer.  A   *)
(* fetch that reset cuts off leaves no line.                               *)
LineWhole ==
  ~Fetching /\ table # NoLine =>
     /\ table = <<lp_fb_q, lp_line_q>> /\ lb_wa = LpBeats
     /\ \A i \in 0 .. LpBeats - 1 : linebuf[i] = <<lp_fb_q, (lp_beat + i) % FbWords>>

(* The SH-2 is never kept waiting for good, and each line arrives.         *)
Served == /\ bus = "TRC" ~> bus # "TRC"
          /\ lp_pend ~> ~Fetching
=============================================================================
