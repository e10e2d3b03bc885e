---------------------------- MODULE S32xDdrProofs ----------------------------
(***************************************************************************)
(* The 32X's memories in DDR3 for every size of the memories, the line, the*)
(* queue and the workload, and every choice the bridge makes: the types,   *)
(* and that who reads sees what was last written, no write is lost and a   *)
(* fetched line is whole (S32xDdr's four invariants).                      *)
(*                                                                         *)
(* IInv is the inductive invariant.  Its first half, which a reset does    *)
(* not disturb, says that the request machine does one thing at a time and *)
(* that what the bridge holds is what remains of that thing.  Its second   *)
(* half says, of each word, where the value last written is: in the SH-2's *)
(* cycle, in the queue, in the command shown or in memory; and that a line *)
(* held agrees with it.                                                    *)
(***************************************************************************)
EXTENDS S32xDdr, SequenceTheorems, TLAPS

(* What the registers and the memory can hold.                             *)
Addresses == SdrAddr \cup FbAddr
LineAddr  == {Line(a) : a \in Addresses} \cup {<<"tel", 0>>}
Cache     == [v : BOOLEAN, a : LineAddr, d : [1 .. 2 -> Data]]
Shape ==
  /\ {strobe, old_strobe, sdr_rd_pend, sdr_wr_pend, fbd_rd_pend, fbd_rdy, lp_pend, lp_go, lp_go2,
      lb_we, beat, rst, ungranted} \subseteq BOOLEAN
  /\ ce \in {"F", "R", "gap"} /\ bus \in {"T0", "TRC", "TD"} /\ beats \in 0 .. 1
  /\ cycle \in [op : {"rd", "wr"}, a : SdrAddr, d : Data]
  /\ sdr_a_q \in SdrAddr /\ sdr_d_q \in Data /\ fbd_ra_q \in FbAddr
  /\ sdr_cache \in Cache /\ fbd_cache \in Cache
  /\ wfifo \in Seq([a : FbAddr, d : Data])
  /\ lp_fb_q \in Banks /\ lp_line_q \in 0 .. FbWords - 1 /\ lp_beat \in 0 .. FbWords - 1
  /\ {lp_left, lp_2nd} \subseteq 0 .. LpBeats
  /\ tel_pend \in 0 .. TelBeats /\ kind \in {"sdr", "fbd"}
  /\ cmd.op = "wr" => cmd.d \in Data
  /\ ram \in [Addresses -> Data]
  /\ shadow \in [SdrAddr -> Data] /\ drawn \in [FbAddr -> Data]
  /\ DOMAIN linebuf = 0 .. LpBeats - 1

(* A burst of n beats from word x of b, asked for or coming.               *)
Asks(b, x, n)  == cmd = [op |-> "rd", a |-> <<b, x>>, n |-> n, d |-> 0] /\ pipe = <<>>
Beats(b, x, n) == [i \in 1 .. n |-> [a |-> <<b, x + i - 1>>, d |-> Stored(<<b, x + i - 1>>)]]
Comes(b, x, n) == cmd = NoCmd /\ pipe = Beats(b, x, n)

Base(q) == <<q[1], 2 * (q[2] \div 2)>>
Other(q) == <<q[1], 2 * (q[2] \div 2) + 1>>
Owner == IF kind = "sdr" THEN sdr_a_q ELSE fbd_ra_q
(* How many beats of the line have arrived.                                *)
Got   == IF lb_we THEN lb_wa + 1 ELSE lb_wa
At(i) == <<lp_fb_q, (lp_beat + i) % FbWords>>

Resting == state = "idle" /\ cmd = NoCmd /\ ~lp_go /\ ~lp_go2
Writing == state = "wr" /\ cmd.op = "wr" /\ pipe = <<>> /\ ~lp_go /\ ~lp_go2
Filling ==
  /\ state = "rd_line" /\ ~lp_go /\ ~lp_go2
  /\ LET o == Owner x == 2 * (o[2] \div 2)
     IN  \/ ~beat /\ (Asks(o[1], x, 2) \/ Comes(o[1], x, 2))
         \/ beat /\ Comes(o[1], x + 1, 1)
Tabling ==
  /\ state = "lp_tab" /\ ~lp_pend /\ ~lp_go2
  /\ \/ ~lp_go /\ ~lb_we /\ (Asks(lp_fb_q, lp_line_q, 1) \/ Comes(lp_fb_q, lp_line_q, 1))
     \/ lp_go /\ ~lb_we /\ cmd = NoCmd /\ pipe = <<>>
        /\ table = <<lp_fb_q, lp_line_q>> /\ lb_wa = 0
(* Of the line's beats lp_left are to come of this burst, lp_2nd of the    *)
(* next.                                                                   *)
Bursting ==
  /\ state = "lp_burst" /\ ~lp_pend /\ ~lp_go /\ table = <<lp_fb_q, lp_line_q>>
  /\ lp_left \in Nat /\ lp_2nd \in Nat /\ lp_left + lp_2nd + Got = LpBeats
  /\ \/ lp_go2 /\ lp_left = 0 /\ lp_2nd > 0 /\ lp_beat + Got = FbWords /\ cmd = NoCmd /\ pipe = <<>>
     \/ /\ ~lp_go2 /\ lp_left > 0
        /\ \/ lp_beat + Got + lp_left <= FbWords /\ (lp_2nd > 0 => lp_beat + Got + lp_left = FbWords)
              /\ (Asks(lp_fb_q, lp_beat + Got, lp_left) \/ Comes(lp_fb_q, lp_beat + Got, lp_left))
           \/ lp_beat + Got >= FbWords /\ lp_2nd = 0
              /\ (Asks(lp_fb_q, lp_beat + Got - FbWords, lp_left) \/ Comes(lp_fb_q, lp_beat + Got - FbWords, lp_left))

(* The engine does one thing at a time, and what the bridge holds belongs  *)
(* to it; but for a reset, which waits for what the bridge still holds.    *)
EngineInv ==
  \/ Resting /\ (pipe = <<>> \/ rst)
  \/ Writing \/ Filling \/ Tabling \/ Bursting

LineInv ==
  /\ lb_wa \in 0 .. LpBeats /\ (lb_we => lb_wa < LpBeats /\ ~lp_pend)
  /\ table # NoLine /\ ~lp_pend /\ state # "lp_tab" =>
       /\ lb_we => lb_wd = At(lb_wa)
       /\ \A i \in 0 .. lb_wa - 1 : linebuf[i] = At(i)
       /\ state # "lp_burst" => table = <<lp_fb_q, lp_line_q>> /\ Got = LpBeats

(* The SH-2's cycle.                                                       *)
BusInv ==
  /\ bus \in {"T0", "TD"} /\ ce = "R" => ~strobe
  /\ bus = "T0" => ~strobe
  /\ bus = "TRC" => strobe
  /\ bus = "TRC" /\ ce = "R" => old_strobe
  /\ bus = "TD" /\ strobe /\ cycle.op = "wr" => old_strobe
  /\ beats > 0 => cycle.op = "rd"
  /\ ~(sdr_rd_pend /\ sdr_wr_pend)
  /\ sdr_busy => bus = "TRC" /\ old_strobe /\ sdr_a_q = cycle.a
  /\ sdr_wr_pend => cycle.op = "wr" /\ sdr_d_q = cycle.d
  /\ sdr_rd_pend => cycle.op = "rd"
(* A read that waits for nothing is of a line that is held.                *)
Held ==
  cycle.op = "rd" /\ (bus = "TD" \/ (bus = "TRC" /\ old_strobe /\ ~sdr_rd_pend))
    => Hit(sdr_cache, cycle.a)

Latest(a) == IF cmd.op = "wr" /\ cmd.a = a THEN cmd.d ELSE ram[a]
NewWrite  == sdr_wr /\ bus = "TRC" /\ ~old_strobe
SdrData ==
  \A a \in SdrAddr :
    shadow[a] = IF (sdr_wr_pend \/ NewWrite) /\ cycle.a = a THEN cycle.d ELSE Latest(a)
SdrCache ==
  sdr_cache.v => \A a \in SdrAddr :
    Line(a) = sdr_cache.a /\ ~(NewWrite /\ cycle.a = a) => Word(sdr_cache, a) = shadow[a]
SdrFill ==
  state = "rd_line" /\ kind = "sdr" =>
    /\ sdr_rd_pend /\ ~sdr_cache.v /\ sdr_cache.a = Line(sdr_a_q)
    /\ beat => sdr_cache.d[1] = ram[Base(sdr_a_q)]

(* The draw port.                                                          *)
Queue ==
  /\ Len(wfifo) < WfSize /\ (~ungranted => Len(wfifo) < WfSize - 1)
  /\ fbd_rd_pend => fbd_rdy = FALSE
(* What is queued last for a word is what was last drawn there; where      *)
(* nothing is queued, it is what memory holds or is about to.              *)
NoneAfter(q, a, i) == \A j \in i + 1 .. Len(q) : q[j].a # a
Agrees(q, mem, seen) ==
  \A a \in FbAddr :
    /\ \A i \in 1 .. Len(q) : q[i].a = a /\ NoneAfter(q, a, i) => q[i].d = seen[a]
    /\ NoneAfter(q, a, 0) => mem[a] = seen[a]
FbdData == Agrees(wfifo, [a \in FbAddr |-> Latest(a)], drawn)
FbdCache ==
  /\ fbd_cache.v => \A a \in FbAddr : Line(a) = fbd_cache.a => Word(fbd_cache, a) = drawn[a]
  /\ fbd_rdy => Hit(fbd_cache, fbd_ra_q)
FbdFill ==
  state = "rd_line" /\ kind = "fbd" =>
    /\ fbd_rd_pend /\ ~fbd_cache.v /\ fbd_cache.a = Line(fbd_ra_q) /\ wfifo = <<>>
    /\ beat => fbd_cache.d[1] = ram[Base(fbd_ra_q)]

IInv ==
  /\ Shape /\ EngineInv /\ LineInv /\ Queue
  /\ ~rst => /\ BusInv /\ Held /\ SdrData /\ SdrCache /\ SdrFill
             /\ FbdData /\ FbdCache /\ FbdFill

-----------------------------------------------------------------------------
(* Words, lines and beats.                                                 *)
LEMMA Halves ==
  ASSUME NEW x \in Nat
  PROVE  /\ x \div 2 \in Nat /\ x % 2 \in {0, 1}
         /\ x = 2 * (x \div 2) + (x % 2)
  OBVIOUS

LEMMA Pair ==
  ASSUME NEW w \in Nat \ {0}, w % 2 = 0, NEW x \in 0 .. w - 1
  PROVE  /\ 2 * (x \div 2) \in 0 .. w - 1 /\ 2 * (x \div 2) + 1 \in 0 .. w - 1
         /\ (2 * (x \div 2)) \div 2 = x \div 2 /\ (2 * (x \div 2) + 1) \div 2 = x \div 2
         /\ (2 * (x \div 2)) % 2 = 0 /\ (2 * (x \div 2) + 1) % 2 = 1
         /\ x = 2 * (x \div 2) + (x % 2) /\ x % 2 \in {0, 1}
  OBVIOUS

LEMMA Sizes ==
  /\ SdrWords \in Nat \ {0} /\ SdrWords % 2 = 0
  /\ FbWords \in Nat \ {0} /\ FbWords % 2 = 0
  /\ LpBeats \in Nat \ {0} /\ LpBeats <= FbWords
  BY SizeAssumption

LEMMA Address ==
  ASSUME NEW a \in Addresses
  PROVE  /\ a = <<a[1], a[2]>> /\ a[2] \in Nat
         /\ a[1] = "sdr" => a \in SdrAddr
         /\ a[1] # "sdr" => a \in FbAddr
         /\ a \in SdrAddr => a[1] = "sdr" /\ a[2] \in 0 .. SdrWords - 1
         /\ a \in FbAddr => a[1] \in Banks /\ a[2] \in 0 .. FbWords - 1
  BY SizeAssumption DEF Addresses, SdrAddr, FbAddr, Banks

(* The two words of a line.                                                *)
LEMMA TwoWords ==
  ASSUME NEW a \in Addresses
  PROVE  /\ a \in SdrAddr => Base(a) \in SdrAddr /\ Other(a) \in SdrAddr
         /\ a \in FbAddr => Base(a) \in FbAddr /\ Other(a) \in FbAddr
         /\ Line(Base(a)) = Line(a) /\ Line(Other(a)) = Line(a)
         /\ a[2] % 2 \in {0, 1}
         /\ a[2] % 2 = 0 => a = Base(a)
         /\ a[2] % 2 = 1 => a = Other(a)
<1> DEFINE h == a[2] \div 2
<1>1. PICK w \in Nat \ {0} :
        /\ w % 2 = 0 /\ a[2] \in 0 .. w - 1
        /\ a \in SdrAddr => w = SdrWords
        /\ a \in FbAddr => w = FbWords
  BY Address, Sizes DEF SdrAddr, FbAddr, Banks, Addresses
<1>2. /\ 2 * h \in 0 .. w - 1 /\ 2 * h + 1 \in 0 .. w - 1
      /\ (2 * h) \div 2 = h /\ (2 * h + 1) \div 2 = h
      /\ a[2] = 2 * h + (a[2] % 2) /\ a[2] % 2 \in {0, 1}
  BY <1>1, Pair
<1>3. a = <<a[1], a[2]>>
  BY Address
<1>4. Base(a) = <<a[1], 2 * h>> /\ Other(a) = <<a[1], 2 * h + 1>> /\ Line(a) = <<a[1], h>>
  BY DEF Base, Other, Line
<1> HIDE DEF h
<1>5. Line(Base(a)) = Line(a) /\ Line(Other(a)) = Line(a)
  BY <1>2, <1>4 DEF Line
<1>6. /\ a[2] % 2 = 0 => a = Base(a)
      /\ a[2] % 2 = 1 => a = Other(a)
  BY <1>1, <1>2, <1>3, <1>4
<1>7. a \in SdrAddr => Base(a) \in SdrAddr /\ Other(a) \in SdrAddr
  BY <1>1, <1>2, <1>4, Address DEF SdrAddr
<1>8. a \in FbAddr => Base(a) \in FbAddr /\ Other(a) \in FbAddr
  BY <1>1, <1>2, <1>4, Address DEF FbAddr
<1> QED BY <1>2, <1>5, <1>6, <1>7, <1>8

(* Of one line are a word and its pair.                                    *)
LEMMA SameLine ==
  ASSUME NEW a \in Addresses, NEW b \in Addresses, Line(a) = Line(b)
  PROVE  /\ Base(a) = Base(b) /\ Other(a) = Other(b)
         /\ a[2] % 2 = b[2] % 2 => a = b
         /\ b \in SdrAddr => a \in SdrAddr
         /\ b \in FbAddr => a \in FbAddr
<1>1. a[1] = b[1] /\ a[2] \div 2 = b[2] \div 2
  BY DEF Line
<1>2. Base(a) = Base(b) /\ Other(a) = Other(b)
  BY <1>1 DEF Base, Other
<1>3. a[2] % 2 = b[2] % 2 => a = b
  BY <1>2, TwoWords
<1>4. (a \in SdrAddr <=> a[1] = "sdr") /\ (b \in SdrAddr <=> b[1] = "sdr")
  BY Address
<1>5. (a \in FbAddr <=> a[1] # "sdr") /\ (b \in FbAddr <=> b[1] # "sdr")
  BY Address DEF Banks
<1> QED BY <1>1, <1>2, <1>3, <1>4, <1>5

LEMMA WordIs ==
  ASSUME NEW c \in Cache, NEW a \in Addresses
  PROVE  /\ Word(c, a) \in Data
         /\ Word(c, a) = IF a[2] % 2 = 0 THEN c.d[1] ELSE c.d[2]
         /\ Word(c, Base(a)) = c.d[1] /\ Word(c, Other(a)) = c.d[2]
<1>1. a[2] % 2 \in {0, 1} /\ a[2] \in Nat
  BY TwoWords, Address
<1>2. Base(a)[2] % 2 = 0 /\ Other(a)[2] % 2 = 1
  BY <1>1 DEF Base, Other
<1> QED BY <1>1, <1>2 DEF Word, Cache

(* A write updates its word of a line that is held, and no other.          *)
LEMMA UpdatedIs ==
  ASSUME NEW c \in Cache, NEW a \in Addresses, NEW d \in Data
  PROVE  /\ Updated(c, a, d) \in Cache
         /\ Updated(c, a, d).v = c.v /\ Updated(c, a, d).a = c.a
         /\ ~Hit(c, a) => Updated(c, a, d) = c
         /\ \A b \in Addresses :
              Hit(c, a) /\ Line(b) = Line(a) =>
                 Word(Updated(c, a, d), b) = IF b = a THEN d ELSE Word(c, b)
<1>1. a[2] % 2 \in {0, 1}
  BY TwoWords
<1>2. 1 + (a[2] % 2) \in 1 .. 2
  BY <1>1
<1>3. Updated(c, a, d) \in Cache /\ Updated(c, a, d).v = c.v /\ Updated(c, a, d).a = c.a
  BY <1>2 DEF Updated, Cache
<1>4. ~Hit(c, a) => Updated(c, a, d) = c
  BY DEF Updated
<1>5. ASSUME NEW b \in Addresses, Hit(c, a), Line(b) = Line(a)
      PROVE  Word(Updated(c, a, d), b) = IF b = a THEN d ELSE Word(c, b)
  <2>1. b[2] % 2 \in {0, 1} /\ (b[2] % 2 = a[2] % 2 => b = a)
    BY <1>5, TwoWords, SameLine
  <2> QED BY <1>1, <1>5, <2>1 DEF Updated, Word, Cache
<1> QED BY <1>3, <1>4, <1>5

(* A function on 1..n is a sequence.                                       *)
LEMMA FunctionSeq ==
  ASSUME NEW S, NEW n \in Nat, NEW f \in [1 .. n -> S]
  PROVE  f \in Seq(S) /\ Len(f) = n
  OBVIOUS

(* The front of a queue, and what is behind it.                            *)
LEMMA Front ==
  ASSUME NEW S, NEW q \in Seq(S), q # <<>>
  PROVE  /\ q[1] \in S /\ Len(q) \in Nat \ {0} /\ Tail(q) \in Seq(S)
         /\ Len(Tail(q)) = Len(q) - 1
         /\ \A i \in 1 .. Len(q) - 1 : Tail(q)[i] = q[i + 1]
  OBVIOUS

(* Beats come one after the other.                                         *)
LEMMA BeatsAre ==
  ASSUME NEW b, NEW x \in Int, NEW n \in Nat
  PROVE  /\ n = 0 => Beats(b, x, n) = <<>>
         /\ <<>> \o Beats(b, x, n) = Beats(b, x, n)
         /\ n > 0 => /\ Beats(b, x, n) # <<>>
                     /\ Beats(b, x, n)[1] = [a |-> <<b, x>>, d |-> Stored(<<b, x>>)]
                     /\ Tail(Beats(b, x, n)) = Beats(b, x + 1, n - 1)
<1> DEFINE F(i) == [a |-> <<b, x + i - 1>>, d |-> Stored(<<b, x + i - 1>>)]
           E == {F(i) : i \in Int}
           s == Beats(b, x, n)
<1>1. s \in Seq(E) /\ Len(s) = n /\ \A i \in 1 .. n : s[i] = F(i)
  <2>1. s = [i \in 1 .. n |-> F(i)]
    BY DEF Beats
  <2> HIDE DEF s, F
  <2>2. s \in [1 .. n -> E]
    BY <2>1
  <2> QED BY <2>1, <2>2, FunctionSeq
<1>2. n = 0 => s = <<>>
  BY <1>1
<1>3. <<>> \o s = s
  BY <1>1
<1>4. ASSUME n > 0
      PROVE  /\ s # <<>> /\ s[1] = [a |-> <<b, x>>, d |-> Stored(<<b, x>>)]
             /\ Tail(s) = Beats(b, x + 1, n - 1)
  <2>1. s # <<>> /\ s[1] = [a |-> <<b, x>>, d |-> Stored(<<b, x>>)]
    BY <1>1, <1>4
  <2> DEFINE t == Beats(b, x + 1, n - 1)
  <2>2. /\ Tail(s) \in Seq(E) /\ Len(Tail(s)) = n - 1
        /\ \A i \in 1 .. n - 1 : Tail(s)[i] = s[i + 1]
    BY <1>1, <2>1, HeadTailProperties
  <2>3. \A i \in 1 .. n - 1 : t[i] = F(i + 1)
    <3> SUFFICES ASSUME NEW i \in 1 .. n - 1 PROVE t[i] = F(i + 1)
      OBVIOUS
    <3>1. x + (i + 1) - 1 = (x + 1) + i - 1
      OBVIOUS
    <3> QED BY <3>1 DEF Beats
  <2>4. t \in Seq(E) /\ Len(t) = n - 1
    <3>1. t \in [1 .. n - 1 -> E] /\ n - 1 \in Nat
      <4>1. DOMAIN t = 1 .. n - 1 /\ t = [i \in 1 .. n - 1 |-> t[i]]
        BY DEF Beats
      <4> HIDE DEF t, F
      <4> QED BY <1>4, <2>3, <4>1
    <3> HIDE DEF t, E
    <3> QED BY <3>1, FunctionSeq
  <2>5. \A i \in 1 .. n - 1 : Tail(s)[i] = t[i]
    <3> HIDE DEF s, t, F
    <3>1. \A i \in 1 .. n - 1 : i + 1 \in 1 .. n
      BY <1>4
    <3> QED BY <1>1, <2>2, <2>3, <3>1
  <2> HIDE DEF s, t, E
  <2>6. Tail(s) = t
    BY <2>2, <2>4, <2>5, SeqEqual
  <2> QED BY <2>1, <2>6 DEF t
<1> QED BY <1>2, <1>3, <1>4

-----------------------------------------------------------------------------
(* The bridge.  It takes a read that is asked for, and then returns its    *)
(* beats one by one; meanwhile nothing is written.                         *)
LEMMA ComingStep ==
  ASSUME NEW b, NEW x \in Int, NEW n \in Nat, n > 0,
         NEW busy \in BOOLEAN, NEW ready \in BOOLEAN, ready => pipe # <<>>,
         Bridge(busy, ready), Accepted(busy), Asks(b, x, n) \/ Comes(b, x, n)
  PROVE  /\ ram' = ram
         /\ ~ready => (Asks(b, x, n) \/ Comes(b, x, n))'
         /\ ready => /\ pipe[1] = [a |-> <<b, x>>, d |-> Stored(<<b, x>>)]
                     /\ Comes(b, x, n) /\ Comes(b, x + 1, n - 1)'
                     /\ n = 1 => pipe' = <<>>
<1>1. ram' = ram
  BY DEF Bridge, Asks, Comes, NoCmd
<1>2. \A y \in Int, k \in Nat : Beats(b, y, k)' = Beats(b, y, k)
  BY <1>1 DEF Beats, Stored
<1>3. CASE Asks(b, x, n)
  <2>1. ~ready /\ pipe = <<>>
    BY <1>3 DEF Asks
  <2>2. CASE busy
    BY <1>3, <2>1, <2>2 DEF Bridge, Accepted, Asks
  <2>3. CASE ~busy
    <3>1. pipe' = <<>> \o Beats(b, x, n)
      BY <1>3, <2>1, <2>3 DEF Bridge, Asks, Beats
    <3>2. cmd' = NoCmd
      BY <2>3 DEF Accepted
    <3> QED BY <1>1, <1>2, <2>1, <3>1, <3>2, BeatsAre DEF Comes
  <2> QED BY <1>1, <2>1, <2>2, <2>3
<1>4. CASE Comes(b, x, n)
  <2>1. cmd' = NoCmd /\ pipe' = IF ready THEN Tail(pipe) ELSE pipe
    BY <1>4 DEF Bridge, Accepted, Comes, NoCmd
  <2>2. pipe = Beats(b, x, n)
    BY <1>4 DEF Comes
  <2>3. CASE ready
    <3>1. pipe[1] = [a |-> <<b, x>>, d |-> Stored(<<b, x>>)] /\ pipe' = Beats(b, x + 1, n - 1)
      BY <2>1, <2>2, <2>3, BeatsAre
    <3>2. pipe' = Beats(b, x + 1, n - 1)'
      BY <1>2, <3>1
    <3>3. n = 1 => pipe' = <<>>
      <4>1. x + 1 \in Int /\ n - 1 \in Nat /\ (n = 1 => n - 1 = 0)
        OBVIOUS
      <4> QED BY <3>1, <4>1, BeatsAre
    <3> QED BY <1>1, <1>4, <2>1, <2>3, <3>1, <3>2, <3>3 DEF Comes
  <2>4. CASE ~ready
    BY <1>1, <1>2, <2>1, <2>2, <2>4 DEF Comes
  <2> QED BY <2>3, <2>4
<1> QED BY <1>3, <1>4

(* While nothing is asked for and nothing is to come, nothing comes.       *)
LEMMA Still ==
  ASSUME NEW busy \in BOOLEAN, NEW ready \in BOOLEAN, ready => pipe # <<>>,
         Bridge(busy, ready), pipe = <<>>, cmd.op # "rd"
  PROVE  ~ready /\ pipe' = <<>>
  BY DEF Bridge

(* The place in a frame buffer of the beat i after y.                      *)
LEMMA Round ==
  ASSUME NEW y \in Nat, y < 2 * FbWords
  PROVE  y % FbWords = IF y < FbWords THEN y ELSE y - FbWords
<1>1. FbWords \in Nat \ {0}
  BY Sizes
<1>2. CASE y < FbWords
  BY <1>1, <1>2
<1>3. CASE y >= FbWords
  <2>1. PICK q \in Nat, r \in 0 .. FbWords - 1 : y = FbWords * q + r /\ y % FbWords = r
    <3>1. y = FbWords * (y \div FbWords) + (y % FbWords) /\ y % FbWords \in 0 .. FbWords - 1
          /\ y \div FbWords \in Nat
      BY <1>1
    <3> QED BY <3>1
  <2>2. q = 1
    <3>1. CASE q = 0
      BY <1>1, <1>3, <2>1, <3>1
    <3>2. CASE q >= 2
      <4>1. PICK d \in Nat : q = 2 + d
        BY <3>2
      <4>2. FbWords * q = 2 * FbWords + FbWords * d /\ FbWords * d \in Nat
        BY <1>1, <4>1
      <4> QED BY <1>1, <2>1, <4>2
    <3> QED BY <3>1, <3>2
  <2> QED BY <1>1, <1>3, <2>1, <2>2
<1> QED BY <1>1, <1>2, <1>3

(* What a clock makes of the line buffer, whatever it does besides.        *)
LEMMA BufferStep ==
  ASSUME NEW ready \in BOOLEAN, Shape, LineInv, LineBuffer(ready)
  PROVE  /\ lb_we' = (ready /\ state = "lp_burst")
         /\ lb_wa' = IF ready /\ state = "lp_tab" THEN 0 ELSE Got
         /\ Got \in 0 .. LpBeats
         /\ DOMAIN linebuf' = 0 .. LpBeats - 1
         /\ table # NoLine /\ ~lp_pend /\ state # "lp_tab" =>
              \A i \in 0 .. Got - 1 : linebuf'[i] = At(i)
<1>1. LpBeats \in Nat
  BY Sizes
<1>2. lb_wa' = IF ready /\ state = "lp_tab" THEN 0 ELSE Got
  BY DEF LineBuffer, Got
<1>3. Got \in 0 .. LpBeats
  BY <1>1 DEF LineInv, Got
<1>4. ASSUME table # NoLine, ~lp_pend, state # "lp_tab", NEW i \in 0 .. Got - 1
      PROVE  linebuf'[i] = At(i)
  <2>1. CASE lb_we /\ i = lb_wa
    BY <1>1, <1>4, <2>1 DEF LineInv, LineBuffer, Shape
  <2>2. CASE ~(lb_we /\ i = lb_wa)
    <3>1. linebuf'[i] = linebuf[i] /\ i \in 0 .. lb_wa - 1
      BY <1>1, <1>4, <2>2 DEF LineInv, LineBuffer, Got, Shape
    <3> QED BY <1>4, <3>1 DEF LineInv
  <2> QED BY <2>1, <2>2
<1> QED BY <1>2, <1>3, <1>4 DEF LineBuffer, Shape

-----------------------------------------------------------------------------
(* The engine: one lemma per state.                                        *)

(* What the lemmas share.  They speak of the request machine, of the line  *)
(* it fetches and of the bridge.                                           *)
Engaged(busy, ready) ==
  /\ busy \in BOOLEAN /\ ready \in BOOLEAN /\ (ready => pipe # <<>>)
  /\ Shape /\ EngineInv /\ LineInv
  /\ Bridge(busy, ready) /\ LineBuffer(ready) /\ LineRequest(Issue(busy))
  /\ Engine(Issue(busy), busy, ready) /\ Resetting

LEMMA ResetStep ==
  ASSUME NEW busy, NEW ready, Engaged(busy, ready), rst
  PROVE  EngineInv' /\ LineInv'
<1>1. Resting' /\ table' = NoLine
  BY DEF Engaged, Engine, EngineReset, Resting
<1>2. pipe' = <<>> \/ rst'
  <2>1. CASE pipe = <<>> /\ cmd = NoCmd
    BY <2>1, Still DEF Engaged, NoCmd
  <2>2. CASE rst'
    BY <2>2
  <2> QED BY <2>1, <2>2 DEF Engaged, Resetting
<1>3. lp_pend' = FALSE
  BY DEF Engaged, LineRequest
<1>4. lb_we' => lb_wa' < LpBeats
  <2>1. SUFFICES ASSUME ready, state = "lp_burst" PROVE Got < LpBeats
    BY BufferStep DEF Engaged
  <2>2. Bursting /\ pipe # <<>>
    BY <2>1 DEF Engaged, EngineInv, Resting, Writing, Filling, Tabling
  <2>3. lp_left \in Nat \ {0} /\ lp_2nd \in Nat /\ lp_left + lp_2nd + Got = LpBeats
    BY <2>2 DEF Bursting
  <2>4. Got \in Nat /\ LpBeats \in Nat
    BY BufferStep, Sizes DEF Engaged
  <2> QED BY <2>3, <2>4
<1>5. lb_wa' \in 0 .. LpBeats
  BY BufferStep, Sizes DEF Engaged
<1> QED BY <1>1, <1>2, <1>3, <1>4, <1>5 DEF EngineInv, LineInv

(* Nothing of a line while the machine is about something else.            *)
LEMMA LineKept ==
  ASSUME NEW busy, NEW ready, Engaged(busy, ready), ~rst, KeepsLine,
         state \notin {"lp_tab", "lp_burst"}, state' # "lp_burst",
         state' = "lp_tab" <=> Issue(busy) = "lp"
  PROVE  LineInv'
<1>1. lb_we' = FALSE /\ lb_wa' = Got /\ Got \in 0 .. LpBeats /\ Got' = Got
  BY BufferStep DEF Engaged, Got
<1>2. CASE lp_pend' \/ table = NoLine \/ state' = "lp_tab"
  BY <1>1, <1>2 DEF LineInv, KeepsLine
<1>3. CASE ~lp_pend' /\ table # NoLine /\ state' # "lp_tab"
  <2>1. ~lp_pend /\ UNCHANGED <<lp_fb_q, lp_line_q>>
    BY <1>3 DEF Engaged, LineRequest, Shape
  <2>2. \A i : At(i)' = At(i)
    BY <2>1 DEF At, KeepsLine
  <2>3. \A i \in 0 .. Got - 1 : linebuf'[i] = At(i)
    BY <1>3, <2>1, BufferStep DEF Engaged
  <2>4. table = <<lp_fb_q, lp_line_q>> /\ Got = LpBeats
    BY <1>3, <2>1 DEF Engaged, LineInv
  <2> QED BY <1>1, <2>1, <2>2, <2>3, <2>4 DEF LineInv, KeepsLine
<1> QED BY <1>2, <1>3

LEMMA WrStep ==
  ASSUME NEW busy, NEW ready, Engaged(busy, ready), ~rst, state = "wr"
  PROVE  EngineInv' /\ LineInv'
<1>1. InWr(busy)
  BY DEF Engaged, Engine, InIdle, InRdLine, InLpTab, InLpBurst
<1>2. Writing
  BY DEF Engaged, EngineInv, Resting, Filling, Tabling, Bursting
<1>3. ~ready /\ pipe' = <<>>
  BY <1>2, Still DEF Engaged, Writing
<1>4. EngineInv'
  BY <1>1, <1>2, <1>3 DEF InWr, KeepsLine, Accepted, Writing, Resting, EngineInv
<1>5. LineInv'
  <2>1. Issue(busy) = "none" /\ KeepsLine /\ state' \in {"wr", "idle"}
    BY <1>1 DEF Issue, InWr
  <2> QED BY <2>1, LineKept
<1> QED BY <1>4, <1>5

LEMMA RdLineStep ==
  ASSUME NEW busy, NEW ready, Engaged(busy, ready), ~rst, state = "rd_line",
         Owner' = Owner, Owner \in Addresses
  PROVE  /\ EngineInv' /\ LineInv' /\ ram' = ram
         /\ ready => pipe[1].d = IF beat THEN ram[Other(Owner)] ELSE ram[Base(Owner)]
<1> DEFINE x == 2 * (Owner[2] \div 2)
<1>1. InRdLine(busy, ready)
  BY DEF Engaged, Engine, InIdle, InWr, InLpTab, InLpBurst
<1>2. Filling
  BY DEF Engaged, EngineInv, Resting, Writing, Tabling, Bursting
<1>3. x \in Nat /\ x' = x
  BY Address, Halves
<1>4. Base(Owner) = <<Owner[1], x>> /\ Other(Owner) = <<Owner[1], x + 1>>
      /\ Base(Owner) \in DOMAIN ram /\ Other(Owner) \in DOMAIN ram
  BY TwoWords DEF Base, Other, Engaged, Shape, Addresses
<1> HIDE DEF x
<1>5. CASE ~beat
  <2>1. Asks(Owner[1], x, 2) \/ Comes(Owner[1], x, 2)
    BY <1>2, <1>5 DEF Filling, x
  <2>2. /\ ram' = ram
        /\ ~ready => (Asks(Owner[1], x, 2) \/ Comes(Owner[1], x, 2))'
        /\ ready => pipe[1] = [a |-> Base(Owner), d |-> Stored(Base(Owner))]
                    /\ Comes(Owner[1], x + 1, 1)'
    BY <1>1, <1>3, <1>4, <2>1, ComingStep DEF Engaged, InRdLine
  <2>3. Filling'
    BY <1>1, <1>2, <1>3, <1>5, <2>2 DEF Filling, InRdLine, KeepsLine, x
  <2> QED BY <1>1, <1>4, <1>5, <2>2, <2>3, LineKept DEF EngineInv, Stored, InRdLine, Issue
<1>6. CASE beat
  <2>1. Comes(Owner[1], x + 1, 1)
    BY <1>2, <1>6 DEF Filling, x
  <2>2. /\ ram' = ram
        /\ ~ready => (Asks(Owner[1], x + 1, 1) \/ Comes(Owner[1], x + 1, 1))'
        /\ ready => pipe[1] = [a |-> Other(Owner), d |-> Stored(Other(Owner))]
                    /\ pipe' = <<>>
    BY <1>1, <1>3, <1>4, <2>1, ComingStep DEF Engaged, InRdLine
  <2>3. cmd' = NoCmd
    BY <1>1, <2>1 DEF InRdLine, Accepted, Comes
  <2>4. CASE ~ready
    <3>1. Comes(Owner[1], x + 1, 1)'
      BY <2>2, <2>3, <2>4 DEF Asks, NoCmd
    <3>2. Filling'
      BY <1>1, <1>2, <1>3, <1>6, <2>4, <3>1 DEF Filling, InRdLine, KeepsLine, x
    <3> QED BY <1>1, <2>2, <2>4, <3>2, LineKept DEF EngineInv, InRdLine, Issue
  <2>5. CASE ready
    <3>1. Resting'
      BY <1>1, <1>2, <1>6, <2>3, <2>5 DEF InRdLine, Filling, Resting, KeepsLine
    <3>2. EngineInv'
      BY <2>2, <2>5, <3>1 DEF EngineInv
    <3>3. LineInv'
      BY <1>1, LineKept DEF InRdLine, Issue
    <3> QED BY <1>4, <1>6, <2>2, <2>5, <3>2, <3>3 DEF Stored
  <2> QED BY <2>4, <2>5
<1> QED BY <1>5, <1>6 DEF Engaged, Shape


(* A table entry names the line's first beat.                              *)
LEMMA LpTabStep ==
  ASSUME NEW busy, NEW ready, Engaged(busy, ready), ~rst, state = "lp_tab"
  PROVE  EngineInv' /\ LineInv' /\ (ready => pipe[1].d \in Data)
<1>1. InLpTab(busy, ready)
  BY DEF Engaged, Engine, InIdle, InWr, InRdLine, InLpBurst
<1>2. Tabling
  BY DEF Engaged, EngineInv, Resting, Writing, Filling, Bursting
<1>3. lp_pend' = FALSE /\ UNCHANGED <<lp_fb_q, lp_line_q>>
  BY <1>2 DEF Engaged, LineRequest, Fetching, Tabling
<1>4. lb_we' = FALSE /\ Got \in 0 .. LpBeats /\ lb_wa' = IF ready THEN 0 ELSE Got
  BY BufferStep DEF Engaged
<1>5. lp_fb_q \in Banks /\ lp_line_q \in 0 .. FbWords - 1 /\ <<lp_fb_q, lp_line_q>> \in DOMAIN ram
      /\ lp_line_q \in Int /\ ram[<<lp_fb_q, lp_line_q>>] \in Data
  BY DEF Engaged, Shape, Addresses, FbAddr
<1>6. CASE ~lp_go
  <2>1. Asks(lp_fb_q, lp_line_q, 1) \/ Comes(lp_fb_q, lp_line_q, 1)
    BY <1>2, <1>6 DEF Tabling
  <2>2. Accepted(busy) /\ state' = "lp_tab" /\ (lp_go' <=> ready)
    BY <1>1, <1>6 DEF InLpTab
  <2>3. /\ ~ready => (Asks(lp_fb_q, lp_line_q, 1) \/ Comes(lp_fb_q, lp_line_q, 1))'
        /\ ready => pipe[1] = [a |-> <<lp_fb_q, lp_line_q>>, d |-> Stored(<<lp_fb_q, lp_line_q>>)]
                    /\ pipe' = <<>> /\ Comes(lp_fb_q, lp_line_q, 1)
    BY <1>3, <1>5, <2>1, <2>2, ComingStep DEF Engaged
  <2>4. CASE ~ready
    <3>1. Tabling'
      BY <1>1, <1>2, <1>3, <1>4, <2>2, <2>3, <2>4 DEF Tabling, InLpTab
    <3> QED BY <1>4, <2>2, <2>4, <3>1 DEF EngineInv, LineInv
  <2>5. CASE ready
    <3>1. cmd' = NoCmd
      BY <2>2, <2>3, <2>5 DEF Accepted, Comes
    <3>2. table' = <<lp_fb_q, lp_line_q>>
      BY <1>1, <2>3, <2>5 DEF InLpTab
    <3>3. Tabling'
      BY <1>1, <1>2, <1>3, <1>4, <2>2, <2>3, <2>5, <3>1, <3>2 DEF Tabling, InLpTab
    <3> QED BY <1>4, <1>5, <2>2, <2>3, <2>5, <3>3, Sizes DEF EngineInv, LineInv, Stored
  <2> QED BY <2>4, <2>5
<1>7. CASE lp_go
  <2>1. cmd = NoCmd /\ pipe = <<>> /\ table = <<lp_fb_q, lp_line_q>> /\ lb_wa = 0 /\ ~lb_we
    BY <1>2, <1>7 DEF Tabling
  <2>2. ~ready /\ pipe' = <<>>
    BY <2>1, Still DEF Engaged, NoCmd
  <2>3. lb_wa' = 0 /\ Got' = 0 /\ UNCHANGED <<lp_beat, table, lp_go2>>
    BY <1>1, <1>4, <2>1, <2>2 DEF Got, InLpTab
  <2>4. LineInv'
    BY <1>4, <2>1, <2>2, <2>3, <1>1, <1>3, Sizes DEF LineInv, InLpTab
  <2>5. CASE busy
    <3>1. state' = "lp_tab" /\ lp_go' /\ cmd' = NoCmd
      BY <1>1, <1>7, <2>1, <2>5 DEF InLpTab, Accepted
    <3>2. Tabling'
      BY <1>2, <1>3, <1>4, <2>1, <2>2, <2>3, <3>1 DEF Tabling
    <3> QED BY <2>2, <2>4, <3>2 DEF EngineInv
  <2>6. CASE ~busy
    <3>1. Burst /\ state' = "lp_burst" /\ lp_go' = FALSE
      BY <1>1, <1>7, <2>6 DEF InLpTab
    <3>2. Room \in 1 .. FbWords
      BY Sizes DEF Room, Engaged, Shape
    <3> DEFINE k == IF Room >= LpBeats THEN LpBeats ELSE Room
    <3>3. /\ k \in 1 .. LpBeats /\ lp_beat + k <= FbWords
          /\ LpBeats - k > 0 => lp_beat + k = FbWords
          /\ lp_beat \in Nat
      BY <3>2, Sizes DEF Room, Engaged, Shape
    <3>4. /\ cmd' = [op |-> "rd", a |-> <<lp_fb_q, lp_beat>>, n |-> k, d |-> 0]
          /\ lp_left' = k /\ lp_2nd' = LpBeats - k
      BY <3>1 DEF Burst, Fetched
    <3> HIDE DEF k
    <3>5. Asks(lp_fb_q, lp_beat + Got, lp_left)'
      BY <1>3, <2>2, <2>3, <3>3, <3>4 DEF Asks
    <3>6. lp_left' + lp_2nd' + Got' = LpBeats /\ lp_left' \in Nat /\ lp_2nd' \in Nat /\ lp_left' > 0
      BY <2>3, <3>3, <3>4, Sizes
    <3>7. ~lp_go2' /\ lp_beat' + Got' + lp_left' <= FbWords
          /\ (lp_2nd' > 0 => lp_beat' + Got' + lp_left' = FbWords)
      BY <1>2, <2>3, <3>3, <3>4 DEF Tabling
    <3>8. Bursting'
      BY <1>3, <2>1, <2>3, <3>1, <3>5, <3>6, <3>7 DEF Bursting
    <3> QED BY <2>2, <2>4, <3>8 DEF EngineInv
  <2> QED BY <2>5, <2>6 DEF Engaged
<1> QED BY <1>6, <1>7 DEF Engaged, Shape


(* Each beat goes to the place of the line it is of.                       *)
LEMMA LpBurstStep ==
  ASSUME NEW busy, NEW ready, Engaged(busy, ready), ~rst, state = "lp_burst"
  PROVE  EngineInv' /\ LineInv'
<1>1. InLpBurst(busy, ready)
  BY DEF Engaged, Engine, InIdle, InWr, InRdLine, InLpTab
<1>2. Bursting
  BY DEF Engaged, EngineInv, Resting, Writing, Filling, Tabling
<1>3. lp_pend' = FALSE /\ UNCHANGED <<lp_fb_q, lp_line_q, lp_beat, table, lp_go>>
  BY <1>1, <1>2 DEF Engaged, LineRequest, Fetching, Bursting, InLpBurst
<1>4. /\ (lb_we' <=> ready) /\ Got \in 0 .. LpBeats /\ lb_wa' = Got
      /\ Got' = IF ready THEN Got + 1 ELSE Got
      /\ table # NoLine => \A i \in 0 .. Got - 1 : linebuf'[i] = At(i)
  BY <1>2, BufferStep DEF Engaged, Got, Bursting
<1>5. lp_beat \in 0 .. FbWords - 1 /\ lp_fb_q \in Banks /\ LpBeats \in Nat /\ FbWords \in Nat
      /\ LpBeats <= FbWords
  BY Sizes DEF Engaged, Shape
<1>6. table # NoLine /\ table = <<lp_fb_q, lp_line_q>>
  BY <1>2, <1>5 DEF Bursting, NoLine, Banks
<1>7. \A i : At(i)' = At(i)
  BY <1>3 DEF At
<1>8. /\ lp_left \in Nat /\ lp_2nd \in Nat /\ lp_left + lp_2nd + Got = LpBeats
  BY <1>2 DEF Bursting
<1>9. ASSUME ~ready, state' = "lp_burst" PROVE LineInv'
  BY <1>3, <1>4, <1>7, <1>9, Sizes DEF LineInv
<1>10. CASE lp_go2
  <2>1. lp_left = 0 /\ lp_2nd > 0 /\ lp_beat + Got = FbWords /\ cmd = NoCmd /\ pipe = <<>>
    BY <1>2, <1>10 DEF Bursting
  <2>2. ~ready /\ pipe' = <<>> /\ Got' = Got
    BY <1>4, <2>1, Still DEF Engaged, NoCmd
  <2>3. state' = "lp_burst"
    BY <1>1, <2>1, <2>2 DEF InLpBurst
  <2>4. CASE busy
    <3>1. lp_go2' /\ cmd' = NoCmd /\ UNCHANGED <<lp_left, lp_2nd>>
      BY <1>1, <1>10, <2>1, <2>2, <2>4 DEF InLpBurst, Accepted
    <3>2. Bursting'
      BY <1>2, <1>3, <1>6, <2>1, <2>2, <2>3, <3>1 DEF Bursting
    <3> QED BY <1>9, <2>2, <2>3, <3>2 DEF EngineInv
  <2>5. CASE ~busy
    <3>1. /\ lp_go2' = FALSE /\ lp_left' = lp_2nd /\ lp_2nd' = 0
          /\ cmd' = [op |-> "rd", a |-> <<lp_fb_q, 0>>, n |-> lp_2nd, d |-> 0]
      BY <1>1, <1>10, <2>5 DEF InLpBurst, Fetched
    <3>2. lp_beat + Got - FbWords = 0
      BY <1>4, <1>5, <2>1
    <3>3. Asks(lp_fb_q, lp_beat + Got - FbWords, lp_left)'
      BY <1>3, <2>2, <3>1, <3>2 DEF Asks
    <3>4. /\ ~lp_go2' /\ lp_left' > 0 /\ lp_2nd' = 0 /\ lp_left' \in Nat /\ lp_2nd' \in Nat
          /\ lp_left' + lp_2nd' + Got' = LpBeats /\ lp_beat' + Got' >= FbWords
      BY <1>3, <1>4, <1>5, <1>8, <2>1, <2>2, <3>1
    <3>5. Bursting'
      BY <1>2, <1>3, <1>6, <2>3, <3>3, <3>4 DEF Bursting
    <3> QED BY <1>9, <2>2, <2>3, <3>5 DEF EngineInv
  <2> QED BY <2>4, <2>5 DEF Engaged
<1>11. CASE ~lp_go2
  <2>1. PICK x \in Nat, l \in Nat, g \in Nat :
          /\ l = lp_left /\ g = Got
          /\ Asks(lp_fb_q, x, l) \/ Comes(lp_fb_q, x, l)
          /\ \/ x = lp_beat + g /\ x + l <= FbWords /\ (lp_2nd > 0 => x + l = FbWords)
             \/ x = lp_beat + g - FbWords /\ lp_2nd = 0
    BY <1>2, <1>4, <1>5, <1>8, <1>11 DEF Bursting
  <2>2. l > 0 /\ g < LpBeats /\ l + lp_2nd + g = LpBeats
    BY <1>2, <1>5, <1>8, <1>11, <2>1 DEF Bursting
  <2>3. /\ Accepted(busy) /\ lp_2nd' = lp_2nd
        /\ lp_left' = IF ready THEN l - 1 ELSE l
        /\ lp_go2' <=> (ready /\ l = 1 /\ lp_2nd # 0)
        /\ state' = IF ready /\ l = 1 /\ lp_2nd = 0 THEN "idle" ELSE "lp_burst"
    BY <1>1, <1>11, <2>1 DEF InLpBurst
  <2>4. PICK b : b = lp_fb_q /\ b = lp_fb_q'
    BY <1>3
  <2>5. /\ ~ready => (Asks(b, x, l) \/ Comes(b, x, l))'
        /\ ready => /\ pipe[1] = [a |-> <<b, x>>, d |-> Stored(<<b, x>>)]
                    /\ Comes(b, x, l) /\ Comes(b, x + 1, l - 1)'
                    /\ l = 1 => pipe' = <<>>
    BY <2>1, <2>2, <2>3, <2>4, ComingStep DEF Engaged
  <2>6. <<b, x>> = At(g)
    <3>1. lp_beat + g \in Nat /\ lp_beat + g < 2 * FbWords
      BY <1>5, <2>1, <2>2
    <3>2. x = IF lp_beat + g < FbWords THEN lp_beat + g ELSE lp_beat + g - FbWords
      BY <1>5, <2>1, <2>2
    <3>3. PICK y \in Nat : y = lp_beat + g
      BY <3>1
    <3>4. y < 2 * FbWords /\ x = IF y < FbWords THEN y ELSE y - FbWords
      BY <1>5, <3>1, <3>2, <3>3
    <3>5. y % FbWords = IF y < FbWords THEN y ELSE y - FbWords
      BY <3>4, Round
    <3>6. y % FbWords = x
      BY <3>4, <3>5, Zenon
    <3> QED BY <2>1, <2>4, <3>3, <3>6 DEF At
  <2>7. CASE ~ready
    <3>1. Bursting'
      <4>1. ~lp_go2' /\ Got' = g /\ lp_left' = l /\ state' = "lp_burst"
        BY <1>4, <2>1, <2>3, <2>7
      <4>2. \/ Asks(b, x, lp_left)' \/ Comes(b, x, lp_left)'
        BY <2>5, <2>7, <4>1 DEF Asks, Comes
      <4>3. lp_left' \in Nat /\ lp_2nd' \in Nat /\ lp_left' > 0 /\ lp_left' + lp_2nd' + Got' = LpBeats
        BY <1>5, <1>8, <2>1, <2>2, <2>3, <4>1
      <4>4. \/ x = lp_beat' + Got' /\ lp_beat' + Got' + lp_left' <= FbWords
               /\ (lp_2nd' > 0 => lp_beat' + Got' + lp_left' = FbWords)
            \/ x = lp_beat' + Got' - FbWords /\ lp_2nd' = 0 /\ lp_beat' + Got' >= FbWords
        BY <1>3, <1>5, <1>8, <2>1, <2>2, <2>3, <4>1
      <4> QED BY <1>2, <1>3, <1>6, <2>4, <4>1, <4>2, <4>3, <4>4 DEF Bursting
    <3> QED BY <1>9, <2>3, <2>7, <3>1 DEF EngineInv
  <2>8. CASE ready
    <3>1. cmd' = NoCmd
      BY <2>3, <2>5, <2>8 DEF Accepted, Comes
    <3>2. lb_wd' = At(g)' /\ lb_wa' = g /\ Got' = g + 1 /\ lb_we'
      BY <1>4, <1>7, <2>1, <2>5, <2>6, <2>8 DEF Engaged, LineBuffer
    <3>3. ASSUME state' = "lp_burst" \/ g + 1 = LpBeats PROVE LineInv'
      BY <1>3, <1>4, <1>6, <1>7, <2>1, <2>2, <2>3, <3>2, <3>3, Sizes DEF LineInv
    <3>4. CASE l = 1 /\ lp_2nd = 0
      <4>1. Resting' /\ pipe' = <<>>
        BY <1>2, <1>3, <2>3, <2>5, <2>8, <3>1, <3>4 DEF Resting, Bursting
      <4>2. g + 1 = LpBeats
        BY <1>5, <2>2, <3>4
      <4> QED BY <3>3, <4>1, <4>2 DEF EngineInv
    <3>5. CASE l = 1 /\ lp_2nd # 0
      <4>1. pipe' = <<>> /\ state' = "lp_burst" /\ lp_go2' /\ lp_left' = 0 /\ lp_2nd' > 0
        BY <1>8, <2>3, <2>5, <2>8, <3>5
      <4>2. lp_beat' + Got' = FbWords /\ lp_left' + lp_2nd' + Got' = LpBeats
            /\ lp_left' \in Nat /\ lp_2nd' \in Nat
        BY <1>3, <1>5, <1>8, <2>1, <2>2, <2>3, <3>2, <3>5, <4>1
      <4>3. Bursting'
        BY <1>2, <1>3, <1>6, <3>1, <4>1, <4>2 DEF Bursting
      <4> QED BY <3>3, <4>1, <4>3 DEF EngineInv
    <3>6. CASE l > 1
      <4>1. state' = "lp_burst" /\ ~lp_go2' /\ lp_left' = l - 1 /\ l - 1 > 0
        BY <2>3, <2>8, <3>6
      <4>2. Comes(b, x + 1, lp_left)'
        BY <2>5, <2>8, <4>1 DEF Comes
      <4>3. lp_left' \in Nat /\ lp_left' + lp_2nd' + Got' = LpBeats
        BY <1>5, <1>8, <2>1, <2>2, <2>3, <3>2, <4>1
      <4>4. \/ x + 1 = lp_beat' + Got' /\ lp_beat' + Got' + lp_left' <= FbWords
               /\ (lp_2nd' > 0 => lp_beat' + Got' + lp_left' = FbWords)
            \/ x + 1 = lp_beat' + Got' - FbWords /\ lp_2nd' = 0 /\ lp_beat' + Got' >= FbWords
        BY <1>3, <1>5, <1>8, <2>1, <2>2, <2>3, <3>2, <4>1
      <4>5. Bursting'
        BY <1>2, <1>3, <1>6, <1>8, <2>3, <2>4, <4>1, <4>2, <4>3, <4>4 DEF Bursting
      <4> QED BY <3>3, <4>1, <4>5 DEF EngineInv
    <3> QED BY <2>2, <3>4, <3>5, <3>6
  <2> QED BY <2>7, <2>8 DEF Engaged
<1> QED BY <1>10, <1>11 DEF Engaged, Shape


(* What an idle engine takes up.                                           *)
LEMMA IdleStep ==
  ASSUME NEW busy, NEW ready, Engaged(busy, ready), ~rst, state = "idle",
         Issue(busy) = "fbd_rd" => fbd_ra_q' = fbd_ra_q,
         Issue(busy) = "sdr_rd" => sdr_a_q' = sdr_a_q
  PROVE  EngineInv' /\ LineInv' /\ ram' = ram
<1>1. InIdle(Issue(busy), busy)
  BY DEF Engaged, Engine, InRdLine, InWr, InLpTab, InLpBurst
<1>2. cmd = NoCmd /\ ~lp_go /\ ~lp_go2 /\ pipe = <<>>
  BY DEF Engaged, EngineInv, Resting, Writing, Filling, Tabling, Bursting
<1>3. ram' = ram /\ ~ready /\ pipe' = <<>>
  BY <1>2, Still DEF Engaged, Bridge, NoCmd
<1>4. KeepsLine /\ lp_go' = lp_go /\ lp_go2' = lp_go2
  BY <1>1 DEF InIdle, KeepsLine
<1>5. CASE Issue(busy) = "none"
  BY <1>1, <1>2, <1>3, <1>4, <1>5, LineKept DEF InIdle, Accepted, EngineInv, Resting
<1>6. CASE Issue(busy) \in {"tel", "wf", "sdr_wr"}
  <2>1. state' = "wr" /\ \E a, d : Fetched("wr", a, 1, d)
    <3>1. CASE Issue(busy) = "tel"
      BY <1>1, <3>1 DEF InIdle
    <3>2. CASE Issue(busy) = "wf"
      BY <1>1, <3>2 DEF InIdle
    <3>3. CASE Issue(busy) = "sdr_wr"
      BY <1>1, <3>3 DEF InIdle
    <3> QED BY <1>6, <3>1, <3>2, <3>3
  <2>2. cmd'.op = "wr"
    BY <2>1 DEF Fetched
  <2> QED BY <1>2, <1>3, <1>4, <1>6, <2>1, <2>2, LineKept DEF EngineInv, Writing
<1>7. CASE Issue(busy) = "lp"
  <2>1. lp_pend
    BY <1>7 DEF Issue, Pick
  <2>2. ~lp_pend' /\ UNCHANGED <<lp_fb_q, lp_line_q>> /\ ~lb_we'
    BY <1>3, <1>7, <2>1, BufferStep DEF Engaged, LineRequest, Fetching
  <2>3. state' = "lp_tab" /\ cmd' = [op |-> "rd", a |-> <<lp_fb_q, lp_line_q>>, n |-> 1, d |-> 0]
    BY <1>1, <1>7 DEF InIdle, Fetched
  <2>4. Tabling'
    BY <1>2, <1>3, <1>4, <2>2, <2>3 DEF Tabling, Asks
  <2>5. LineInv'
    BY <1>1, <1>7, <2>3, LineKept DEF InIdle
  <2> QED BY <1>3, <2>4, <2>5 DEF EngineInv
<1>8. CASE Issue(busy) \in {"fbd_rd", "sdr_rd"}
  <2>1. PICK o : o = IF Issue(busy) = "fbd_rd" THEN fbd_ra_q ELSE sdr_a_q
    OBVIOUS
  <2>2. /\ state' = "rd_line" /\ kind' = (IF Issue(busy) = "fbd_rd" THEN "fbd" ELSE "sdr") /\ ~beat'
        /\ cmd' = [op |-> "rd", a |-> <<o[1], 2 * (o[2] \div 2)>>, n |-> 2, d |-> 0]
    BY <1>1, <1>8, <2>1 DEF InIdle, Fetched
  <2>3. Owner' = o
    BY <1>8, <2>1, <2>2 DEF Owner
  <2>4. Asks(o[1], 2 * (o[2] \div 2), 2)'
    BY <1>3, <2>2 DEF Asks
  <2>5. Filling'
    BY <1>2, <1>4, <2>2, <2>3, <2>4 DEF Filling
  <2>6. LineInv'
    BY <1>4, <1>8, <2>2, LineKept
  <2> QED BY <1>3, <2>5, <2>6 DEF EngineInv
<1>9. Issue(busy) \in {"none", "tel", "lp", "wf", "sdr_wr", "fbd_rd", "sdr_rd"}
  BY DEF Issue, Pick
<1> QED BY <1>5, <1>6, <1>7, <1>8, <1>9

-----------------------------------------------------------------------------
(* A clock: what it takes up, and what then becomes of each part.          *)
Stepped(draw, busy, ready) ==
  /\ draw \in Draws /\ busy \in BOOLEAN /\ ready \in BOOLEAN
  /\ IInv /\ Clock(draw, busy, ready)

(* What is taken up, an idle machine takes up.                             *)
LEMMA Issues ==
  ASSUME NEW draw, NEW busy, NEW ready, Stepped(draw, busy, ready)
  PROVE  /\ Engaged(busy, ready)
         /\ Issue(busy) \in {"none", "tel", "lp", "wf", "sdr_wr", "fbd_rd", "sdr_rd"}
         /\ Issue(busy) # "none" =>
              ~rst /\ ~busy /\ state = "idle" /\ cmd = NoCmd /\ pipe = <<>> /\ ~ready
         /\ Issue(busy) = "tel" => tel_pend > 0
         /\ Issue(busy) = "lp" => lp_pend
         /\ Issue(busy) = "wf" => wfifo # <<>>
         /\ Issue(busy) = "sdr_wr" => sdr_wr_pend
         /\ Issue(busy) = "fbd_rd" => fbd_rd_pend /\ wfifo = <<>>
         /\ Issue(busy) = "sdr_rd" => sdr_rd_pend
<1>1. Engaged(busy, ready)
  BY DEF Stepped, Engaged, IInv, Clock
<1>2. Issue(busy) \in {"none", "tel", "lp", "wf", "sdr_wr", "fbd_rd", "sdr_rd"}
  BY DEF Issue, Pick
<1>3. Issue(busy) # "none" => ~rst /\ ~busy /\ state = "idle" /\ Issue(busy) = Pick
  BY DEF Issue
<1>4. state = "idle" /\ ~rst => cmd = NoCmd /\ pipe = <<>>
  BY <1>1 DEF Engaged, EngineInv, Resting, Writing, Filling, Tabling, Bursting
<1>5. /\ Pick = "tel" => tel_pend > 0
      /\ Pick = "lp" => lp_pend
      /\ Pick = "wf" => wfifo # <<>>
      /\ Pick = "sdr_wr" => sdr_wr_pend
      /\ Pick = "fbd_rd" => fbd_rd_pend /\ wfifo = <<>>
      /\ Pick = "sdr_rd" => sdr_rd_pend
  BY DEF Pick
<1>6. pipe = <<>> => ~ready
  BY <1>1 DEF Engaged
<1> QED BY <1>1, <1>2, <1>3, <1>4, <1>5, <1>6

(* What the queue holds.                                                   *)
LEMMA Queued ==
  ASSUME Shape, wfifo # <<>>
  PROVE  wfifo[1].a \in FbAddr /\ wfifo[1].d \in Data
<1> DEFINE E == [a : FbAddr, d : Data]
<1>1. wfifo \in Seq(E)
  BY DEF Shape
<1> HIDE DEF E
<1>2. wfifo[1] \in E
  BY <1>1, Front
<1> QED BY <1>2 DEF E

(* While a read waits its port takes up nothing else, so that a fill knows *)
(* the line it fills.                                                      *)
LEMMA Asked ==
  ASSUME NEW draw, NEW busy, NEW ready, Stepped(draw, busy, ready)
  PROVE  /\ sdr_busy => ~SdrRead /\ ~SdrWrite /\ sdr_a_q' = sdr_a_q
         /\ fbd_rd_pend => draw = NoDraw /\ fbd_ra_q' = fbd_ra_q
         /\ rst => draw = NoDraw
         /\ Owner \in Addresses
         /\ ~rst /\ state = "rd_line" => Owner' = Owner
<1>1. sdr_busy => ~SdrRead /\ ~SdrWrite
  BY DEF SdrRead, SdrWrite
<1>2. sdr_busy => sdr_a_q' = sdr_a_q
  BY <1>1 DEF Stepped, Clock, SdrPort
<1>3. (rst => draw = NoDraw) /\ (fbd_rd_pend => draw = NoDraw)
  BY DEF Stepped, Draws
<1>4. fbd_rd_pend => fbd_ra_q' = fbd_ra_q
  BY DEF Stepped, Clock, DrawPort
<1>5. Owner \in Addresses
  BY DEF Stepped, IInv, Shape, Owner, Addresses
<1>6. ASSUME ~rst, state = "rd_line" PROVE Owner' = Owner
  <2>1. kind' = kind
    BY <1>6 DEF Stepped, Clock, Engine, InIdle, InWr, InRdLine, InLpTab, InLpBurst
  <2>2. CASE kind = "sdr"
    <3>1. sdr_rd_pend
      BY <1>6, <2>2 DEF Stepped, IInv, SdrFill
    <3> QED BY <1>2, <2>1, <2>2, <3>1 DEF Owner, sdr_busy
  <2>3. CASE kind = "fbd"
    <3>1. fbd_rd_pend
      BY <1>6, <2>3 DEF Stepped, IInv, FbdFill
    <3> QED BY <1>4, <2>1, <2>3, <3>1 DEF Owner
  <2> QED BY <2>2, <2>3 DEF Stepped, IInv, Shape
<1> QED BY <1>1, <1>2, <1>3, <1>4, <1>5, <1>6

LEMMA EngineStep ==
  ASSUME NEW draw, NEW busy, NEW ready, Stepped(draw, busy, ready)
  PROVE  EngineInv' /\ LineInv'
<1>1. Engaged(busy, ready)
  BY Issues
<1>2. CASE rst
  BY <1>1, <1>2, ResetStep
<1>3. CASE ~rst
  <2>1. state \in {"idle", "wr", "rd_line", "lp_tab", "lp_burst"}
    BY <1>1 DEF Engaged, EngineInv, Resting, Writing, Filling, Tabling, Bursting
  <2>2. CASE state = "idle"
    <3>1. Issue(busy) = "fbd_rd" => fbd_ra_q' = fbd_ra_q
      BY Issues, Asked
    <3>2. Issue(busy) = "sdr_rd" => sdr_a_q' = sdr_a_q
      BY Issues, Asked DEF sdr_busy
    <3> QED BY <1>1, <1>3, <2>2, <3>1, <3>2, IdleStep
  <2>3. CASE state = "wr"
    BY <1>1, <1>3, <2>3, WrStep
  <2>4. CASE state = "rd_line"
    BY <1>1, <1>3, <2>4, Asked, RdLineStep
  <2>5. CASE state = "lp_tab"
    BY <1>1, <1>3, <2>5, LpTabStep
  <2>6. CASE state = "lp_burst"
    BY <1>1, <1>3, <2>6, LpBurstStep
  <2> QED BY <2>1, <2>2, <2>3, <2>4, <2>5, <2>6
<1> QED BY <1>2, <1>3

(* The word that arrives for a line is memory's.                           *)
LEMMA Arrives ==
  ASSUME NEW busy, NEW ready, Engaged(busy, ready), ready, state = "rd_line", Owner \in Addresses
  PROVE  /\ pipe[1].d = IF beat THEN ram[Other(Owner)] ELSE ram[Base(Owner)]
         /\ ram[Other(Owner)] \in Data /\ ram[Base(Owner)] \in Data
<1> DEFINE x == 2 * (Owner[2] \div 2)
<1>1. Filling /\ pipe # <<>>
  BY DEF Engaged, EngineInv, Resting, Writing, Tabling, Bursting
<1>2. x \in Nat
  BY Address, Halves
<1>3. Base(Owner) = <<Owner[1], x>> /\ Other(Owner) = <<Owner[1], x + 1>>
      /\ Base(Owner) \in DOMAIN ram /\ Other(Owner) \in DOMAIN ram
      /\ ram[Other(Owner)] \in Data /\ ram[Base(Owner)] \in Data
  BY TwoWords DEF Base, Other, Engaged, Shape, Addresses
<1> HIDE DEF x
<1>4. CASE beat
  <2>1. pipe = Beats(Owner[1], x + 1, 1)
    BY <1>1, <1>4 DEF Filling, Comes, x
  <2>2. pipe[1] = [a |-> <<Owner[1], x + 1>>, d |-> Stored(<<Owner[1], x + 1>>)]
    BY <1>2, <2>1, BeatsAre
  <2> QED BY <1>3, <1>4, <2>2 DEF Stored
<1>5. CASE ~beat
  <2>1. pipe = Beats(Owner[1], x, 2)
    BY <1>1, <1>5 DEF Filling, Comes, Asks, x
  <2>2. pipe[1] = [a |-> <<Owner[1], x>>, d |-> Stored(<<Owner[1], x>>)]
    BY <1>2, <2>1, BeatsAre
  <2> QED BY <1>3, <1>5, <2>2 DEF Stored
<1> QED BY <1>3, <1>4, <1>5

(* What memory holds of a word or is about to: the request taken up is the *)
(* only one to change it.                                                  *)
LEMMA LatestStep ==
  ASSUME NEW draw, NEW busy, NEW ready, Stepped(draw, busy, ready), ~rst
  PROVE  /\ \A a \in Addresses :
              Latest(a)' = IF Issue(busy) = "sdr_wr" /\ a = sdr_a_q THEN sdr_d_q
                           ELSE IF Issue(busy) = "wf" /\ a = wfifo[1].a THEN wfifo[1].d
                           ELSE Latest(a)
         /\ state \in {"idle", "rd_line"} => ram' = ram
<1>1. Engaged(busy, ready)
  BY Issues
<1>2. ram \in [Addresses -> Data]
  BY <1>1 DEF Engaged, Shape
<1>3. state \in {"idle", "wr", "rd_line", "lp_tab", "lp_burst"}
  BY <1>1 DEF Engaged, EngineInv, Resting, Writing, Filling, Tabling, Bursting
<1>4. state # "wr" => cmd.op # "wr"
  BY <1>1 DEF Engaged, EngineInv, Resting, Writing, Filling, Tabling, Bursting, Asks, Comes, NoCmd
<1>5. state # "wr" => ram' = ram
  BY <1>1, <1>4 DEF Engaged, Bridge
<1>6. CASE state = "wr"
  <2>1. Issue(busy) = "none" /\ Accepted(busy)
    BY <1>1, <1>6 DEF Engaged, Engine, InIdle, InWr, InRdLine, InLpTab, InLpBurst, Issue
  <2>2. CASE busy
    BY <1>1, <1>2, <2>1, <2>2 DEF Engaged, Bridge, Accepted, Latest
  <2>3. CASE ~busy
    <3>1. cmd.op = "wr"
      BY <1>1, <1>6 DEF Engaged, EngineInv, Resting, Writing, Filling, Tabling, Bursting
    <3>2. cmd' = NoCmd /\ cmd'.op # "wr"
      BY <2>1, <2>3 DEF Accepted, NoCmd
    <3>3. ram' = [a \in Addresses |-> IF a = cmd.a THEN cmd.d ELSE ram[a]]
      BY <1>1, <1>2, <2>3, <3>1 DEF Engaged, Bridge
    <3>4. \A a \in Addresses : Latest(a)' = Latest(a)
      BY <3>1, <3>2, <3>3 DEF Latest
    <3> QED BY <1>6, <2>1, <3>4
  <2> QED BY <1>1, <1>6, <2>2, <2>3 DEF Engaged
<1>7. CASE state \in {"rd_line", "lp_tab", "lp_burst"}
  <2>1. Issue(busy) = "none"
    BY <1>7 DEF Issue
  <2>2. cmd'.op # "wr"
    <3>1. \/ Accepted(busy) \/ Burst \/ Fetched("rd", <<lp_fb_q, 0>>, lp_2nd, 0)
      BY <1>1, <1>7 DEF Engaged, Engine, InIdle, InWr, InRdLine, InLpTab, InLpBurst
    <3> QED BY <1>4, <1>7, <3>1 DEF Accepted, Burst, Fetched, NoCmd
  <2> QED BY <1>4, <1>5, <1>7, <2>1, <2>2 DEF Latest
<1>8. CASE state = "idle"
  <2>1. InIdle(Issue(busy), busy)
    BY <1>1, <1>8 DEF Engaged, Engine, InWr, InRdLine, InLpTab, InLpBurst
  <2>2. ASSUME NEW a \in Addresses
        PROVE  Latest(a)' = IF Issue(busy) = "sdr_wr" /\ a = sdr_a_q THEN sdr_d_q
                            ELSE IF Issue(busy) = "wf" /\ a = wfifo[1].a THEN wfifo[1].d
                            ELSE Latest(a)
    <3>1. a # <<"tel", 0>>
      BY Address DEF Banks
    <3>2. CASE Issue(busy) = "none"
      BY <1>4, <1>5, <1>8, <2>1, <3>2 DEF InIdle, Accepted, NoCmd, Latest
    <3>3. CASE Issue(busy) = "tel"
      BY <1>4, <1>5, <1>8, <2>1, <3>1, <3>3 DEF InIdle, Fetched, Latest
    <3>4. CASE Issue(busy) = "wf"
      BY <1>4, <1>5, <1>8, <2>1, <3>4 DEF InIdle, Fetched, Latest
    <3>5. CASE Issue(busy) = "sdr_wr"
      BY <1>4, <1>5, <1>8, <2>1, <3>5 DEF InIdle, Fetched, Latest
    <3>6. CASE Issue(busy) \in {"lp", "fbd_rd", "sdr_rd"}
      <4>1. \E x, n : Fetched("rd", x, n, 0)
        BY <2>1, <3>6 DEF InIdle
      <4> QED BY <1>4, <1>5, <1>8, <3>6, <4>1 DEF Fetched, Latest
    <3> QED BY <3>2, <3>3, <3>4, <3>5, <3>6, Issues
  <2> QED BY <1>5, <1>8, <2>2
<1> QED BY <1>3, <1>5, <1>6, <1>7, <1>8

-----------------------------------------------------------------------------
(* What a clock makes of a line cache a write has been to: the beat of a   *)
(* fill of owner's, then a reset or, where req is taken up, another line.  *)
CacheNext(w, owner, ready, issue, req, q) ==
  LET f == Filled(w, owner, ready)
  IN  IF rst THEN [f EXCEPT !.v = FALSE] ELSE IF issue = req THEN Taken(f, q) ELSE f

LEMMA CacheStep ==
  ASSUME NEW busy, NEW ready, Engaged(busy, ready), Owner \in Addresses,
         NEW w \in Cache, NEW owner, NEW issue, NEW req, NEW q \in Addresses,
         issue = req => state # "rd_line",
         NEW n, n = CacheNext(w, owner, ready, issue, req, q)
  PROVE  /\ n \in Cache
         /\ rst => ~n.v
         /\ ~rst /\ issue = req => ~n.v /\ n.a = Line(q)
         /\ ~rst /\ ready /\ state = "rd_line" /\ kind = owner =>
              /\ n.v = beat /\ n.a = w.a
              /\ ~beat => n.d[1] = ram[Base(Owner)]
              /\ beat => n.d[1] = w.d[1] /\ n.d[2] = ram[Other(Owner)]
         /\ ~rst /\ issue # req /\ ~(ready /\ state = "rd_line" /\ kind = owner) => n = w
<1> DEFINE f == Filled(w, owner, ready)
           filling == ready /\ state = "rd_line" /\ kind = owner
<1>2. n = IF rst THEN [f EXCEPT !.v = FALSE] ELSE IF issue = req THEN Taken(f, q) ELSE f
  BY DEF CacheNext
<1>3. ~filling => f = w
  BY DEF Filled
<1>4. ASSUME filling
      PROVE  /\ f \in Cache /\ f.v = beat /\ f.a = w.a
             /\ ~beat => f.d[1] = ram[Base(Owner)]
             /\ beat => f.d[1] = w.d[1] /\ f.d[2] = ram[Other(Owner)]
  <2>1. PICK x \in Data : x = pipe[1].d /\ x = IF beat THEN ram[Other(Owner)] ELSE ram[Base(Owner)]
    BY <1>4, Arrives
  <2>2. beat \in BOOLEAN
    BY DEF Engaged, Shape
  <2>3. f = [w EXCEPT !.d[IF beat THEN 2 ELSE 1] = x, !.v = beat]
    BY <1>4, <2>1 DEF Filled
  <2> HIDE DEF f
  <2>4. CASE beat
    <3>1. f = [w EXCEPT !.d[2] = x, !.v = TRUE] /\ beat = TRUE
      BY <2>2, <2>3, <2>4
    <3>2. w = [v |-> w.v, a |-> w.a, d |-> w.d] /\ w.d \in [1 .. 2 -> Data] /\ w.a \in LineAddr
      BY DEF Cache
    <3>3. f = [v |-> TRUE, a |-> w.a, d |-> [w.d EXCEPT ![2] = x]]
      BY <3>1, <3>2
    <3>4. [w.d EXCEPT ![2] = x] \in [1 .. 2 -> Data]
      BY <2>1, <3>2
    <3>5. f \in Cache
      BY <3>2, <3>3, <3>4 DEF Cache
    <3> QED BY <2>1, <2>4, <3>1, <3>2, <3>3, <3>5
  <2>5. CASE ~beat
    <3>1. f = [w EXCEPT !.d[1] = x, !.v = FALSE] /\ beat = FALSE
      BY <2>2, <2>3, <2>5
    <3>2. w = [v |-> w.v, a |-> w.a, d |-> w.d] /\ w.d \in [1 .. 2 -> Data] /\ w.a \in LineAddr
      BY DEF Cache
    <3>3. f = [v |-> FALSE, a |-> w.a, d |-> [w.d EXCEPT ![1] = x]]
      BY <3>1, <3>2
    <3>4. [w.d EXCEPT ![1] = x] \in [1 .. 2 -> Data]
      BY <2>1, <3>2
    <3>5. f \in Cache
      BY <3>2, <3>3, <3>4 DEF Cache
    <3>6. f.v = beat /\ f.a = w.a
      BY <3>1, <3>3
    <3>7. f.d[1] = x
      BY <3>2, <3>3
    <3>8. x = ram[Base(Owner)]
      BY <2>1, <2>5, Zenon
    <3> QED BY <2>5, <3>5, <3>6, <3>7, <3>8, Zenon
  <2> QED BY <2>4, <2>5
<1>5. f \in Cache
  BY <1>3, <1>4
<1> HIDE DEF f
<1>6. n \in Cache /\ (rst => ~n.v) /\ (~rst /\ issue = req => ~n.v /\ n.a = Line(q))
  <2>1. CASE rst
    BY <1>2, <1>5, <2>1 DEF Cache
  <2>2. CASE ~rst /\ issue = req
    <3>1. Line(q) \in LineAddr
      BY <2>2 DEF LineAddr
    <3> QED BY <1>2, <1>5, <2>2, <3>1 DEF Cache, Taken
  <2>3. CASE ~rst /\ issue # req
    BY <1>2, <1>5, <2>3
  <2> QED BY <2>1, <2>2, <2>3
<1>7. ~rst /\ issue # req => n = f
  BY <1>2
<1>8. ~rst /\ issue # req /\ ~filling => n = w
  BY <1>3, <1>7
<1>9. filling => issue # req
  OBVIOUS
<1> QED BY <1>4, <1>6, <1>7, <1>8, <1>9

(* The two caches.                                                         *)
Wrote    == IF SdrWrite THEN Updated(sdr_cache, cycle.a, cycle.d) ELSE sdr_cache
Drew(draw) == IF draw.op = "wr" /\ ~wf_full THEN Updated(fbd_cache, draw.a, draw.d) ELSE fbd_cache
LEMMA Caches ==
  ASSUME NEW draw, NEW busy, NEW ready, Stepped(draw, busy, ready)
  PROVE  /\ sdr_cache' = CacheNext(Wrote, "sdr", ready, Issue(busy), "sdr_rd", sdr_a_q)
         /\ fbd_cache' = CacheNext(Drew(draw), "fbd", ready, Issue(busy), "fbd_rd", fbd_ra_q)
<1>1. rst => Issue(busy) = "none"
  BY DEF Issue
<1>2. sdr_cache' = CacheNext(Wrote, "sdr", ready, Issue(busy), "sdr_rd", sdr_a_q)
  <2>1. SdrPort(Issue(busy), ready)
    BY DEF Stepped, Clock
  <2>2. CASE rst
    BY <1>1, <2>1, <2>2 DEF SdrPort, CacheNext, Wrote
  <2>3. CASE ~rst /\ Issue(busy) = "sdr_rd"
    BY <1>1, <2>1, <2>3 DEF SdrPort, CacheNext, Wrote
  <2>4. CASE ~rst /\ Issue(busy) # "sdr_rd"
    BY <1>1, <2>1, <2>4 DEF SdrPort, CacheNext, Wrote
  <2> QED BY <2>2, <2>3, <2>4
<1>3. fbd_cache' = CacheNext(Drew(draw), "fbd", ready, Issue(busy), "fbd_rd", fbd_ra_q)
  <2>1. DrawPort(draw, Issue(busy), ready)
    BY DEF Stepped, Clock
  <2>2. CASE rst
    BY <1>1, <2>1, <2>2 DEF DrawPort, CacheNext, Drew
  <2>3. CASE ~rst /\ Issue(busy) = "fbd_rd"
    BY <1>1, <2>1, <2>3 DEF DrawPort, CacheNext, Drew
  <2>4. CASE ~rst /\ Issue(busy) # "fbd_rd"
    BY <1>1, <2>1, <2>4 DEF DrawPort, CacheNext, Drew
  <2> QED BY <2>2, <2>3, <2>4
<1> QED BY <1>2, <1>3

-----------------------------------------------------------------------------
(* The SH-2's side.  What its bus does in a clock.                         *)
Waits    == Quiet /\ ~(ce = "F" /\ bus = "TD") /\ (ce = "R" => bus = "T0" \/ sdr_busy)
Latches  == ce = "R" /\ bus = "TRC" /\ ~sdr_busy /\ bus' = "TD"
            /\ UNCHANGED <<cycle, strobe, beats, shadow>>
Releases == /\ bus = "TD" /\ UNCHANGED <<cycle, beats, shadow>>
            /\ \/ ce = "F" /\ strobe' = FALSE /\ bus' = "TD"
               \/ ce = "R" /\ bus' = "T0" /\ strobe' = strobe
Begins   == ce = "R" /\ bus \in {"T0", "TD"} /\ Start
Goes     == ce = "R" /\ bus = "TD" /\ NextBeat

LEMMA BusMoves ==
  ASSUME NEW draw, NEW busy, NEW ready, Stepped(draw, busy, ready), ~rst
  PROVE  Waits \/ Latches \/ Releases \/ Begins \/ Goes
<1>1. Sh2 /\ bus \in {"T0", "TRC", "TD"} /\ ce \in {"F", "R", "gap"}
  BY DEF Stepped, Clock, IInv, Shape
<1>2. CASE ce = "R" /\ bus = "T0"
  <2>1. Start \/ Quiet
    BY <1>1, <1>2 DEF Sh2
  <2> QED BY <1>2, <2>1 DEF Waits, Begins
<1>3. CASE ce = "R" /\ bus = "TRC"
  <2>1. IF sdr_busy THEN Quiet
        ELSE bus' = "TD" /\ UNCHANGED <<cycle, strobe, beats, accesses, shadow>>
    BY <1>1, <1>3 DEF Sh2
  <2> QED BY <1>3, <2>1 DEF Waits, Latches
<1>4. CASE ce = "R" /\ bus = "TD"
  <2>1. \/ NextBeat
        \/ Start \/ (bus' = "T0" /\ UNCHANGED <<cycle, strobe, beats, accesses, shadow>>)
    BY <1>1, <1>4 DEF Sh2
  <2> QED BY <1>4, <2>1 DEF Begins, Goes, Releases
<1>5. CASE ce = "F" /\ bus = "TD"
  BY <1>1, <1>5 DEF Sh2, Releases
<1>6. CASE ce # "R" /\ ~(ce = "F" /\ bus = "TD")
  <2>1. Quiet
    BY <1>1, <1>6 DEF Sh2
  <2> QED BY <1>6, <2>1 DEF Waits
<1> QED BY <1>1, <1>2, <1>3, <1>4, <1>5, <1>6

(* The port answers only a cycle that waits in TRC.                        *)
LEMMA Answers ==
  ASSUME NEW draw, NEW busy, NEW ready, Stepped(draw, busy, ready), ~rst
  PROVE  /\ SdrWrite \/ (SdrRead /\ ~Hit(sdr_cache, cycle.a)) \/ sdr_busy
              => bus = "TRC" /\ Waits /\ strobe
         /\ SdrWrite <=> (NewWrite /\ ~sdr_busy)
         /\ NewWrite => ~sdr_busy
<1>1. BusInv /\ Held /\ {strobe, old_strobe, sdr_rd_pend, sdr_wr_pend} \subseteq BOOLEAN
      /\ bus \in {"T0", "TRC", "TD"} /\ ce \in {"F", "R", "gap"}
  BY DEF Stepped, IInv, Shape
<1>2. SdrWrite => bus = "TRC"
  BY <1>1 DEF SdrWrite, sdr_wr, BusInv
<1>3. SdrRead /\ ~Hit(sdr_cache, cycle.a) => bus = "TRC"
  BY <1>1 DEF SdrRead, sdr_rd, BusInv, Held
<1>4. sdr_busy => bus = "TRC"
  BY <1>1 DEF BusInv
<1>5. bus = "TRC" /\ ce = "R" /\ ~sdr_busy => ~SdrWrite /\ ~SdrRead
  BY <1>1 DEF BusInv, SdrWrite, SdrRead
<1>6. ASSUME bus = "TRC", ce # "R" \/ sdr_busy PROVE Waits /\ strobe
  <2>1. Waits
    BY <1>6, BusMoves DEF Latches, Releases, Begins, Goes
  <2> QED BY <1>1, <1>6, <2>1 DEF BusInv
<1>7. NewWrite => ~sdr_busy
  BY <1>1 DEF NewWrite, BusInv
<1>8. SdrWrite <=> (NewWrite /\ ~sdr_busy)
  BY <1>2 DEF NewWrite, SdrWrite
<1> QED BY <1>2, <1>3, <1>4, <1>5, <1>6, <1>7, <1>8

(* The registers of the port.                                              *)
LEMMA PortStep ==
  ASSUME NEW draw, NEW busy, NEW ready, Stepped(draw, busy, ready), ~rst
  PROVE  /\ old_strobe' = strobe
         /\ sdr_wr_pend' <=> Issue(busy) # "sdr_wr" /\ (sdr_wr_pend \/ SdrWrite)
         /\ sdr_rd_pend' <=> ~Ends("sdr", ready) /\ (sdr_rd_pend \/ (SdrRead /\ ~Hit(sdr_cache, cycle.a)))
         /\ sdr_a_q' = IF SdrRead \/ SdrWrite THEN cycle.a ELSE sdr_a_q
         /\ sdr_d_q' = IF SdrWrite THEN cycle.d ELSE sdr_d_q
         /\ Ends("sdr", ready) => sdr_rd_pend
  BY DEF Stepped, IInv, Clock, SdrPort, Ends, SdrFill

LEMMA BusStep ==
  ASSUME NEW draw, NEW busy, NEW ready, Stepped(draw, busy, ready), ~rst
  PROVE  BusInv'
<1>1. BusInv /\ Shape /\ ClockEnable
  BY DEF Stepped, IInv, Clock
<1>2. /\ {strobe, old_strobe, sdr_rd_pend, sdr_wr_pend} \subseteq BOOLEAN
      /\ bus \in {"T0", "TRC", "TD"} /\ ce \in {"F", "R", "gap"} /\ beats \in 0 .. 1
  BY <1>1 DEF Shape
<1>3. /\ ce' = "R" => ce = "F"
      /\ ce = "R" => ce' # "R"
  BY <1>2, <1>1 DEF ClockEnable
<1>4. sdr_busy' => bus' = "TRC" /\ old_strobe' /\ sdr_a_q' = cycle'.a
  <2>1. SUFFICES ASSUME sdr_busy' PROVE bus' = "TRC" /\ old_strobe' /\ sdr_a_q' = cycle'.a
    OBVIOUS
  <2>2. SdrWrite \/ (SdrRead /\ ~Hit(sdr_cache, cycle.a)) \/ sdr_busy
    BY <2>1, PortStep DEF sdr_busy
  <2>3. bus = "TRC" /\ Quiet /\ strobe
    BY <2>2, Answers DEF Waits
  <2>4. sdr_a_q' = cycle.a
    BY <1>1, <2>2, Asked, PortStep DEF BusInv
  <2> QED BY <2>3, <2>4, PortStep DEF Quiet
<1>5. /\ sdr_wr_pend' => cycle'.op = "wr" /\ sdr_d_q' = cycle'.d
      /\ sdr_rd_pend' => cycle'.op = "rd"
      /\ ~(sdr_rd_pend' /\ sdr_wr_pend')
  <2>1. SUFFICES ASSUME sdr_busy'
                 PROVE  /\ sdr_wr_pend' => cycle'.op = "wr" /\ sdr_d_q' = cycle'.d
                        /\ sdr_rd_pend' => cycle'.op = "rd"
    BY DEF sdr_busy
  <2>2. SdrWrite \/ (SdrRead /\ ~Hit(sdr_cache, cycle.a)) \/ sdr_busy
    BY <2>1, PortStep DEF sdr_busy
  <2>3. cycle' = cycle
    BY <2>2, Answers DEF Waits, Quiet
  <2>4. SdrWrite => cycle.op = "wr"
    BY DEF SdrWrite, sdr_wr
  <2>5. SdrRead => cycle.op = "rd"
    BY DEF SdrRead, sdr_rd
  <2>6. sdr_wr_pend => ~SdrRead /\ ~SdrWrite
    BY Asked DEF sdr_busy
  <2> QED BY <1>1, <2>3, <2>4, <2>5, <2>6, PortStep DEF BusInv
<1>6. /\ bus' \in {"T0", "TD"} /\ ce' = "R" => ~strobe'
      /\ bus' = "T0" => ~strobe'
      /\ bus' = "TRC" => strobe'
      /\ bus' = "TRC" /\ ce' = "R" => old_strobe'
      /\ bus' = "TD" /\ strobe' /\ cycle'.op = "wr" => old_strobe'
      /\ beats' > 0 => cycle'.op = "rd"
  <2>1. old_strobe' <=> strobe
    BY PortStep
  <2>2. CASE Waits
    <3>1. bus' = bus /\ cycle' = cycle /\ beats' = beats /\ (strobe' <=> strobe)
      BY <2>2 DEF Waits, Quiet
    <3>2. ce' = "R" => bus # "TD"
      BY <1>3, <2>2 DEF Waits
    <3> QED BY <1>1, <1>2, <2>1, <3>1, <3>2 DEF BusInv
  <2>3. CASE Latches
    <3>1. bus' = "TD" /\ cycle' = cycle /\ beats' = beats /\ (strobe' <=> strobe) /\ ce' # "R"
      BY <1>3, <2>3 DEF Latches
    <3>2. strobe
      BY <1>1, <2>3 DEF Latches, BusInv
    <3> QED BY <1>1, <2>1, <3>1, <3>2 DEF BusInv
  <2>4. CASE Releases
    <3>1. cycle' = cycle /\ beats' = beats /\ bus' \in {"T0", "TD"} /\ ~strobe'
      BY <1>1, <2>4 DEF Releases, BusInv
    <3> QED BY <1>1, <3>1 DEF BusInv
  <2>5. CASE Begins
    <3>1. bus' = "TRC" /\ strobe' /\ ce' # "R" /\ (beats' > 0 => cycle'.op = "rd")
      BY <1>3, <2>5 DEF Begins, Start
    <3> QED BY <3>1
  <2>6. CASE Goes
    <3>1. cycle.op = "rd" /\ cycle' = [cycle EXCEPT !.a = SteppedIn(@)]
      BY <1>1, <2>6 DEF Goes, NextBeat, BusInv
    <3>2. cycle'.op = "rd"
      BY <1>1, <3>1 DEF Shape
    <3>3. bus' = "TD" /\ ce' # "R"
      BY <1>3, <2>6 DEF Goes, NextBeat
    <3> QED BY <3>2, <3>3
  <2> QED BY <2>2, <2>3, <2>4, <2>5, <2>6, BusMoves
<1> QED BY <1>4, <1>5, <1>6 DEF BusInv


SdrFilling(ready) == ready /\ state = "rd_line" /\ kind = "sdr"

LEMMA SdrCacheStep ==
  ASSUME NEW draw, NEW busy, NEW ready, Stepped(draw, busy, ready)
  PROVE  /\ sdr_cache \in Cache /\ sdr_cache' \in Cache
         /\ rst => ~sdr_cache'.v
         /\ Issue(busy) = "sdr_rd" => ~sdr_cache'.v /\ sdr_cache'.a = Line(sdr_a_q)
         /\ ~rst /\ SdrFilling(ready) =>
              /\ sdr_rd_pend /\ ~sdr_cache.v /\ sdr_cache'.v = beat
              /\ sdr_cache.a = Line(sdr_a_q) /\ sdr_cache'.a = Line(sdr_a_q)
              /\ ~beat => sdr_cache'.d[1] = ram[Base(sdr_a_q)]
              /\ beat => /\ sdr_cache'.d[1] = ram[Base(sdr_a_q)]
                         /\ sdr_cache'.d[2] = ram[Other(sdr_a_q)]
         /\ ~rst /\ Issue(busy) # "sdr_rd" /\ ~SdrFilling(ready) =>
              sdr_cache' = Wrote
<1>1. Engaged(busy, ready) /\ Owner \in Addresses
  BY Issues, Asked
<1>2. sdr_cache \in Cache /\ Wrote \in Cache /\ sdr_a_q \in Addresses
  BY <1>1, UpdatedIs DEF Engaged, Shape, Addresses, Wrote
<1>3. Issue(busy) = "sdr_rd" => ~rst /\ state # "rd_line"
  BY Issues
<1>4. ~rst /\ SdrFilling(ready) =>
        /\ sdr_rd_pend /\ Wrote = sdr_cache /\ ~sdr_cache.v /\ sdr_cache.a = Line(sdr_a_q)
        /\ Owner = sdr_a_q
        /\ beat => sdr_cache.d[1] = ram[Base(sdr_a_q)]
  BY Asked DEF SdrFilling, Stepped, IInv, SdrFill, sdr_busy, Owner, Wrote
<1>5. PICK n : n = sdr_cache' /\ n = CacheNext(Wrote, "sdr", ready, Issue(busy), "sdr_rd", sdr_a_q)
  BY Caches
<1>6. /\ n \in Cache
      /\ rst => ~n.v
      /\ ~rst /\ Issue(busy) = "sdr_rd" => ~n.v /\ n.a = Line(sdr_a_q)
      /\ ~rst /\ SdrFilling(ready) =>
            /\ n.v = beat /\ n.a = Wrote.a
            /\ ~beat => n.d[1] = ram[Base(Owner)]
            /\ beat => n.d[1] = Wrote.d[1] /\ n.d[2] = ram[Other(Owner)]
      /\ ~rst /\ Issue(busy) # "sdr_rd" /\ ~SdrFilling(ready) => n = Wrote
  BY <1>1, <1>2, <1>3, <1>5, CacheStep DEF SdrFilling
<1> QED BY <1>2, <1>3, <1>4, <1>5, <1>6

(* Where no read waits, a line stays what it is.                           *)
LEMMA SdrLineStays ==
  ASSUME NEW draw, NEW busy, NEW ready, Stepped(draw, busy, ready), ~rst, ~sdr_rd_pend
  PROVE  sdr_cache' = Wrote
<1>1. Issue(busy) # "sdr_rd" /\ ~SdrFilling(ready)
  BY Issues, SdrCacheStep
<1> QED BY <1>1, SdrCacheStep

LEMMA Stepping ==
  ASSUME NEW a \in SdrAddr
  PROVE  SteppedIn(a) \in SdrAddr /\ Line(SteppedIn(a)) = Line(a)
<1>1. a \in Addresses /\ a[1] = "sdr" /\ a[2] \in Nat
  BY Address DEF Addresses
<1>2. /\ a[2] % 2 \in {0, 1} /\ Base(a) \in SdrAddr /\ Other(a) \in SdrAddr
      /\ Line(Base(a)) = Line(a) /\ Line(Other(a)) = Line(a)
  BY <1>1, TwoWords
<1>3. a[2] = 2 * (a[2] \div 2) + (a[2] % 2) /\ a[2] \div 2 \in Nat
  BY <1>1, Halves
<1>4. CASE a[2] % 2 = 1
  <2>1. a[2] - 1 = 2 * (a[2] \div 2)
    BY <1>1, <1>3, <1>4
  <2>2. SteppedIn(a) = Base(a)
    BY <1>4, <2>1 DEF SteppedIn, Base
  <2> QED BY <1>2, <2>2
<1>5. CASE a[2] % 2 = 0
  <2>1. a[2] + 1 = 2 * (a[2] \div 2) + 1
    BY <1>1, <1>3, <1>5
  <2>2. SteppedIn(a) = Other(a)
    BY <1>5, <2>1 DEF SteppedIn, Other
  <2> QED BY <1>2, <2>2
<1> QED BY <1>2, <1>4, <1>5

LEMMA HeldStep ==
  ASSUME NEW draw, NEW busy, NEW ready, Stepped(draw, busy, ready), ~rst
  PROVE  Held'
<1>1. BusInv /\ Held /\ Shape
  BY DEF Stepped, IInv
<1>2. SUFFICES ASSUME cycle'.op = "rd",
                      bus' = "TD" \/ (bus' = "TRC" /\ old_strobe' /\ ~sdr_rd_pend')
               PROVE  Hit(sdr_cache', cycle'.a)
  BY DEF Held, Hit
<1>3. ASSUME cycle.op = "rd", ~sdr_busy, Hit(sdr_cache, cycle.a)
      PROVE  sdr_cache' = sdr_cache
  BY <1>3, SdrLineStays DEF Wrote, SdrWrite, sdr_wr, sdr_busy
<1>4. CASE Waits
  <2>1. bus' = bus /\ cycle' = cycle /\ old_strobe' = strobe
    BY <1>4, PortStep DEF Waits, Quiet
  <2>2. CASE ~sdr_busy
    <3>1. Hit(sdr_cache, cycle.a)
      <4>1. CASE bus = "TD" \/ old_strobe
        BY <1>1, <1>2, <2>1, <2>2, <4>1 DEF Held, sdr_busy
      <4>2. CASE bus = "TRC" /\ ~old_strobe
        <5>1. SdrRead /\ ~sdr_rd_pend'
          BY <1>1, <1>2, <2>1, <2>2, <4>2 DEF SdrRead, sdr_rd, BusInv
        <5>2. ~Ends("sdr", ready)
          BY <2>2, PortStep DEF sdr_busy
        <5> QED BY <5>1, <5>2, PortStep
      <4> QED BY <1>2, <2>1, <4>1, <4>2
    <3> QED BY <1>2, <1>3, <2>1, <2>2, <3>1
  <2>3. CASE sdr_busy
    <3>1. bus = "TRC" /\ sdr_rd_pend /\ sdr_a_q = cycle.a
      BY <1>1, <1>2, <2>1, <2>3 DEF BusInv, sdr_busy
    <3>2. Ends("sdr", ready)
      BY <1>2, <2>1, <3>1, PortStep
    <3>3. SdrFilling(ready) /\ beat
      BY <3>2 DEF Ends, SdrFilling
    <3>4. sdr_cache'.v /\ sdr_cache'.a = Line(sdr_a_q)
      BY <3>3, SdrCacheStep
    <3> QED BY <2>1, <3>1, <3>4 DEF Hit
  <2> QED BY <2>2, <2>3
<1>5. CASE Latches
  <2>1. cycle' = cycle /\ ~sdr_busy /\ bus = "TRC" /\ old_strobe
    BY <1>1, <1>5 DEF Latches, BusInv
  <2>2. Hit(sdr_cache, cycle.a)
    BY <1>1, <1>2, <2>1 DEF Held, sdr_busy
  <2> QED BY <1>2, <1>3, <2>1, <2>2
<1>6. CASE Releases
  <2>1. cycle' = cycle /\ bus = "TD" /\ ~sdr_busy
    BY <1>1, <1>6 DEF Releases, BusInv
  <2>2. Hit(sdr_cache, cycle.a)
    BY <1>1, <1>2, <2>1 DEF Held
  <2> QED BY <1>2, <1>3, <2>1, <2>2
<1>7. CASE Begins
  <2>1. bus' = "TRC" /\ ~strobe
    BY <1>1, <1>7 DEF Begins, Start, BusInv
  <2> QED BY <1>2, <2>1, PortStep
<1>8. CASE Goes
  <2>1. bus = "TD" /\ ~sdr_busy /\ cycle.op = "rd" /\ cycle' = [cycle EXCEPT !.a = SteppedIn(@)]
    BY <1>1, <1>8 DEF Goes, NextBeat, BusInv
  <2>2. Hit(sdr_cache, cycle.a)
    BY <1>1, <2>1 DEF Held
  <2>3. cycle'.a = SteppedIn(cycle.a) /\ cycle.a \in SdrAddr
    BY <1>1, <2>1 DEF Shape
  <2>4. sdr_cache' = sdr_cache
    BY <1>3, <2>1, <2>2
  <2> QED BY <2>2, <2>3, <2>4, Stepping DEF Hit
<1> QED BY <1>4, <1>5, <1>6, <1>7, <1>8, BusMoves


(* The word last written is in the cycle until memory is to have it.       *)
LEMMA SdrDataStep ==
  ASSUME NEW draw, NEW busy, NEW ready, Stepped(draw, busy, ready), ~rst
  PROVE  SdrData'
<1>1. BusInv /\ SdrData /\ Shape
  BY DEF Stepped, IInv
<1> DEFINE Pending == sdr_wr_pend \/ NewWrite
<1>2. ASSUME NEW a \in SdrAddr
      PROVE  /\ shadow[a] = IF Pending /\ cycle.a = a THEN cycle.d ELSE Latest(a)
             /\ Latest(a)' = IF Issue(busy) = "sdr_wr" /\ a = sdr_a_q THEN sdr_d_q ELSE Latest(a)
  <2>1. Issue(busy) = "wf" => a # wfifo[1].a
    <3>1. a \notin FbAddr
      BY Address DEF Addresses, Banks
    <3>2. wfifo # <<>> => wfifo[1].a \in FbAddr
      BY <1>1, Queued
    <3> QED BY <3>1, <3>2, Issues
  <2>2. a \in Addresses
    BY DEF Addresses
  <2>3. Latest(a)' = IF Issue(busy) = "sdr_wr" /\ a = sdr_a_q THEN sdr_d_q ELSE Latest(a)
    BY <2>1, <2>2, LatestStep
  <2> QED BY <1>1, <2>3 DEF SdrData
<1>3. ASSUME ~sdr_wr_pend, NEW a \in SdrAddr PROVE Latest(a)' = Latest(a)
  BY <1>2, <1>3, Issues
<1> SUFFICES ASSUME NEW a \in SdrAddr
             PROVE  shadow'[a] = IF Pending' /\ cycle'.a = a THEN cycle'.d ELSE Latest(a)'
  BY DEF SdrData
<1>4. CASE Waits /\ sdr_wr_pend
  <2>1. bus = "TRC" /\ bus' = bus /\ cycle' = cycle /\ shadow' = shadow /\ old_strobe'
        /\ sdr_a_q = cycle.a /\ sdr_d_q = cycle.d
    BY <1>1, <1>4, PortStep DEF Waits, Quiet, BusInv, sdr_busy
  <2>2. ~NewWrite'
    BY <2>1 DEF NewWrite
  <2>3. shadow[a] = IF cycle.a = a THEN cycle.d ELSE Latest(a)
    BY <1>2, <1>4
  <2>4. CASE Issue(busy) = "sdr_wr"
    <3>1. ~Pending'
      BY <2>2, <2>4, PortStep
    <3> QED BY <1>2, <2>1, <2>3, <2>4, <3>1
  <2>5. CASE Issue(busy) # "sdr_wr"
    <3>1. Pending'
      BY <1>4, <2>5, PortStep
    <3> QED BY <1>2, <2>1, <2>3, <2>5, <3>1
  <2> QED BY <2>4, <2>5
<1>5. CASE Waits /\ ~sdr_wr_pend
  <2>1. bus' = bus /\ cycle' = cycle /\ shadow' = shadow /\ (strobe' <=> strobe) /\ old_strobe' = strobe
    BY <1>5, PortStep DEF Waits, Quiet
  <2>2. ~NewWrite'
    BY <2>1 DEF NewWrite, sdr_wr
  <2>3. Issue(busy) # "sdr_wr"
    BY <1>5, Issues
  <2>4. Pending' <=> Pending
    BY <1>5, <2>2, <2>3, PortStep, Answers
  <2> QED BY <1>2, <1>3, <1>5, <2>1, <2>4
<1>6. CASE Latches \/ Releases
  <2>1. bus \in {"TRC", "TD"} /\ bus' # "TRC" /\ cycle' = cycle /\ shadow' = shadow
    BY <1>6 DEF Latches, Releases
  <2>2. ~sdr_busy /\ ~SdrWrite /\ ~NewWrite
    BY <1>1, <1>6, Answers DEF Latches, Releases, BusInv, NewWrite
  <2>3. ~Pending /\ ~Pending'
    BY <2>1, <2>2, PortStep DEF sdr_busy, NewWrite
  <2> QED BY <1>2, <1>3, <2>1, <2>2, <2>3 DEF sdr_busy
<1>7. CASE Goes
  <2>1. bus = "TD" /\ bus' = bus /\ shadow' = shadow
    BY <1>7 DEF Goes, NextBeat
  <2>2. ~sdr_busy /\ ~SdrWrite /\ ~NewWrite
    BY <1>1, <2>1, Answers DEF BusInv, NewWrite
  <2>3. ~Pending /\ ~Pending'
    BY <2>1, <2>2, PortStep DEF sdr_busy, NewWrite
  <2> QED BY <1>2, <1>3, <2>1, <2>2, <2>3 DEF sdr_busy
<1>8. CASE Begins
  <2>1. bus # "TRC" /\ bus' = "TRC" /\ strobe' /\ ~strobe /\ ~sdr_busy /\ ~NewWrite
    BY <1>1, <1>8 DEF Begins, Start, BusInv, NewWrite
  <2>2. ~SdrWrite /\ ~Pending /\ ~sdr_wr_pend' /\ ~old_strobe'
    BY <2>1, PortStep, Answers DEF sdr_busy
  <2>3. Latest(a)' = Latest(a) /\ shadow[a] = Latest(a)
    BY <1>2, <1>3, <2>1, <2>2 DEF sdr_busy
  <2>4. CASE cycle'.op = "rd" /\ shadow' = shadow
    <3>1. ~Pending'
      BY <2>2, <2>4 DEF NewWrite, sdr_wr
    <3> QED BY <2>3, <2>4, <3>1
  <2>5. CASE \E b \in SdrAddr, d \in Data :
               cycle' = [op |-> "wr", a |-> b, d |-> d] /\ shadow' = [shadow EXCEPT ![b] = d]
    <3>1. Pending'
      BY <2>1, <2>2, <2>5 DEF NewWrite, sdr_wr
    <3> QED BY <1>1, <2>3, <2>5, <3>1 DEF Shape
  <2> QED BY <1>8, <2>4, <2>5 DEF Begins, Start
<1> QED BY <1>4, <1>5, <1>6, <1>7, <1>8, BusMoves

(* So the line that is held agrees with what was last written,             *)
LEMMA SdrCacheInvStep ==
  ASSUME NEW draw, NEW busy, NEW ready, Stepped(draw, busy, ready), ~rst
  PROVE  SdrCache'
<1>1. BusInv /\ SdrData /\ SdrCache /\ SdrFill /\ Shape
  BY DEF Stepped, IInv
<1>2. sdr_cache \in Cache /\ sdr_cache' \in Cache
  BY SdrCacheStep
<1> SUFFICES ASSUME sdr_cache'.v, NEW a \in SdrAddr, Line(a) = sdr_cache'.a, ~(NewWrite' /\ cycle'.a = a)
             PROVE  Word(sdr_cache', a) = shadow'[a]
  BY DEF SdrCache, Word
<1>3. Issue(busy) # "sdr_rd"
  BY SdrCacheStep
<1>4. a \in Addresses /\ cycle.a \in Addresses /\ sdr_a_q \in Addresses
      /\ cycle.d \in Data /\ cycle.a \in SdrAddr
  BY <1>1 DEF Shape, Addresses
<1>5. CASE SdrFilling(ready)
  <2>1. sdr_rd_pend /\ beat /\ Line(a) = Line(sdr_a_q) /\ bus = "TRC" /\ old_strobe /\ ~sdr_wr_pend
        /\ sdr_cache'.d[1] = ram[Base(sdr_a_q)] /\ sdr_cache'.d[2] = ram[Other(sdr_a_q)]
    BY <1>1, <1>5, SdrCacheStep DEF BusInv, sdr_busy
  <2>2. Base(a) = Base(sdr_a_q) /\ Other(a) = Other(sdr_a_q)
    BY <1>4, <2>1, SameLine
  <2>3. ram[a] = IF a[2] % 2 = 0 THEN sdr_cache'.d[1] ELSE sdr_cache'.d[2]
    BY <1>4, <2>1, <2>2, TwoWords
  <2>4. Word(sdr_cache', a) = IF a[2] % 2 = 0 THEN sdr_cache'.d[1] ELSE sdr_cache'.d[2]
    BY <1>2, <1>4, WordIs
  <2>5. shadow' = shadow
    BY <2>1, Answers DEF Waits, Quiet, sdr_busy
  <2>6. Latest(a) = ram[a]
    <3>1. Filling
      BY <1>5 DEF SdrFilling, Stepped, IInv, EngineInv, Resting, Writing, Tabling, Bursting
    <3>2. cmd.op # "wr"
      BY <3>1 DEF Filling, Asks, Comes, NoCmd
    <3> QED BY <3>2 DEF Latest
  <2>7. shadow[a] = Latest(a)
    BY <1>1, <2>1 DEF SdrData, NewWrite
  <2> QED BY <2>3, <2>4, <2>5, <2>6, <2>7
<1>6. CASE ~SdrFilling(ready) /\ SdrWrite
  <2>1. sdr_cache' = Updated(sdr_cache, cycle.a, cycle.d) /\ shadow' = shadow /\ NewWrite
    BY <1>3, <1>6, SdrCacheStep, Answers DEF Wrote, Waits, Quiet
  <2>2. sdr_cache.v /\ Line(a) = sdr_cache.a
    BY <1>2, <1>4, <2>1, UpdatedIs
  <2>3. shadow[cycle.a] = cycle.d
    BY <1>1, <1>4, <2>1 DEF SdrData
  <2>4. a # cycle.a => Word(sdr_cache, a) = shadow[a]
    BY <1>1, <2>2 DEF SdrCache
  <2>5. CASE Hit(sdr_cache, cycle.a)
    <3>1. Line(a) = Line(cycle.a)
      BY <2>2, <2>5 DEF Hit
    <3>2. Word(Updated(sdr_cache, cycle.a, cycle.d), a) = IF a = cycle.a THEN cycle.d ELSE Word(sdr_cache, a)
      BY <1>2, <1>4, <2>5, <3>1, UpdatedIs
    <3> QED BY <2>1, <2>3, <2>4, <3>2
  <2>6. CASE ~Hit(sdr_cache, cycle.a)
    <3>1. sdr_cache' = sdr_cache /\ a # cycle.a
      BY <1>2, <1>4, <2>1, <2>2, <2>6, UpdatedIs DEF Hit
    <3> QED BY <2>1, <2>4, <3>1
  <2> QED BY <2>5, <2>6
<1>7. CASE ~SdrFilling(ready) /\ ~SdrWrite
  <2>1. sdr_cache' = sdr_cache /\ ~NewWrite
    BY <1>3, <1>7, SdrCacheStep, Answers DEF Wrote
  <2>2. Word(sdr_cache, a) = shadow[a]
    BY <1>1, <2>1 DEF SdrCache
  <2>3. shadow'[a] = shadow[a]
    <3>1. CASE shadow' = shadow
      BY <3>1
    <3>2. CASE shadow' # shadow
      <4>1. Begins
        BY <3>2, BusMoves DEF Waits, Quiet, Latches, Releases, Goes, NextBeat
      <4>2. PICK b \in SdrAddr, d \in Data :
               cycle' = [op |-> "wr", a |-> b, d |-> d] /\ shadow' = [shadow EXCEPT ![b] = d]
        BY <3>2, <4>1 DEF Begins, Start
      <4>3. NewWrite'
        <5>1. bus' = "TRC" /\ strobe' /\ ~old_strobe'
          BY <1>1, <4>1, PortStep DEF Begins, Start, BusInv
        <5> QED BY <4>2, <5>1 DEF NewWrite, sdr_wr
      <4>4. a # b
        BY <4>2, <4>3
      <4> QED BY <1>1, <4>2, <4>4 DEF Shape
    <3> QED BY <3>1, <3>2
  <2> QED BY <2>1, <2>2, <2>3
<1> QED BY <1>5, <1>6, <1>7

(* and the line being filled is the one the waiting read is of.            *)
LEMMA SdrFillStep ==
  ASSUME NEW draw, NEW busy, NEW ready, Stepped(draw, busy, ready), ~rst
  PROVE  SdrFill'
<1> SUFFICES ASSUME state' = "rd_line", kind' = "sdr"
             PROVE  /\ sdr_rd_pend' /\ ~sdr_cache'.v /\ sdr_cache'.a = Line(sdr_a_q')
                    /\ beat' => sdr_cache'.d[1] = ram'[Base(sdr_a_q')]
  BY DEF SdrFill, Line, Base
<1>1. Engaged(busy, ready) /\ Shape /\ SdrFill
  BY Issues DEF Stepped, IInv
<1>2. Engine(Issue(busy), busy, ready)
  BY <1>1 DEF Engaged
<1>3. state \in {"idle", "rd_line"}
  BY <1>2 DEF Engine, InIdle, InWr, InRdLine, InLpTab, InLpBurst
<1>4. CASE state = "idle"
  <2>1. Issue(busy) = "sdr_rd" /\ ~beat'
    <3>1. InIdle(Issue(busy), busy)
      BY <1>2, <1>4 DEF Engine, InWr, InRdLine, InLpTab, InLpBurst
    <3>2. CASE Issue(busy) = "fbd_rd"
      BY <3>1, <3>2 DEF InIdle
    <3>3. CASE Issue(busy) = "sdr_rd"
      BY <3>1, <3>3 DEF InIdle
    <3>4. CASE Issue(busy) \in {"none", "tel", "lp", "wf", "sdr_wr"}
      BY <1>4, <3>1, <3>4 DEF InIdle
    <3> QED BY <3>2, <3>3, <3>4, Issues
  <2>2. sdr_rd_pend /\ sdr_a_q' = sdr_a_q
    BY <2>1, Issues, Asked DEF sdr_busy
  <2>3. sdr_rd_pend'
    BY <1>4, <2>2, PortStep DEF Ends
  <2> QED BY <2>1, <2>2, <2>3, SdrCacheStep
<1>5. CASE state = "rd_line"
  <2>1. kind = "sdr" /\ ~(ready /\ beat) /\ (beat' <=> (beat \/ ready))
    BY <1>2, <1>5 DEF Engine, InIdle, InWr, InRdLine, InLpTab, InLpBurst
  <2>2. sdr_rd_pend /\ sdr_a_q' = sdr_a_q /\ ~sdr_cache.v /\ sdr_cache.a = Line(sdr_a_q)
        /\ (beat => sdr_cache.d[1] = ram[Base(sdr_a_q)])
    BY <1>1, <1>5, <2>1, Asked DEF SdrFill, sdr_busy
  <2>3. sdr_rd_pend' /\ ram' = ram
    BY <1>5, <2>1, <2>2, PortStep, LatestStep DEF Ends
  <2>4. CASE ready
    BY <1>5, <2>1, <2>2, <2>3, <2>4, SdrCacheStep DEF SdrFilling
  <2>5. CASE ~ready
    <3>1. sdr_cache' = sdr_cache
      BY <1>5, <2>2, <2>5, SdrCacheStep, Issues, Asked DEF SdrFilling, Wrote, sdr_busy
    <3> QED BY <2>1, <2>2, <2>3, <2>5, <3>1
  <2> QED BY <2>4, <2>5, <1>1 DEF Engaged
<1> QED BY <1>3, <1>4, <1>5

-----------------------------------------------------------------------------
(* The draw port's side.  The queue and what was last drawn agree with     *)
(* memory when a write is put into the one and the other,                  *)
LEMMA PutAgrees ==
  ASSUME NEW q \in Seq([a : FbAddr, d : Data]), NEW b \in FbAddr, NEW d \in Data,
         NEW mem, NEW seen \in [FbAddr -> Data], Agrees(q, mem, seen)
  PROVE  Agrees(Append(q, [a |-> b, d |-> d]), mem, [seen EXCEPT ![b] = d])
<1> DEFINE e == [a |-> b, d |-> d]
           p == Append(q, e)
           s == [seen EXCEPT ![b] = d]
<1>1. /\ Len(p) = Len(q) + 1 /\ Len(q) \in Nat
      /\ \A i \in 1 .. Len(q) : p[i] = q[i]
      /\ p[Len(q) + 1] = e
  OBVIOUS
<1> HIDE DEF p
<1>2. \A a \in FbAddr : s[a] = IF a = b THEN d ELSE seen[a]
  OBVIOUS
<1> HIDE DEF s
<1> SUFFICES ASSUME NEW a \in FbAddr
             PROVE  /\ \A i \in 1 .. Len(p) : p[i].a = a /\ NoneAfter(p, a, i) => p[i].d = s[a]
                    /\ NoneAfter(p, a, 0) => mem[a] = s[a]
  BY DEF Agrees, p, s
<1>3. ASSUME NEW i \in 0 .. Len(q), NoneAfter(p, a, i) PROVE a # b /\ NoneAfter(q, a, i)
  <2>1. a # b
    BY <1>1, <1>3 DEF NoneAfter
  <2>2. ASSUME NEW j \in i + 1 .. Len(q) PROVE q[j].a # a
    <3>1. j \in i + 1 .. Len(p) /\ j \in 1 .. Len(q)
      BY <1>1
    <3> QED BY <1>1, <1>3, <3>1 DEF NoneAfter
  <2> QED BY <2>1, <2>2 DEF NoneAfter
<1>4. ASSUME NEW i \in 1 .. Len(p), p[i].a = a, NoneAfter(p, a, i) PROVE p[i].d = s[a]
  <2>1. CASE i = Len(q) + 1
    BY <1>1, <1>2, <1>4, <2>1
  <2>2. CASE i \in 1 .. Len(q)
    <3>1. p[i] = q[i] /\ a # b /\ NoneAfter(q, a, i)
      BY <1>1, <1>3, <1>4, <2>2
    <3> QED BY <1>2, <1>4, <2>2, <3>1 DEF Agrees
  <2> QED BY <1>1, <2>1, <2>2
<1>5. NoneAfter(p, a, 0) => mem[a] = s[a]
  BY <1>1, <1>2, <1>3 DEF Agrees
<1> QED BY <1>4, <1>5

(* and when the first of the queue goes to memory.                         *)
LEMMA TakeAgrees ==
  ASSUME NEW q \in Seq([a : FbAddr, d : Data]), q # <<>>,
         NEW mem \in [FbAddr -> Data], NEW seen, Agrees(q, mem, seen)
  PROVE  Agrees(Tail(q), [mem EXCEPT ![q[1].a] = q[1].d], seen)
<1> DEFINE t == Tail(q)
           m == [mem EXCEPT ![q[1].a] = q[1].d]
<1>1. /\ Len(t) = Len(q) - 1 /\ Len(q) \in Nat \ {0} /\ q[1].a \in FbAddr
      /\ \A i \in 1 .. Len(q) - 1 : t[i] = q[i + 1]
  <2> DEFINE E == [a : FbAddr, d : Data]
  <2>1. q \in Seq(E)
    OBVIOUS
  <2> HIDE DEF E
  <2>2. /\ q[1] \in E /\ Len(t) = Len(q) - 1 /\ Len(q) \in Nat \ {0}
        /\ \A i \in 1 .. Len(q) - 1 : t[i] = q[i + 1]
    BY <2>1, Front
  <2> QED BY <2>2 DEF E
<1>2. \A a \in FbAddr : m[a] = IF a = q[1].a THEN q[1].d ELSE mem[a]
  BY <1>1
<1> HIDE DEF t, m
<1> SUFFICES ASSUME NEW a \in FbAddr
             PROVE  /\ \A i \in 1 .. Len(t) : t[i].a = a /\ NoneAfter(t, a, i) => t[i].d = seen[a]
                    /\ NoneAfter(t, a, 0) => m[a] = seen[a]
  BY DEF Agrees, t, m
<1>3. ASSUME NEW i \in 0 .. Len(t), NoneAfter(t, a, i) PROVE NoneAfter(q, a, i + 1)
  <2>1. ASSUME NEW j \in i + 1 + 1 .. Len(q) PROVE q[j].a # a
    <3>1. j - 1 \in i + 1 .. Len(t) /\ j - 1 \in 1 .. Len(q) - 1 /\ (j - 1) + 1 = j
      BY <1>1
    <3>2. t[j - 1] = q[j]
      BY <1>1, <3>1
    <3> QED BY <1>3, <3>1, <3>2 DEF NoneAfter
  <2> QED BY <2>1 DEF NoneAfter
<1>4. ASSUME NEW i \in 1 .. Len(t), t[i].a = a, NoneAfter(t, a, i) PROVE t[i].d = seen[a]
  <2>1. i + 1 \in 1 .. Len(q) /\ t[i] = q[i + 1] /\ NoneAfter(q, a, i + 1)
    BY <1>1, <1>3, <1>4
  <2> QED BY <1>4, <2>1 DEF Agrees
<1>5. ASSUME NoneAfter(t, a, 0) PROVE m[a] = seen[a]
  <2>1. NoneAfter(q, a, 1)
    BY <1>1, <1>3, <1>5
  <2>2. CASE q[1].a = a
    <3>1. 1 \in 1 .. Len(q)
      BY <1>1
    <3> QED BY <1>2, <2>1, <2>2, <3>1 DEF Agrees
  <2>3. CASE q[1].a # a
    <3>1. NoneAfter(q, a, 0)
      BY <1>1, <2>1, <2>3 DEF NoneAfter
    <3> QED BY <1>2, <2>3, <3>1 DEF Agrees
  <2> QED BY <2>2, <2>3
<1> QED BY <1>4, <1>5


(* The user of the port keeps its rules.                                   *)
LEMMA Drawing ==
  ASSUME NEW draw, NEW busy, NEW ready, Stepped(draw, busy, ready)
  PROVE  /\ draw.op \in {"none", "rd", "wr"}
         /\ draw.op \in {"rd", "wr"} => ~rst /\ ~fbd_rd_pend /\ draw.a \in FbAddr
         /\ draw.op = "wr" => draw.d \in Data /\ Len(wfifo) < WfSize - 1 /\ ~wf_full
         /\ fbd_rd_pend \/ rst => draw.op = "none"
<1>1. draw \in Draws /\ Queue /\ Len(wfifo) \in Nat /\ WfSize \in Nat
  BY SizeAssumption DEF Stepped, IInv, Shape
<1>2. CASE draw = NoDraw
  BY <1>2 DEF NoDraw
<1>3. CASE draw # NoDraw
  <2>1. ~rst /\ ~fbd_rd_pend
    BY <1>1, <1>3 DEF Draws
  <2>2. CASE draw \in {[op |-> "rd", a |-> a] : a \in FbAddr}
    BY <2>1, <2>2
  <2>3. CASE draw \in {[op |-> "wr", a |-> a, d |-> d] : a \in FbAddr, d \in Data} /\ ~ungranted
    <3>1. PICK a \in FbAddr, d \in Data : draw = [op |-> "wr", a |-> a, d |-> d]
      BY <2>3
    <3>2. Len(wfifo) < WfSize - 1 /\ Len(wfifo) # WfSize - 1
      BY <1>1, <2>3 DEF Queue
    <3> QED BY <2>1, <3>1, <3>2 DEF wf_full
  <2> QED BY <1>1, <1>3, <2>2, <2>3 DEF Draws
<1> QED BY <1>2, <1>3

FbdFilling(ready) == ready /\ state = "rd_line" /\ kind = "fbd"

LEMMA FbdCacheStep ==
  ASSUME NEW draw, NEW busy, NEW ready, Stepped(draw, busy, ready)
  PROVE  /\ fbd_cache \in Cache /\ fbd_cache' \in Cache
         /\ rst => ~fbd_cache'.v
         /\ Issue(busy) = "fbd_rd" => ~fbd_cache'.v /\ fbd_cache'.a = Line(fbd_ra_q)
         /\ ~rst /\ FbdFilling(ready) =>
              /\ fbd_rd_pend /\ ~fbd_cache.v /\ fbd_cache'.v = beat
              /\ fbd_cache.a = Line(fbd_ra_q) /\ fbd_cache'.a = Line(fbd_ra_q)
              /\ ~beat => fbd_cache'.d[1] = ram[Base(fbd_ra_q)]
              /\ beat => /\ fbd_cache'.d[1] = ram[Base(fbd_ra_q)]
                         /\ fbd_cache'.d[2] = ram[Other(fbd_ra_q)]
         /\ ~rst /\ Issue(busy) # "fbd_rd" /\ ~FbdFilling(ready) => fbd_cache' = Drew(draw)
<1>1. Engaged(busy, ready) /\ Owner \in Addresses
  BY Issues, Asked
<1>2. fbd_cache \in Cache /\ Drew(draw) \in Cache /\ fbd_ra_q \in Addresses
  BY <1>1, Drawing, UpdatedIs DEF Engaged, Shape, Addresses, Drew
<1>3. Issue(busy) = "fbd_rd" => ~rst /\ state # "rd_line"
  BY Issues
<1>4. ~rst /\ FbdFilling(ready) =>
        /\ fbd_rd_pend /\ Drew(draw) = fbd_cache /\ ~fbd_cache.v /\ fbd_cache.a = Line(fbd_ra_q)
        /\ Owner = fbd_ra_q
        /\ beat => fbd_cache.d[1] = ram[Base(fbd_ra_q)]
  BY Drawing DEF FbdFilling, Stepped, IInv, FbdFill, Owner, Drew
<1>5. PICK n : n = fbd_cache' /\ n = CacheNext(Drew(draw), "fbd", ready, Issue(busy), "fbd_rd", fbd_ra_q)
  BY Caches
<1>6. /\ n \in Cache
      /\ rst => ~n.v
      /\ ~rst /\ Issue(busy) = "fbd_rd" => ~n.v /\ n.a = Line(fbd_ra_q)
      /\ ~rst /\ FbdFilling(ready) =>
            /\ n.v = beat /\ n.a = Drew(draw).a
            /\ ~beat => n.d[1] = ram[Base(Owner)]
            /\ beat => n.d[1] = Drew(draw).d[1] /\ n.d[2] = ram[Other(Owner)]
      /\ ~rst /\ Issue(busy) # "fbd_rd" /\ ~FbdFilling(ready) => n = Drew(draw)
  BY <1>1, <1>2, <1>3, <1>5, CacheStep DEF FbdFilling
<1> QED BY <1>2, <1>3, <1>4, <1>5, <1>6

(* The queue with the write of this clock in it.                           *)
Put(draw) == IF draw.op = "wr" THEN Append(wfifo, [a |-> draw.a, d |-> draw.d]) ELSE wfifo

LEMMA DrawStep ==
  ASSUME NEW draw, NEW busy, NEW ready, Stepped(draw, busy, ready)
  PROVE  /\ wfifo' = IF rst THEN <<>> ELSE IF Issue(busy) = "wf" THEN Tail(Put(draw)) ELSE Put(draw)
         /\ fbd_ra_q' = IF draw.op = "rd" THEN draw.a ELSE fbd_ra_q
         /\ fbd_rdy' <=> (draw.op = "rd" /\ Hit(fbd_cache, draw.a)) \/ Ends("fbd", ready)
         /\ fbd_rd_pend' <=> /\ ~rst /\ ~Ends("fbd", ready)
                             /\ fbd_rd_pend \/ (draw.op = "rd" /\ ~Hit(fbd_cache, draw.a))
         /\ ungranted' <=> Len(wfifo) >= WfSize - 2
         /\ ~rst => drawn' = IF draw.op = "wr" THEN [drawn EXCEPT ![draw.a] = draw.d] ELSE drawn
         /\ rst => drawn' = [a \in FbAddr |-> ram[a]]
         /\ Put(draw) \in Seq([a : FbAddr, d : Data])
         /\ Len(Put(draw)) = IF draw.op = "wr" THEN Len(wfifo) + 1 ELSE Len(wfifo)
         /\ wfifo # <<>> => Put(draw) # <<>> /\ Put(draw)[1] = wfifo[1]
<1>1. DrawPort(draw, Issue(busy), ready) /\ DrawHistory(draw)
  BY DEF Stepped, Clock
<1>2. (draw.op = "wr" => ~wf_full) /\ (draw.op = "rd" => ~fbd_rd_pend)
  BY Drawing
<1>3. wfifo' = IF rst THEN <<>> ELSE IF Issue(busy) = "wf" THEN Tail(Put(draw)) ELSE Put(draw)
  <2>1. CASE draw.op = "wr"
    BY <1>1, <1>2, <2>1 DEF DrawPort, Put
  <2>2. CASE draw.op # "wr"
    BY <1>1, <2>2 DEF DrawPort, Put
  <2> QED BY <2>1, <2>2
<1>4. fbd_ra_q' = IF draw.op = "rd" THEN draw.a ELSE fbd_ra_q
  BY <1>1, <1>2 DEF DrawPort
<1>5. /\ fbd_rdy' <=> (draw.op = "rd" /\ Hit(fbd_cache, draw.a)) \/ Ends("fbd", ready)
      /\ fbd_rd_pend' <=> /\ ~rst /\ ~Ends("fbd", ready)
                          /\ fbd_rd_pend \/ (draw.op = "rd" /\ ~Hit(fbd_cache, draw.a))
  BY <1>1, <1>2 DEF DrawPort
<1>6. /\ ungranted' <=> Len(wfifo) >= WfSize - 2
      /\ ~rst => drawn' = IF draw.op = "wr" THEN [drawn EXCEPT ![draw.a] = draw.d] ELSE drawn
      /\ rst => drawn' = [a \in FbAddr |-> ram[a]]
  BY <1>1 DEF DrawHistory, fbd_busy
<1>7. wfifo \in Seq([a : FbAddr, d : Data])
  BY DEF Stepped, IInv, Shape
<1>8. draw.op = "wr" => [a |-> draw.a, d |-> draw.d] \in [a : FbAddr, d : Data]
  BY Drawing
<1>9. /\ Put(draw) \in Seq([a : FbAddr, d : Data])
      /\ Len(Put(draw)) = IF draw.op = "wr" THEN Len(wfifo) + 1 ELSE Len(wfifo)
      /\ wfifo # <<>> => Put(draw) # <<>> /\ Put(draw)[1] = wfifo[1]
  <2> DEFINE E == [a : FbAddr, d : Data]
             e == [a |-> draw.a, d |-> draw.d]
  <2>1. wfifo \in Seq(E) /\ (draw.op = "wr" => e \in E)
    BY <1>7, <1>8
  <2>2. Put(draw) = IF draw.op = "wr" THEN Append(wfifo, e) ELSE wfifo
    BY DEF Put
  <2> HIDE DEF E, e
  <2>3. wfifo # <<>> => Len(wfifo) > 0
    BY <2>1, Front
  <2>4. CASE draw.op = "wr"
    <3>1. /\ Append(wfifo, e) \in Seq(E) /\ Len(Append(wfifo, e)) = Len(wfifo) + 1
          /\ Append(wfifo, e) # <<>>
          /\ wfifo # <<>> => Append(wfifo, e)[1] = wfifo[1]
      BY <2>1, <2>3, <2>4
    <3> QED BY <2>2, <2>4, <3>1 DEF E
  <2>5. CASE draw.op # "wr"
    BY <2>1, <2>2, <2>5 DEF E
  <2> QED BY <2>4, <2>5
<1> QED BY <1>3, <1>4, <1>5, <1>6, <1>9

(* The queue never overflows: the rule leaves room for the write under way.*)
LEMMA QueueStep ==
  ASSUME NEW draw, NEW busy, NEW ready, Stepped(draw, busy, ready)
  PROVE  Queue' /\ wfifo' \in Seq([a : FbAddr, d : Data])
<1> DEFINE E == [a : FbAddr, d : Data]
           p == Put(draw)
<1>1. Queue /\ WfSize \in Nat /\ WfSize >= 4 /\ Len(wfifo) \in Nat
  BY SizeAssumption DEF Stepped, IInv, Shape
<1>2. /\ p \in Seq(E) /\ Len(p) = IF draw.op = "wr" THEN Len(wfifo) + 1 ELSE Len(wfifo)
      /\ (Issue(busy) = "wf" => p # <<>>)
      /\ wfifo' = IF rst THEN <<>> ELSE IF Issue(busy) = "wf" THEN Tail(p) ELSE p
      /\ ungranted' <=> Len(wfifo) >= WfSize - 2
  BY DrawStep, Issues
<1> HIDE DEF E, p
<1>3. wfifo' \in Seq(E) /\ Len(wfifo') \in Nat /\ (~rst => Len(wfifo') <= Len(p)) /\ (rst => Len(wfifo') = 0)
  BY <1>2, Front
<1>4. Len(wfifo') < WfSize /\ (~ungranted' => Len(wfifo') < WfSize - 1)
  <2>1. draw.op = "wr" => Len(wfifo) < WfSize - 1
    BY Drawing
  <2>2. CASE rst
    BY <1>1, <1>3, <2>2
  <2>3. CASE ~rst /\ draw.op = "wr"
    BY <1>1, <1>2, <1>3, <2>1, <2>3
  <2>4. CASE ~rst /\ draw.op # "wr"
    BY <1>1, <1>2, <1>3, <2>4 DEF Queue
  <2> QED BY <2>2, <2>3, <2>4
<1>5. fbd_rd_pend' => fbd_rdy' = FALSE
  <2>1. fbd_rdy' \in BOOLEAN
    BY DEF Stepped, Clock, DrawPort
  <2>2. fbd_rd_pend => draw.op # "rd"
    BY Drawing
  <2> QED BY <2>1, <2>2, DrawStep
<1> QED BY <1>3, <1>4, <1>5 DEF Queue, E

LEMMA FbdDataStep ==
  ASSUME NEW draw, NEW busy, NEW ready, Stepped(draw, busy, ready), ~rst
  PROVE  FbdData'
<1> DEFINE E == [a : FbAddr, d : Data]
<1>1. FbdData /\ Shape /\ drawn \in [FbAddr -> Data]
  BY DEF Stepped, IInv, Shape
<1>2. wfifo \in Seq(E)
  BY <1>1 DEF Shape
<1>3. PICK mem : mem = [a \in FbAddr |-> Latest(a)]
  OBVIOUS
<1>4. PICK p, seen : p = Put(draw) /\ seen = drawn' /\ p \in Seq(E)
  BY DrawStep
<1>5. Agrees(p, mem, seen)
  <2>1. Agrees(wfifo, mem, drawn)
    BY <1>1, <1>3 DEF FbdData
  <2>2. CASE draw.op = "wr"
    <3>1. p = Append(wfifo, [a |-> draw.a, d |-> draw.d]) /\ seen = [drawn EXCEPT ![draw.a] = draw.d]
      BY <1>4, <2>2, DrawStep DEF Put
    <3>2. draw.a \in FbAddr /\ draw.d \in Data
      BY <2>2, Drawing
    <3> QED BY <1>1, <1>2, <2>1, <3>1, <3>2, PutAgrees
  <2>3. CASE draw.op # "wr"
    <3>1. p = wfifo /\ seen = drawn
      BY <1>4, <2>3, DrawStep DEF Put
    <3> QED BY <2>1, <3>1
  <2> QED BY <2>2, <2>3
<1>6. mem \in [FbAddr -> Data]
  <2>1. \A a \in FbAddr : Latest(a) \in Data
    BY <1>1 DEF Latest, Shape, Addresses
  <2> QED BY <1>3, <2>1
<1>7. ASSUME NEW a \in FbAddr
      PROVE  Latest(a)' = IF Issue(busy) = "wf" /\ a = wfifo[1].a THEN wfifo[1].d ELSE Latest(a)
  <2>1. a \in Addresses /\ sdr_a_q \in SdrAddr
    BY <1>1 DEF Addresses, Shape
  <2>2. a # sdr_a_q
    BY <2>1, Address DEF Addresses, Banks
  <2> QED BY <2>1, <2>2, LatestStep
<1>8. PICK q, next : q = wfifo' /\ next = [a \in FbAddr |-> Latest(a)']
  OBVIOUS
<1>9. Agrees(q, next, seen)
  <2>1. CASE Issue(busy) = "wf"
    <3>1. wfifo # <<>> /\ p # <<>> /\ p[1] = wfifo[1] /\ q = Tail(p)
      BY <1>4, <1>8, <2>1, DrawStep, Issues
    <3>2. next = [mem EXCEPT ![p[1].a] = p[1].d]
      BY <1>3, <1>6, <1>7, <1>8, <2>1, <3>1
    <3> QED BY <1>4, <1>5, <1>6, <3>1, <3>2, TakeAgrees
  <2>2. CASE Issue(busy) # "wf"
    <3>1. q = p
      BY <1>4, <1>8, <2>2, DrawStep
    <3>2. next = mem
      BY <1>3, <1>7, <1>8, <2>2
    <3> QED BY <1>5, <3>1, <3>2
  <2> QED BY <2>1, <2>2
<1> QED BY <1>4, <1>8, <1>9 DEF FbdData, Agrees, NoneAfter


(* So the line the draw port holds agrees with what was last drawn,        *)
LEMMA FbdCacheInvStep ==
  ASSUME NEW draw, NEW busy, NEW ready, Stepped(draw, busy, ready), ~rst
  PROVE  FbdCache'
<1>1. FbdData /\ FbdCache /\ FbdFill /\ Shape /\ drawn \in [FbAddr -> Data]
  BY DEF Stepped, IInv, Shape
<1>2. fbd_cache \in Cache /\ fbd_cache' \in Cache
  BY FbdCacheStep
<1>3. ASSUME fbd_cache'.v, NEW a \in FbAddr, Line(a) = fbd_cache'.a
      PROVE  Word(fbd_cache', a) = drawn'[a]
  <2>1. Issue(busy) # "fbd_rd"
    BY <1>3, FbdCacheStep
  <2>2. a \in Addresses /\ fbd_ra_q \in Addresses
    BY <1>1 DEF Shape, Addresses
  <2>3. CASE FbdFilling(ready)
    <3>1. fbd_rd_pend /\ beat /\ Line(a) = Line(fbd_ra_q) /\ wfifo = <<>>
          /\ fbd_cache'.d[1] = ram[Base(fbd_ra_q)] /\ fbd_cache'.d[2] = ram[Other(fbd_ra_q)]
      BY <1>1, <1>3, <2>3, FbdCacheStep DEF FbdFill, FbdFilling
    <3>2. Base(a) = Base(fbd_ra_q) /\ Other(a) = Other(fbd_ra_q)
      BY <2>2, <3>1, SameLine
    <3>3. ram[a] = IF a[2] % 2 = 0 THEN fbd_cache'.d[1] ELSE fbd_cache'.d[2]
      BY <2>2, <3>1, <3>2, TwoWords
    <3>4. Word(fbd_cache', a) = IF a[2] % 2 = 0 THEN fbd_cache'.d[1] ELSE fbd_cache'.d[2]
      BY <1>2, <2>2, WordIs
    <3>5. drawn' = drawn
      BY <3>1, Drawing, DrawStep
    <3>6. Latest(a) = ram[a]
      <4>1. Filling
        BY <2>3 DEF FbdFilling, Stepped, IInv, EngineInv, Resting, Writing, Tabling, Bursting
      <4>2. cmd.op # "wr"
        BY <4>1 DEF Filling, Asks, Comes, NoCmd
      <4> QED BY <4>2 DEF Latest
    <3>7. drawn[a] = Latest(a)
      <4>1. NoneAfter(wfifo, a, 0)
        BY <3>1 DEF NoneAfter
      <4> QED BY <1>1, <4>1 DEF FbdData, Agrees
    <3> QED BY <3>3, <3>4, <3>5, <3>6, <3>7
  <2>4. CASE ~FbdFilling(ready) /\ draw.op = "wr"
    <3>1. /\ fbd_cache' = Updated(fbd_cache, draw.a, draw.d)
          /\ drawn' = [drawn EXCEPT ![draw.a] = draw.d]
          /\ draw.a \in FbAddr /\ draw.a \in Addresses /\ draw.d \in Data
      BY <2>1, <2>4, FbdCacheStep, Drawing, DrawStep DEF Drew, Addresses
    <3>2. fbd_cache.v /\ Line(a) = fbd_cache.a
      BY <1>2, <1>3, <3>1, UpdatedIs
    <3>3. Word(fbd_cache, a) = drawn[a]
      BY <1>1, <3>2 DEF FbdCache
    <3>4. drawn'[a] = IF a = draw.a THEN draw.d ELSE drawn[a]
      BY <1>1, <3>1
    <3>5. CASE Hit(fbd_cache, draw.a)
      <4>1. Line(a) = Line(draw.a)
        BY <3>2, <3>5 DEF Hit
      <4>2. Word(Updated(fbd_cache, draw.a, draw.d), a) = IF a = draw.a THEN draw.d ELSE Word(fbd_cache, a)
        BY <1>2, <2>2, <3>1, <3>5, <4>1, UpdatedIs
      <4> QED BY <3>1, <3>3, <3>4, <4>2
    <3>6. CASE ~Hit(fbd_cache, draw.a)
      <4>1. fbd_cache' = fbd_cache /\ a # draw.a
        BY <1>2, <3>1, <3>2, <3>6, UpdatedIs DEF Hit
      <4> QED BY <3>3, <3>4, <4>1
    <3> QED BY <3>5, <3>6
  <2>5. CASE ~FbdFilling(ready) /\ draw.op # "wr"
    BY <1>1, <1>3, <2>1, <2>5, FbdCacheStep, DrawStep DEF Drew, FbdCache
  <2> QED BY <2>3, <2>4, <2>5
<1>4. fbd_rdy' => Hit(fbd_cache', fbd_ra_q')
  <2>1. CASE Ends("fbd", ready)
    <3>1. FbdFilling(ready) /\ beat
      BY <2>1 DEF Ends, FbdFilling
    <3>2. fbd_rd_pend /\ fbd_cache'.v /\ fbd_cache'.a = Line(fbd_ra_q)
      BY <3>1, FbdCacheStep
    <3>3. fbd_ra_q' = fbd_ra_q
      BY <3>2, Asked
    <3> QED BY <3>2, <3>3 DEF Hit
  <2>2. CASE draw.op = "rd" /\ Hit(fbd_cache, draw.a)
    <3>1. ~fbd_rd_pend /\ fbd_ra_q' = draw.a
      BY <2>2, Drawing, DrawStep
    <3>2. Issue(busy) # "fbd_rd" /\ ~FbdFilling(ready)
      BY <3>1, Issues, FbdCacheStep
    <3>3. fbd_cache' = fbd_cache
      BY <2>2, <3>2, FbdCacheStep DEF Drew
    <3> QED BY <2>2, <3>1, <3>3
  <2> QED BY <2>1, <2>2, DrawStep
<1> QED BY <1>3, <1>4 DEF FbdCache, Word

(* and the line being filled is of the read that waits, nothing queued.    *)
LEMMA FbdFillStep ==
  ASSUME NEW draw, NEW busy, NEW ready, Stepped(draw, busy, ready), ~rst
  PROVE  FbdFill'
<1> SUFFICES ASSUME state' = "rd_line", kind' = "fbd"
             PROVE  /\ fbd_rd_pend' /\ ~fbd_cache'.v /\ fbd_cache'.a = Line(fbd_ra_q')
                    /\ wfifo' = <<>>
                    /\ beat' => fbd_cache'.d[1] = ram'[Base(fbd_ra_q')]
  BY DEF FbdFill, Line, Base
<1>1. Engaged(busy, ready) /\ Shape /\ FbdFill
  BY Issues DEF Stepped, IInv
<1>2. Engine(Issue(busy), busy, ready)
  BY <1>1 DEF Engaged
<1>3. state \in {"idle", "rd_line"}
  BY <1>2 DEF Engine, InIdle, InWr, InRdLine, InLpTab, InLpBurst
<1>4. ASSUME fbd_rd_pend, wfifo = <<>>, Issue(busy) # "wf"
      PROVE  wfifo' = <<>> /\ fbd_ra_q' = fbd_ra_q /\ draw.op = "none"
  BY <1>4, Drawing, DrawStep DEF Put
<1>5. CASE state = "idle"
  <2>1. Issue(busy) = "fbd_rd" /\ ~beat'
    <3>1. InIdle(Issue(busy), busy)
      BY <1>2, <1>5 DEF Engine, InWr, InRdLine, InLpTab, InLpBurst
    <3>2. CASE Issue(busy) = "fbd_rd"
      BY <3>1, <3>2 DEF InIdle
    <3>3. CASE Issue(busy) = "sdr_rd"
      BY <3>1, <3>3 DEF InIdle
    <3>4. CASE Issue(busy) \in {"none", "tel", "lp", "wf", "sdr_wr"}
      BY <1>5, <3>1, <3>4 DEF InIdle
    <3> QED BY <3>2, <3>3, <3>4, Issues
  <2>2. fbd_rd_pend /\ fbd_ra_q' = fbd_ra_q /\ wfifo' = <<>>
    BY <1>4, <2>1, Issues
  <2>3. fbd_rd_pend'
    BY <1>5, <2>2, DrawStep DEF Ends
  <2> QED BY <2>1, <2>2, <2>3, FbdCacheStep
<1>6. CASE state = "rd_line"
  <2>1. kind = "fbd" /\ ~(ready /\ beat) /\ (beat' <=> (beat \/ ready))
    BY <1>2, <1>6 DEF Engine, InIdle, InWr, InRdLine, InLpTab, InLpBurst
  <2>2. fbd_rd_pend /\ wfifo = <<>> /\ ~fbd_cache.v /\ fbd_cache.a = Line(fbd_ra_q)
        /\ (beat => fbd_cache.d[1] = ram[Base(fbd_ra_q)])
    BY <1>1, <1>6, <2>1 DEF FbdFill
  <2>3. Issue(busy) = "none"
    BY <1>6, Issues
  <2>4. wfifo' = <<>> /\ fbd_ra_q' = fbd_ra_q /\ draw.op = "none"
    BY <1>4, <2>2, <2>3
  <2>5. fbd_rd_pend' /\ ram' = ram
    BY <1>6, <2>1, <2>2, DrawStep, LatestStep DEF Ends
  <2>6. CASE ready
    BY <1>6, <2>1, <2>2, <2>4, <2>5, <2>6, FbdCacheStep DEF FbdFilling
  <2>7. CASE ~ready
    <3>1. fbd_cache' = fbd_cache
      BY <2>3, <2>4, <2>7, FbdCacheStep DEF FbdFilling, Drew
    <3> QED BY <2>1, <2>2, <2>4, <2>5, <2>7, <3>1
  <2> QED BY <2>6, <2>7, <1>1 DEF Engaged
<1> QED BY <1>3, <1>5, <1>6

(* A reset ends with nothing on its way and nothing held.                  *)
LEMMA ResetEnds ==
  ASSUME NEW draw, NEW busy, NEW ready, Stepped(draw, busy, ready), rst, ~rst'
  PROVE  BusInv' /\ Held' /\ SdrData' /\ SdrCache' /\ SdrFill' /\ FbdData' /\ FbdCache' /\ FbdFill'
<1>1. pipe = <<>> /\ cmd = NoCmd /\ ~ready
  BY DEF Stepped, Clock, Resetting
<1>2. Sh2 /\ SdrPort(Issue(busy), ready) /\ EngineReset /\ Bridge(busy, ready)
  BY DEF Stepped, Clock, Engine
<1>3. bus' = "T0" /\ ~strobe' /\ beats' = 0 /\ shadow' = [a \in SdrAddr |-> ram[a]]
  BY <1>2 DEF Sh2
<1>4. ~sdr_rd_pend' /\ ~sdr_wr_pend'
  BY <1>2 DEF SdrPort
<1>5. ~sdr_cache'.v /\ ~fbd_cache'.v
  BY SdrCacheStep, FbdCacheStep
<1>6. state' = "idle" /\ cmd' = NoCmd /\ ram' = ram
  BY <1>1, <1>2 DEF EngineReset, Bridge, NoCmd
<1>7. wfifo' = <<>> /\ drawn' = [a \in FbAddr |-> ram[a]] /\ ~fbd_rdy'
  BY <1>1, Drawing, DrawStep DEF Ends
<1>8. \A a : Latest(a)' = ram[a]
  BY <1>6 DEF Latest, NoCmd
<1>9. BusInv' /\ Held'
  BY <1>3, <1>4 DEF BusInv, Held, sdr_busy
<1>10. SdrData'
  BY <1>3, <1>4, <1>8 DEF SdrData, NewWrite
<1>11. FbdData'
  BY <1>7, <1>8 DEF FbdData, Agrees
<1>12. SdrCache' /\ SdrFill' /\ FbdCache' /\ FbdFill'
  BY <1>5, <1>6, <1>7 DEF SdrCache, SdrFill, FbdCache, FbdFill
<1> QED BY <1>9, <1>10, <1>11, <1>12

-----------------------------------------------------------------------------
(* Every step leaves the registers and the memory in their types.          *)
LEMMA ShapeStep ==
  ASSUME NEW draw, NEW busy, NEW ready, Stepped(draw, busy, ready)
  PROVE  Shape'
<1>1. Shape /\ Engaged(busy, ready) /\ Clock(draw, busy, ready)
  BY Issues DEF Stepped, IInv
<1>2. /\ {strobe', old_strobe', sdr_rd_pend', sdr_wr_pend', fbd_rd_pend', fbd_rdy', lp_pend', lb_we',
          rst', ungranted'} \subseteq BOOLEAN
      /\ ce' \in {"F", "R", "gap"}
  <2>2. strobe' \in BOOLEAN
    BY <1>1 DEF Clock, Sh2, Shape, Start, NextBeat, Quiet
  <2>3. ce' \in {"F", "R", "gap"}
    BY <1>1 DEF Clock, ClockEnable, Shape
  <2>4. old_strobe' \in BOOLEAN /\ sdr_rd_pend' \in BOOLEAN /\ sdr_wr_pend' \in BOOLEAN
    BY <1>1 DEF Clock, SdrPort, Shape
  <2>5. fbd_rd_pend' \in BOOLEAN /\ fbd_rdy' \in BOOLEAN
    BY <1>1 DEF Clock, DrawPort
  <2>6. ungranted' \in BOOLEAN
    BY <1>1 DEF Clock, DrawHistory, fbd_busy
  <2>7. lp_pend' \in BOOLEAN /\ lb_we' \in BOOLEAN /\ rst' \in BOOLEAN
    BY <1>1 DEF Clock, LineRequest, LineBuffer, Resetting, Shape
  <2> QED BY <2>2, <2>3, <2>4, <2>5, <2>6, <2>7
<1>3. /\ bus' \in {"T0", "TRC", "TD"} /\ beats' \in 0 .. 1
      /\ cycle' \in [op : {"rd", "wr"}, a : SdrAddr, d : Data] /\ shadow' \in [SdrAddr -> Data]
  <2>1. bus \in {"T0", "TRC", "TD"} /\ beats \in 0 .. 1
        /\ cycle \in [op : {"rd", "wr"}, a : SdrAddr, d : Data] /\ shadow \in [SdrAddr -> Data]
        /\ 0 \in Data
    BY <1>1, DataAssumption DEF Shape
  <2>2. CASE rst
    <3>1. bus' = "T0" /\ beats' = 0 /\ cycle' = cycle /\ shadow' = [a \in SdrAddr |-> ram[a]]
      BY <1>1, <2>2 DEF Clock, Sh2
    <3> QED BY <1>1, <2>1, <3>1 DEF Shape, Addresses
  <2>3. CASE ~rst /\ (Waits \/ Latches \/ Releases)
    BY <2>1, <2>3 DEF Waits, Quiet, Latches, Releases
  <2>4. CASE ~rst /\ Goes
    <3>1. cycle.a \in SdrAddr /\ cycle' = [cycle EXCEPT !.a = SteppedIn(@)]
      BY <2>1, <2>4 DEF Goes, NextBeat
    <3>2. SteppedIn(cycle.a) \in SdrAddr
      BY <3>1, Stepping
    <3>3. beats' \in 0 .. 1 /\ bus' = bus /\ shadow' = shadow
      BY <2>1, <2>4 DEF Goes, NextBeat
    <3> QED BY <2>1, <3>1, <3>2, <3>3
  <2>5. CASE ~rst /\ Begins
    <3>1. bus' = "TRC" /\ beats' \in 0 .. 1
      BY <2>5 DEF Begins, Start
    <3>2. CASE \E a \in SdrAddr, n \in {0, 1} :
                  cycle' = [op |-> "rd", a |-> a, d |-> 0] /\ shadow' = shadow
      BY <2>1, <3>1, <3>2
    <3>3. CASE \E a \in SdrAddr, d \in Data :
                  cycle' = [op |-> "wr", a |-> a, d |-> d] /\ shadow' = [shadow EXCEPT ![a] = d]
      BY <2>1, <3>1, <3>3
    <3> QED BY <2>5, <3>2, <3>3 DEF Begins, Start
  <2> QED BY <2>2, <2>3, <2>4, <2>5, BusMoves
<1>4. sdr_a_q' \in SdrAddr /\ sdr_d_q' \in Data
  BY <1>1 DEF Clock, SdrPort, Shape
<1>5. fbd_ra_q' \in FbAddr
  BY <1>1, Drawing, DrawStep DEF Shape
<1>6. drawn' \in [FbAddr -> Data]
  <2>1. drawn \in [FbAddr -> Data] /\ \A a \in FbAddr : ram[a] \in Data
    BY <1>1 DEF Shape, Addresses
  <2>2. CASE rst
    BY <2>1, <2>2, DrawStep
  <2>3. CASE ~rst
    BY <2>1, <2>3, Drawing, DrawStep
  <2> QED BY <2>2, <2>3
<1>7. /\ lp_fb_q' \in Banks /\ lp_line_q' \in 0 .. FbWords - 1
      /\ tel_pend' \in 0 .. TelBeats
  <2>1. lp_fb_q' \in Banks /\ lp_line_q' \in 0 .. FbWords - 1
    BY <1>1 DEF Clock, LineRequest, Shape
  <2>2. tel_pend \in 0 .. TelBeats /\ TelBeats \in Nat /\ (Issue(busy) = "tel" => tel_pend > 0)
    BY <1>1, SizeAssumption, Issues DEF Shape
  <2>3. tel_pend' \in 0 .. TelBeats
    BY <1>1, <2>2 DEF Clock, Telemetry
  <2> QED BY <2>1, <2>3
<1>9. beat' \in BOOLEAN /\ kind' \in {"sdr", "fbd"} /\ lp_go' \in BOOLEAN /\ lp_go2' \in BOOLEAN
  <2>1. Engine(Issue(busy), busy, ready) /\ beat \in BOOLEAN /\ kind \in {"sdr", "fbd"}
        /\ lp_go \in BOOLEAN /\ lp_go2 \in BOOLEAN /\ ready \in BOOLEAN
    BY <1>1 DEF Engaged, Shape
  <2>2. CASE rst
    BY <2>1, <2>2 DEF Engine, EngineReset
  <2>3. CASE ~rst /\ InIdle(Issue(busy), busy)
    BY <2>1, <2>3, Issues DEF InIdle, KeepsLine
  <2>4. CASE ~rst /\ (InWr(busy) \/ InRdLine(busy, ready))
    BY <2>1, <2>4 DEF InWr, InRdLine, KeepsLine
  <2>5. CASE ~rst /\ InLpTab(busy, ready)
    BY <2>1, <2>5 DEF InLpTab
  <2>6. CASE ~rst /\ InLpBurst(busy, ready)
    BY <2>1, <2>6 DEF InLpBurst
  <2> QED BY <2>1, <2>2, <2>3, <2>4, <2>5, <2>6 DEF Engine
<1>10. lp_beat' \in 0 .. FbWords - 1
  <2>1. lp_beat \in 0 .. FbWords - 1 /\ Engine(Issue(busy), busy, ready)
    BY <1>1 DEF Engaged, Shape
  <2>2. CASE ~rst /\ state = "lp_tab"
    <3>1. ready => pipe[1].d \in 0 .. FbWords - 1
      BY <1>1, <2>2, LpTabStep, DataAssumption
    <3>2. InLpTab(busy, ready)
      BY <2>1, <2>2 DEF Engine, InIdle, InWr, InRdLine, InLpBurst
    <3> QED BY <2>1, <3>1, <3>2 DEF InLpTab
  <2>3. CASE ~(~rst /\ state = "lp_tab")
    <3>1. lp_beat' = lp_beat
      BY <2>1, <2>3 DEF Engine, EngineReset, InIdle, InWr, InRdLine, InLpTab, InLpBurst, KeepsLine
    <3> QED BY <2>1, <3>1
  <2> QED BY <2>2, <2>3
<1>11. {lp_left', lp_2nd'} \subseteq 0 .. LpBeats
  <2>1. {lp_left, lp_2nd} \subseteq 0 .. LpBeats /\ Engine(Issue(busy), busy, ready) /\ LpBeats \in Nat
    BY <1>1, Sizes DEF Engaged, Shape
  <2>2. CASE state' = "lp_burst"
    <3>1. Bursting'
      BY <2>2, EngineStep DEF EngineInv, Resting, Writing, Filling, Tabling
    <3>2. lp_left' \in Nat /\ lp_2nd' \in Nat /\ lp_left' + lp_2nd' + Got' = LpBeats
      BY <3>1 DEF Bursting
    <3>3. lb_wa' \in Nat
      BY <2>1, EngineStep DEF LineInv
    <3>4. Got' = lb_wa' \/ Got' = lb_wa' + 1
      BY DEF Got
    <3>5. Got' \in Nat
      BY <3>3, <3>4
    <3>6. PICK l \in Nat, m \in Nat, g \in Nat : l = lp_left' /\ m = lp_2nd' /\ g = Got'
      BY <3>2, <3>5, Zenon
    <3>7. l + m + g = LpBeats
      BY <3>2, <3>6
    <3>8. l \in 0 .. LpBeats /\ m \in 0 .. LpBeats
      BY <2>1, <3>7
    <3> QED BY <3>6, <3>8
  <2>3. CASE state' # "lp_burst" /\ ~rst /\ state = "lp_burst"
    <3>1. InLpBurst(busy, ready)
      BY <2>1, <2>3 DEF Engine, InIdle, InWr, InRdLine, InLpTab
    <3>2. ready /\ lp_left = 1 /\ lp_2nd = 0
      BY <2>3, <3>1 DEF InLpBurst
    <3>3. {lp_left', lp_2nd'} \subseteq {0}
      BY <3>1, <3>2 DEF InLpBurst
    <3> QED BY <2>1, <3>3
  <2>4. CASE state' # "lp_burst" /\ (rst \/ state # "lp_burst")
    <3>1. lp_left' = lp_left /\ lp_2nd' = lp_2nd
      BY <2>1, <2>4 DEF Engine, EngineReset, InIdle, InWr, InRdLine, InLpTab, InLpBurst, KeepsLine
    <3> QED BY <2>1, <3>1
  <2> QED BY <2>2, <2>3, <2>4
<1>12. cmd'.op = "wr" => cmd'.d \in Data
  <2>1. /\ cmd.op = "wr" => cmd.d \in Data
        /\ 0 \in Data /\ sdr_d_q \in Data /\ Engine(Issue(busy), busy, ready)
    BY <1>1, DataAssumption DEF Engaged, Shape
  <2>2. CASE rst \/ Accepted(busy)
    BY <2>1, <2>2 DEF Engine, EngineReset, Accepted, NoCmd
  <2>3. CASE \E op, a, n : Fetched(op, a, n, 0)
    BY <2>1, <2>3 DEF Fetched
  <2>4. CASE Issue(busy) = "wf" /\ Fetched("wr", wfifo[1].a, 1, wfifo[1].d)
    <3>1. wfifo[1].d \in Data
      BY <1>1, <2>4, Issues, Queued
    <3> QED BY <2>4, <3>1 DEF Fetched
  <2>5. CASE Fetched("wr", sdr_a_q, 1, sdr_d_q)
    BY <2>1, <2>5 DEF Fetched
  <2>6. \/ rst \/ Accepted(busy) \/ \E op, a, n : Fetched(op, a, n, 0)
        \/ (Issue(busy) = "wf" /\ Fetched("wr", wfifo[1].a, 1, wfifo[1].d))
        \/ Fetched("wr", sdr_a_q, 1, sdr_d_q)
    <3>1. CASE ~rst /\ InIdle(Issue(busy), busy)
      <4>1. CASE Issue(busy) = "none"
        BY <3>1, <4>1 DEF InIdle
      <4>2. CASE Issue(busy) = "wf"
        BY <3>1, <4>2 DEF InIdle
      <4>3. CASE Issue(busy) = "sdr_wr"
        BY <3>1, <4>3 DEF InIdle
      <4>4. CASE Issue(busy) \in {"tel", "lp", "fbd_rd", "sdr_rd"}
        BY <3>1, <4>4 DEF InIdle
      <4> QED BY <4>1, <4>2, <4>3, <4>4, Issues
    <3>2. CASE ~rst /\ InLpTab(busy, ready)
      BY <3>2 DEF InLpTab, Burst
    <3>3. CASE ~rst /\ InLpBurst(busy, ready)
      BY <3>3 DEF InLpBurst
    <3> QED BY <2>1, <3>1, <3>2, <3>3 DEF Engine, InWr, InRdLine
  <2> QED BY <2>2, <2>3, <2>4, <2>5, <2>6
<1>13. ram' \in [Addresses -> Data]
  BY <1>1 DEF Clock, Bridge, Shape
<1>14. DOMAIN linebuf' = 0 .. LpBeats - 1
  BY <1>1, BufferStep DEF Engaged
<1>15. /\ sdr_cache' \in Cache /\ fbd_cache' \in Cache
       /\ wfifo' \in Seq([a : FbAddr, d : Data])
  BY SdrCacheStep, FbdCacheStep, QueueStep
<1> QED BY <1>2, <1>3, <1>4, <1>5, <1>6, <1>7, <1>9, <1>10, <1>11, <1>12, <1>13, <1>14, <1>15
        DEF Shape

LEMMA InitIInv == Init => IInv
<1> SUFFICES ASSUME Init PROVE IInv
  OBVIOUS
<1>1. /\ SdrWords \in Nat \ {0} /\ FbWords \in Nat \ {0} /\ LpBeats \in Nat \ {0}
      /\ WfSize \in Nat /\ WfSize >= 4 /\ TelBeats \in Nat /\ 0 \in Data /\ First \subseteq Data
  BY SizeAssumption, DataAssumption
<1>2. PICK v \in Data : /\ ram = [a \in Addresses |-> v]
                        /\ shadow = [a \in SdrAddr |-> v] /\ drawn = [a \in FbAddr |-> v]
  BY <1>1 DEF Init, Addresses
<1>3. <<"sdr", 0>> \in SdrAddr /\ <<"fb0", 0>> \in FbAddr
  BY <1>1 DEF SdrAddr, FbAddr, Banks
<1>4. Blank \in Cache
  BY <1>1 DEF Blank, Cache, LineAddr
<1>5. Shape
  <2>5. {strobe, old_strobe, sdr_rd_pend, sdr_wr_pend, fbd_rd_pend, fbd_rdy, lp_pend, lp_go, lp_go2,
            lb_we, beat, rst, ungranted} = {FALSE}
    BY DEF Init
  <2>1. /\ ce \in {"F", "R", "gap"} /\ bus \in {"T0", "TRC", "TD"} /\ beats \in 0 .. 1
        /\ kind \in {"sdr", "fbd"} /\ cmd.op # "wr"
    BY DEF Init, NoCmd
  <2>6. /\ lp_fb_q \in Banks /\ lp_line_q \in 0 .. FbWords - 1 /\ lp_beat \in 0 .. FbWords - 1
        /\ {lp_left, lp_2nd} \subseteq 0 .. LpBeats /\ tel_pend \in 0 .. TelBeats
    BY <1>1 DEF Init, Banks
  <2>7. DOMAIN linebuf = 0 .. LpBeats - 1
    BY DEF Init
  <2>2. /\ cycle \in [op : {"rd", "wr"}, a : SdrAddr, d : Data]
        /\ sdr_a_q \in SdrAddr /\ sdr_d_q \in Data /\ fbd_ra_q \in FbAddr
        /\ wfifo \in Seq([a : FbAddr, d : Data])
    BY <1>1, <1>3 DEF Init
  <2>3. sdr_cache \in Cache /\ fbd_cache \in Cache
    BY <1>4 DEF Init
  <2>4. ram \in [Addresses -> Data] /\ shadow \in [SdrAddr -> Data] /\ drawn \in [FbAddr -> Data]
    BY <1>2
  <2> QED BY <2>1, <2>2, <2>3, <2>4, <2>5, <2>6, <2>7 DEF Shape
<1>6. EngineInv /\ LineInv /\ Queue
  BY <1>1 DEF Init, EngineInv, Resting, LineInv, Queue, Got
<1>7. BusInv /\ Held
  BY DEF Init, BusInv, Held, sdr_busy
<1>8. \A a \in Addresses : Latest(a) = ram[a]
  BY DEF Init, Latest, NoCmd
<1>9. SdrData /\ FbdData
  BY <1>2, <1>8 DEF Init, SdrData, FbdData, Agrees, NewWrite, Addresses
<1>10. SdrCache /\ SdrFill /\ FbdCache /\ FbdFill
  BY DEF Init, SdrCache, SdrFill, FbdCache, FbdFill, Blank
<1> QED BY <1>5, <1>6, <1>7, <1>9, <1>10 DEF IInv

LEMMA Inductive == IInv /\ [Next]_vars => IInv'
<1> SUFFICES ASSUME IInv, [Next]_vars PROVE IInv'
  OBVIOUS
<1>1. CASE Next
  <2>1. PICK draw, busy, ready : Stepped(draw, busy, ready)
    BY <1>1 DEF Next, Stepped
  <2>2. Shape' /\ EngineInv' /\ LineInv' /\ Queue'
    BY <2>1, ShapeStep, EngineStep, QueueStep
  <2>3. CASE rst
    BY <2>1, <2>2, <2>3, ResetEnds DEF IInv
  <2>4. CASE ~rst
    BY <2>1, <2>2, <2>4, BusStep, HeldStep, SdrDataStep, SdrCacheInvStep, SdrFillStep,
       FbdDataStep, FbdCacheInvStep, FbdFillStep DEF IInv
  <2> QED BY <2>3, <2>4
<1>2. CASE UNCHANGED vars
  BY <1>2 DEF vars, sh2, sdr, fbd, lp, eng, IInv, Shape, EngineInv, LineInv, Queue, BusInv, Held,
     SdrData, SdrCache, SdrFill, FbdData, FbdCache, FbdFill, Agrees, NoneAfter, Latest, NewWrite,
     Resting, Writing, Filling, Tabling, Bursting, Asks, Comes, Beats, Stored, Owner, Got, At, Base,
     Hit, Word, sdr_busy, sdr_wr
<1> QED BY <1>1, <1>2

-----------------------------------------------------------------------------
LEMMA Invariant == Spec => []IInv
<1> QED BY InitIInv, Inductive, PTL DEF Spec

(* The registers, the queue and memory keep to their types and bounds: the *)
(* write FIFO never overflows, and the line's counts never leave a line.   *)
THEOREM TypeCorrect == Spec => []TypeOK
<1>1. IInv => TypeOK
  <2> SUFFICES ASSUME IInv PROVE TypeOK
    OBVIOUS
  <2>1. Shape /\ Queue /\ LineInv
    BY DEF IInv
  <2>2. state \in {"idle", "wr", "rd_line", "lp_tab", "lp_burst"}
    BY DEF IInv, EngineInv, Resting, Writing, Filling, Tabling, Bursting
  <2>3. lb_wa \in 0 .. LpBeats
    BY <2>1 DEF LineInv
  <2>4. wfifo \in Seq([a : FbAddr, d : Data]) /\ Len(wfifo) < WfSize
    BY <2>1 DEF Shape, Queue
  <2> QED BY <2>1, <2>2, <2>3, <2>4 DEF TypeOK, Shape, Addresses
<1> QED BY <1>1, Invariant, PTL

(* What the SH-2 latches and what a draw reads back is what was last       *)
(* written there, held or fetched, queued or stored: s32x_ddr.sv's two     *)
(* caches and its write FIFO are invisible to who reads.                   *)
THEOREM ReadsAreLatest == Spec => []ReadsLatest
<1>1. IInv => ReadsLatest
  <2> SUFFICES ASSUME IInv, ~rst
               PROVE  /\ bus = "TD" /\ ce = "F" /\ sdr_rd => sdr_dout = shadow[cycle.a]
                      /\ fbd_rdy => fbd_dout = drawn[fbd_ra_q]
    BY DEF ReadsLatest
  <2>1. Shape /\ Held /\ SdrCache /\ FbdCache
    BY DEF IInv
  <2>2. ASSUME bus = "TD", sdr_rd PROVE sdr_dout = shadow[cycle.a]
    <3>1. Hit(sdr_cache, cycle.a) /\ ~NewWrite /\ cycle.a \in SdrAddr
      BY <2>1, <2>2 DEF Held, sdr_rd, NewWrite, Shape
    <3> QED BY <2>1, <2>2, <3>1 DEF SdrCache, Hit, sdr_dout
  <2>3. ASSUME fbd_rdy PROVE fbd_dout = drawn[fbd_ra_q]
    <3>1. Hit(fbd_cache, fbd_ra_q) /\ fbd_ra_q \in FbAddr
      BY <2>1, <2>3 DEF FbdCache, Shape
    <3> QED BY <2>1, <3>1 DEF FbdCache, Hit, fbd_dout
  <2> QED BY <2>2, <2>3
<1> QED BY <1>1, Invariant, PTL

(* Memory holds the last word written unless the cycle, the command or the *)
(* queue still has it: no write of the port is dropped or overtaken.       *)
THEOREM NoWriteIsLost == Spec => []WritesLand
<1>1. IInv => WritesLand
  <2> SUFFICES ASSUME IInv, ~rst
               PROVE  /\ \A a \in SdrAddr : ~Under(a) => ram[a] = shadow[a]
                      /\ \A a \in FbAddr  : ~Under(a) => ram[a] = drawn[a]
    BY DEF WritesLand
  <2>1. ASSUME NEW a \in SdrAddr, ~Under(a) PROVE ram[a] = shadow[a]
    <3>1. SdrData
      BY DEF IInv
    <3>2. ~((sdr_wr_pend \/ NewWrite) /\ cycle.a = a) /\ Latest(a) = ram[a]
      BY <2>1 DEF Under, NewWrite, Latest
    <3> QED BY <3>1, <3>2 DEF SdrData
  <2>2. ASSUME NEW a \in FbAddr, ~Under(a) PROVE ram[a] = drawn[a]
    <3>1. FbdData
      BY DEF IInv
    <3>2. NoneAfter(wfifo, a, 0) /\ Latest(a) = ram[a]
      BY <2>2 DEF Under, NoneAfter, Latest
    <3> QED BY <3>1, <3>2 DEF FbdData, Agrees
  <2> QED BY <2>1, <2>2
<1> QED BY <1>1, Invariant, PTL

(* The line buffer holds the line its table entry names, each beat in its  *)
(* place and round the end of the frame buffer where the line wraps.       *)
THEOREM LinesAreWhole == Spec => []LineWhole
<1>1. IInv => LineWhole
  <2> SUFFICES ASSUME IInv, ~Fetching, table # NoLine
               PROVE  /\ table = <<lp_fb_q, lp_line_q>> /\ lb_wa = LpBeats
                      /\ \A i \in 0 .. LpBeats - 1 : linebuf[i] = <<lp_fb_q, (lp_beat + i) % FbWords>>
    BY DEF LineWhole
  <2> QED BY DEF IInv, LineInv, Fetching, Got, At
<1> QED BY <1>1, Invariant, PTL
=============================================================================
