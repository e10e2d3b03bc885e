------------------------------ MODULE OsdProofs ------------------------------
(***************************************************************************)
(* Proofs about the keyboard daemon: however many processes are started,   *)
(* at whatever moment, whatever they type and whichever of them die, a     *)
(* start of the daemon is refused only where one serves, and comes up      *)
(* beside one that serves only after two starts have overlapped.           *)
(*                                                                         *)
(* The program checks the pid file and writes it 1.2 s later               *)
(* (uinput_kbd.py:115 and 122), so starts can overlap and two daemons      *)
(* serve.  FileInv holds all the same: a live process in the file serves.  *)
(* Until starts overlap SoleLaw says that the one daemon past its check is *)
(* in the file as soon as it serves.                                       *)
(*                                                                         *)
(* Until then every enter hits the row its line was meant for, after one   *)
(* fault at most.  RowInv says where in its line each process is and which *)
(* row the rest of the line ends on, and when the menu is as the operator  *)
(* believes.                                                               *)
(***************************************************************************)
EXTENDS Osd, SequenceTheorems, TLAPS

(* A process is a record, whatever the keys it types.                      *)
ProcsInv ==
  /\ \E S : procs \in Seq(S)
  /\ \A p \in Pids : procs[p] = [kind |-> procs[p].kind, pc |-> procs[p].pc, todo |-> procs[p].todo]

Daemon(p) == procs[p].kind = "daemon" /\ Live(p)

(* Two daemons are past their check of the file.                           *)
Twins == \E p, q \in Daemons : p # q

FileInv ==
  /\ pidfile \in {0} \cup Pids
  /\ pidfile \in Pids => Serving(pidfile) \/ ~ Live(pidfile)
  /\ \A p \in Pids : Daemon(p) => Serving(p) \/ procs[p].pc \in {"start", "warm"}

(* The file names the daemon that serves.                                  *)
NameLaw == \A p \in Pids : Serving(p) => pidfile = p
SoleLaw == ~ Twins /\ NameLaw

IInv == ProcsInv /\ FileInv

(* A step keeps IInv, and the name in the file where it makes no twins.    *)
Keeps == IInv' /\ (SoleLaw /\ ~ Twins' => NameLaw')

-----------------------------------------------------------------------------
(* What a start adds.                                                      *)
LEMMA Started ==
  ASSUME ProcsInv, NEW kind, NEW todo, Run(kind, todo), NEW n, n = Len(procs) + 1
  PROVE  /\ ProcsInv' /\ pidfile' = pidfile
         /\ Pids' = Pids \cup {n} /\ n \in Nat \ Pids
         /\ \A p \in Pids : procs'[p] = procs[p]
         /\ procs'[n].kind = kind /\ procs'[n].pc = "start" /\ procs'[n].todo = todo
<1> DEFINE new == [kind |-> kind, pc |-> "start", todo |-> todo]
<1>1. PICK S : procs \in Seq(S)
  BY DEF ProcsInv
<1>2. procs \in Seq(S \cup {new})
  BY <1>1
<1>3. procs' = Append(procs, new) /\ pidfile' = pidfile
  BY DEF Run
<1>4. procs' \in Seq(S \cup {new})
  BY <1>2, <1>3
<1>5. /\ Len(procs) \in Nat /\ Pids = 1 .. Len(procs)
      /\ Pids' = 1 .. n
      /\ \A p \in Pids : procs'[p] = procs[p]
      /\ procs'[n] = new
  BY <1>2, <1>3 DEF Pids
<1>6. Pids' = Pids \cup {n} /\ n \in Nat \ Pids
  BY <1>5
<1>7. ASSUME NEW p \in Pids'
      PROVE  procs'[p] = [kind |-> procs'[p].kind, pc |-> procs'[p].pc, todo |-> procs'[p].todo]
  BY <1>5, <1>6, <1>7 DEF ProcsInv
<1> QED BY <1>3, <1>4, <1>5, <1>6, <1>7 DEF ProcsInv

LEMMA StartStep ==
  ASSUME IInv, NEW kind, NEW todo, Run(kind, todo)
  PROVE  Keeps /\ Daemons' = Daemons
<1> SUFFICES ASSUME NEW n, n = Len(procs) + 1 PROVE Keeps /\ Daemons' = Daemons
    OBVIOUS
<1>1. /\ ProcsInv' /\ pidfile' = pidfile
      /\ Pids' = Pids \cup {n} /\ n \in Nat \ Pids
      /\ \A p \in Pids : procs'[p] = procs[p]
      /\ procs'[n].kind = kind /\ procs'[n].pc = "start"
  BY Started DEF IInv
<1>2. /\ \A p \in Pids : /\ Serving(p)' <=> Serving(p)
                         /\ Live(p)' <=> Live(p)
                         /\ Daemon(p)' <=> Daemon(p)
                         /\ At(p, "start")' <=> At(p, "start")
      /\ ~ Serving(n)' /\ At(n, "start")'
  BY <1>1 DEF Serving, Live, Daemon, At
<1>3. Daemons' = Daemons
  BY <1>1 DEF Daemons, Live, At
<1>4. FileInv'
  BY <1>1, <1>2 DEF IInv, FileInv
<1>5. SoleLaw => NameLaw'
  BY <1>1, <1>2 DEF SoleLaw, NameLaw
<1> QED BY <1>1, <1>3, <1>4, <1>5 DEF IInv, Keeps

(* A step that changes one process.                                        *)
Becomes(p, kind, pc, todo) ==
  procs' = [procs EXCEPT ![p] = [kind |-> kind, pc |-> pc, todo |-> todo]]

LEMMA Changed ==
  ASSUME ProcsInv, NEW p \in Pids, NEW kind, NEW pc, NEW todo, Becomes(p, kind, pc, todo)
  PROVE  /\ ProcsInv' /\ Pids' = Pids
         /\ procs'[p].kind = kind /\ procs'[p].pc = pc /\ procs'[p].todo = todo
         /\ \A q \in Pids \ {p} : procs'[q] = procs[q]
<1> DEFINE r == [kind |-> kind, pc |-> pc, todo |-> todo]
<1>1. PICK S : procs \in Seq(S)
  BY DEF ProcsInv
<1>2. procs \in Seq(S \cup {r})
  BY <1>1
<1>3. procs' \in Seq(S \cup {r})
  BY <1>2 DEF Pids, Becomes
<1>4. Pids' = Pids /\ procs'[p] = r /\ \A q \in Pids \ {p} : procs'[q] = procs[q]
  BY <1>2 DEF Pids, Becomes
<1> QED BY <1>3, <1>4 DEF ProcsInv

LEMMA Moved ==
  ASSUME ProcsInv, NEW p \in Pids, NEW pc, Goto(p, pc)
  PROVE  Becomes(p, procs[p].kind, pc, procs[p].todo)
<1>1. [procs[p] EXCEPT !.pc = pc] = [kind |-> procs[p].kind, pc |-> pc, todo |-> procs[p].todo]
  <2> DEFINE k == procs[p].kind
             c == procs[p].pc
             t == procs[p].todo
  <2>1. procs[p] = [kind |-> k, pc |-> c, todo |-> t]
    BY DEF ProcsInv
  <2> HIDE DEF k, c, t
  <2>2. [procs[p] EXCEPT !.pc = pc] = [kind |-> k, pc |-> pc, todo |-> t]
    BY <2>1
  <2> QED BY <2>2 DEF k, t
<1> QED BY <1>1 DEF Goto, Becomes

(* A process that is not the daemon, or a daemon at its loop, moves on.    *)
LEMMA MovesOn ==
  ASSUME IInv, NEW p \in Pids, NEW pc, NEW todo, Becomes(p, procs[p].kind, pc, todo),
         pidfile' = pidfile, Live(p),
         procs[p].kind = "daemon" => Serving(p) /\ pc \in {"open", "read", "eof"}
  PROVE  Keeps /\ Daemons' = Daemons
<1>1. /\ ProcsInv' /\ Pids' = Pids
      /\ procs'[p].kind = procs[p].kind /\ procs'[p].pc = pc
      /\ \A q \in Pids \ {p} : procs'[q] = procs[q]
  BY Changed DEF IInv
<1>2. \A q \in Pids \ {p} : /\ Serving(q)' <=> Serving(q)
                            /\ Live(q)' <=> Live(q)
                            /\ Daemon(q)' <=> Daemon(q)
                            /\ At(q, "start")' <=> At(q, "start")
                            /\ procs'[q].pc = procs[q].pc
                            /\ q \in Daemons' <=> q \in Daemons
  BY <1>1 DEF Serving, Live, Daemon, At, Daemons
<1>3. CASE procs[p].kind = "daemon"
  <2>1. Serving(p) /\ Daemon(p) /\ Serving(p)' /\ Live(p)' /\ p \in Daemons /\ p \in Daemons'
    BY <1>1, <1>3 DEF Serving, Live, Daemon, At, Daemons
  <2>2. Daemons' = Daemons
    BY <1>1, <1>2, <2>1 DEF Daemons
  <2>3. FileInv'
    BY <1>1, <1>2, <2>1 DEF IInv, FileInv
  <2>4. SoleLaw => NameLaw'
    BY <1>1, <1>2, <2>1 DEF SoleLaw, NameLaw
  <2> QED BY <1>1, <2>2, <2>3, <2>4 DEF IInv, Keeps
<1>4. CASE procs[p].kind # "daemon"
  <2>1. ~ Serving(p) /\ ~ Serving(p)' /\ ~ Daemon(p)' /\ p \notin Daemons /\ p \notin Daemons'
    BY <1>1, <1>4 DEF Serving, Daemon, Daemons
  <2>2. Daemons' = Daemons
    BY <1>1, <1>2, <2>1 DEF Daemons
  <2>3. FileInv'
    BY <1>1, <1>2, <2>1 DEF IInv, FileInv
  <2>4. SoleLaw => NameLaw'
    BY <1>1, <1>2, <2>1 DEF SoleLaw, NameLaw
  <2> QED BY <1>1, <2>2, <2>3, <2>4 DEF IInv, Keeps
<1> QED BY <1>3, <1>4

(* A process ends; a daemon may take its file away.                        *)
LEMMA Ends ==
  ASSUME IInv, NEW p \in Pids, NEW kind, NEW todo, Becomes(p, kind, "ended", todo),
         pidfile' = pidfile \/ (Serving(p) /\ pidfile' = 0)
  PROVE  Keeps /\ Daemons' \subseteq Daemons
<1>1. /\ ProcsInv' /\ Pids' = Pids
      /\ procs'[p].pc = "ended"
      /\ \A q \in Pids \ {p} : procs'[q] = procs[q]
  BY Changed DEF IInv
<1>2. /\ ~ Serving(p)' /\ ~ Live(p)' /\ ~ Daemon(p)' /\ p \notin Daemons'
      /\ \A q \in Pids \ {p} : /\ Serving(q)' <=> Serving(q)
                               /\ Live(q)' <=> Live(q)
                               /\ Daemon(q)' <=> Daemon(q)
                               /\ procs'[q].pc = procs[q].pc
                               /\ q \in Daemons' <=> q \in Daemons
  BY <1>1 DEF Serving, Live, Daemon, At, Daemons
<1>3. Daemons' \subseteq Daemons
  BY <1>1, <1>2 DEF Daemons
<1>4. 0 \notin Pids
  BY DEF IInv, ProcsInv, Pids
<1>5. FileInv'
  BY <1>1, <1>2, <1>4 DEF IInv, FileInv
<1>6. ASSUME SoleLaw PROVE NameLaw'
  <2>1. \A q \in Pids : Serving(q) => q \in Daemons
    BY DEF Serving, Daemons, Live, At
  <2>2. Serving(p) => \A q \in Pids \ {p} : ~ Serving(q)
    BY <1>6, <2>1 DEF SoleLaw, Twins
  <2> QED BY <1>1, <1>2, <1>6, <2>2 DEF SoleLaw, NameLaw
<1> QED BY <1>1, <1>3, <1>5, <1>6 DEF IInv, Keeps

LEMMA CheckStep ==
  ASSUME IInv, NEW p \in Pids, DaemonCheck(p)
  PROVE  Keeps /\ (Daemons' \subseteq Daemons \/ (Daemons' = Daemons \cup {p} /\ overlapped' = (overlapped \/ Daemons # {})))
<1>1. CASE daemon_pid # 0
  <2>1. Becomes(p, "refused", "ended", << >>) /\ pidfile' = pidfile
    BY <1>1 DEF DaemonCheck, Ended, Becomes
  <2> QED BY <2>1, Ends
<1>2. CASE daemon_pid = 0
  <2>1. Becomes(p, procs[p].kind, "warm", procs[p].todo) /\ pidfile' = pidfile
        /\ overlapped' = (overlapped \/ Daemons # {})
    BY <1>2, Moved DEF DaemonCheck, IInv
  <2>2. /\ ProcsInv' /\ Pids' = Pids
        /\ procs'[p].kind = "daemon" /\ procs'[p].pc = "warm"
        /\ \A q \in Pids \ {p} : procs'[q] = procs[q]
    BY <2>1, Changed DEF IInv, DaemonCheck
  <2>3. Daemons' = Daemons \cup {p}
    <3>1. p \in Daemons'
      BY <2>2 DEF Daemons, Live, At
    <3>2. \A q \in Pids \ {p} : q \in Daemons' <=> q \in Daemons
      BY <2>2 DEF Daemons, Live, At
    <3> QED BY <2>2, <3>1, <3>2 DEF Daemons
  <2>4. pidfile # p
    BY DEF DaemonCheck, IInv, FileInv, Serving, Live, At
  <2>5. FileInv'
    BY <2>1, <2>2, <2>4 DEF IInv, FileInv, Daemon, Serving, Live, At
  <2>6. SoleLaw => NameLaw'
    BY <2>1, <2>2 DEF SoleLaw, NameLaw, Serving
  <2> QED BY <2>1, <2>2, <2>3, <2>5, <2>6 DEF IInv, Keeps
<1> QED BY <1>1, <1>2

(* The daemon writes its pid: the file becomes true again.                 *)
LEMMA WarmStep ==
  ASSUME IInv, NEW p \in Pids, Warm(p)
  PROVE  Keeps /\ Daemons' = Daemons
<1>1. CASE procs[p].kind # "daemon"
  <2>1. Becomes(p, procs[p].kind, "type", procs[p].todo) /\ pidfile' = pidfile
    BY <1>1, Moved DEF Warm, IInv
  <2> QED BY <1>1, <2>1, MovesOn DEF Warm, Live, At
<1>2. CASE procs[p].kind = "daemon"
  <2>1. Becomes(p, procs[p].kind, "open", procs[p].todo) /\ pidfile' = p
    BY <1>2, Moved DEF Warm, IInv
  <2>2. /\ ProcsInv' /\ Pids' = Pids
        /\ procs'[p].kind = "daemon" /\ procs'[p].pc = "open"
        /\ \A q \in Pids \ {p} : procs'[q] = procs[q]
    BY <1>2, <2>1, Changed DEF IInv
  <2>3. p \in Daemons
    BY <1>2 DEF Warm, Daemons, Live, At
  <2>4. Daemons' = Daemons
    <3>1. p \in Daemons'
      BY <2>2 DEF Daemons, Live, At
    <3>2. \A q \in Pids \ {p} : q \in Daemons' <=> q \in Daemons
      BY <2>2 DEF Daemons, Live, At
    <3> QED BY <2>2, <2>3, <3>1, <3>2 DEF Daemons
  <2>5. FileInv'
    BY <2>1, <2>2 DEF IInv, FileInv, Daemon, Serving, Live, At
  <2>6. ASSUME SoleLaw PROVE NameLaw'
    <3>1. ASSUME NEW q \in Pids \ {p}, Serving(q)' PROVE FALSE
      <4>1. q \in Daemons
        BY <2>2, <3>1 DEF Serving, Daemons, Live, At
      <4> QED BY <2>3, <2>6, <4>1 DEF SoleLaw, Twins
    <3> QED BY <2>1, <2>2, <3>1 DEF NameLaw
  <2> QED BY <2>2, <2>4, <2>5, <2>6 DEF IInv, Keeps
<1> QED BY <1>1, <1>2

LEMMA Unmoved ==
  ASSUME IInv, UNCHANGED <<procs, pidfile>>
  PROVE  Keeps /\ Daemons' = Daemons
<1>1. /\ Pids' = Pids
      /\ \A q : (Serving(q)' <=> Serving(q)) /\ (Live(q)' <=> Live(q))
                /\ (Daemon(q)' <=> Daemon(q))
  BY DEF Pids, Serving, Live, At, Daemon
<1>2. Daemons' = Daemons
  BY <1>1 DEF Daemons, At
<1>3. ProcsInv' /\ FileInv'
  BY <1>1 DEF IInv, ProcsInv, FileInv
<1>4. SoleLaw => NameLaw'
  BY <1>1 DEF SoleLaw, NameLaw
<1> QED BY <1>2, <1>3, <1>4 DEF IInv, Keeps

LEMMA TypeStep ==
  ASSUME IInv, NEW p \in Pids, tap(p)
  PROVE  Keeps /\ Daemons' \subseteq Daemons
<1>1. Typing(p) /\ pidfile' = pidfile
  BY DEF tap
<1>2. /\ Live(p)
      /\ procs[p].kind = "daemon" => Serving(p)
  BY <1>1 DEF Typing, At, Live, Serving, IInv, FileInv, Daemon
<1>3. CASE procs' = [procs EXCEPT ![p] = Ended]
  BY <1>1, <1>3, Ends DEF Ended, Becomes
<1>4. ASSUME NEW rest, procs' = [procs EXCEPT ![p] = [@ EXCEPT !.todo = rest]]
      PROVE  Keeps /\ Daemons' \subseteq Daemons
  <2> DEFINE k == procs[p].kind
             c == procs[p].pc
             t == procs[p].todo
  <2>1. procs[p] = [kind |-> k, pc |-> c, todo |-> t]
    BY DEF IInv, ProcsInv
  <2> HIDE DEF k, c, t
  <2>2. [procs[p] EXCEPT !.todo = rest] = [kind |-> k, pc |-> c, todo |-> rest]
    BY <2>1
  <2>3. Becomes(p, k, c, rest)
    BY <2>2, <1>4 DEF Becomes
  <2> QED BY <1>1, <1>2, <2>3, MovesOn DEF k, c, Serving
<1>5. procs' = [procs EXCEPT ![p] = Ended] \/ \E rest : procs' = [procs EXCEPT ![p] = [@ EXCEPT !.todo = rest]]
  BY DEF tap
<1> QED BY <1>3, <1>4, <1>5

(* The other steps of a process.                                           *)
LEMMA LoopStep ==
  ASSUME IInv, NEW p \in Pids, NEW pc, Goto(p, pc), pidfile' = pidfile, Live(p),
         procs[p].kind = "daemon" => Serving(p) /\ pc \in {"open", "read", "eof"}
  PROVE  Keeps /\ Daemons' = Daemons
  BY Moved, MovesOn DEF IInv

LEMMA SilentStep ==
  ASSUME IInv, NEW p \in Pids, Silent(p)
  PROVE  Keeps /\ (Daemons' \subseteq Daemons \/ (Daemons' = Daemons \cup {p} /\ overlapped' = (overlapped \/ Daemons # {})))
<1> USE DEF At, Live, Serving
<1>1. CASE DaemonCheck(p)
  BY <1>1, CheckStep
<1>2. CASE MakeKeyboard(p)
  BY <1>2, LoopStep DEF MakeKeyboard
<1>3. CASE Notice(p)
  BY <1>3, Unmoved DEF Notice
<1>4. CASE Warm(p)
  BY <1>4, WarmStep
<1>5. CASE OpenRead(p)
  BY <1>5, LoopStep DEF OpenRead
<1>6. CASE SendCheck(p)
  <2>1. CASE daemon_pid = 0
    BY <1>6, <2>1, Ends DEF SendCheck, Ended, Becomes
  <2>2. CASE daemon_pid # 0
    BY <1>6, <2>2, LoopStep DEF SendCheck
  <2> QED BY <2>1, <2>2
<1>7. CASE OpenWrite(p)
  <2>1. procs[p].kind # "daemon"
    BY <1>7 DEF OpenWrite, IInv, FileInv, Daemon
  <2> QED BY <1>7, <2>1, LoopStep DEF OpenWrite
<1>8. CASE Write(p)
  BY <1>8, Ends DEF Write, Ended, Becomes
<1>9. CASE ReadLines(p)
  <2> DEFINE k == procs[p].kind
             c == procs[p].pc
             t == procs[p].todo
  <2>1. procs[p] = [kind |-> k, pc |-> c, todo |-> t]
    BY DEF IInv, ProcsInv
  <2> HIDE DEF k, c, t
  <2>2. [procs[p] EXCEPT !.todo = pipe] = [kind |-> k, pc |-> c, todo |-> pipe]
    BY <2>1
  <2>3. Becomes(p, k, c, pipe) /\ pidfile' = pidfile /\ c = "read"
    BY <2>2, <1>9 DEF ReadLines, Becomes, c
  <2> QED BY <2>3, MovesOn DEF k, c
<1>10. CASE ReadEof(p)
  <2>1. procs[p].kind = "daemon" => Serving(p)
    BY <1>10 DEF ReadEof
  <2> QED BY <1>10, <2>1, LoopStep DEF ReadEof
<1>11. CASE Reopen(p)
  BY <1>11, LoopStep DEF Reopen
<1> QED BY <1>1, <1>2, <1>3, <1>4, <1>5, <1>6, <1>7, <1>8, <1>9, <1>10, <1>11 DEF Silent

(* The history knows of twins.                                             *)
Sole == overlapped \/ SoleLaw

LEMMA DaemonsStep ==
  ASSUME IInv, [Next]_vars
  PROVE  /\ Keeps
         /\ overlapped => overlapped'
         /\ \/ Daemons' \subseteq Daemons
            \/ \E p : Daemons' = Daemons \cup {p} /\ overlapped' = (overlapped \/ Daemons # {})
<1>1. CASE UNCHANGED <<procs, pidfile, overlapped>>
  BY <1>1, Unmoved
<1>2. CASE StartDaemon \/ cmd_goto \/ cmd_close \/ Chord \/ Send
  <2>1. \E kind, todo : Run(kind, todo)
    BY <1>2 DEF StartDaemon, cmd_goto, cmd_close, Chord, Send, Command
  <2>2. overlapped' = overlapped
    BY <2>1 DEF Run
  <2> QED BY <2>1, <2>2, StartStep
<1>3. ASSUME NEW p \in Pids, Program(p)
      PROVE  /\ Keeps
             /\ overlapped => overlapped'
             /\ \/ Daemons' \subseteq Daemons
                \/ Daemons' = Daemons \cup {p} /\ overlapped' = (overlapped \/ Daemons # {})
  <2>1. CASE tap(p)
    <3>1. overlapped' = overlapped
      BY <2>1 DEF tap
    <3> QED BY <2>1, <3>1, TypeStep
  <2>2. CASE Silent(p)
    <3>1. overlapped => overlapped'
      BY <2>2 DEF Silent, DaemonCheck, MakeKeyboard, Notice, Warm, OpenRead, SendCheck, OpenWrite, Write,
                  ReadLines, ReadEof, Reopen
    <3> QED BY <2>2, <3>1, SilentStep
  <2> QED BY <1>3, <2>1, <2>2 DEF Program, Type
<1>4. ASSUME NEW p \in Pids, Die(p) PROVE Keeps /\ overlapped' = overlapped /\ Daemons' \subseteq Daemons
  BY <1>4, Ends DEF Die, Ended, Becomes
<1> QED BY <1>1, <1>2, <1>3, <1>4 DEF Next, vars, LoadCore, kbdVars

LEMMA InvStep == IInv /\ [Next]_vars => IInv'
BY DaemonsStep DEF Keeps

LEMMA SoleStep ==
  ASSUME IInv, Sole, [Next]_vars, overlapped \in BOOLEAN
  PROVE  Sole'
<1> SUFFICES ASSUME ~ overlapped' PROVE SoleLaw'
  BY DEF Sole
<1>1. ~ overlapped /\ SoleLaw
  BY DaemonsStep DEF Sole
<1>2. ~ Twins'
  <2>1. CASE Daemons' \subseteq Daemons
    BY <1>1, <2>1 DEF SoleLaw, Twins
  <2>2. ASSUME NEW p, Daemons' = Daemons \cup {p}, overlapped' = (overlapped \/ Daemons # {})
        PROVE  ~ Twins'
    <3>1. Daemons = {}
      BY <2>2
    <3> QED BY <2>2, <3>1 DEF Twins
  <2> QED BY <2>1, <2>2, DaemonsStep
<1>3. NameLaw'
  BY <1>1, <1>2, DaemonsStep DEF Keeps
<1> QED BY <1>2, <1>3 DEF SoleLaw

LEMMA InvInit == Init => IInv /\ Sole
<1> SUFFICES ASSUME Init PROVE IInv /\ Sole
    OBVIOUS
<1>1. procs = << >> /\ pidfile = 0
  BY DEF Init, KeyboardInit
<1>2. procs \in Seq({})
  BY <1>1
<1>3. Pids = {}
  BY <1>1 DEF Pids
<1>4. Daemons = {}
  BY <1>3 DEF Daemons
<1> QED BY <1>1, <1>2, <1>3, <1>4 DEF IInv, ProcsInv, FileInv, Sole, SoleLaw, Twins, NameLaw

LEMMA HistoryTyped ==
  ASSUME overlapped \in BOOLEAN, [Next]_vars
  PROVE  overlapped' \in BOOLEAN
<1>1. ASSUME NEW p \in Pids, Silent(p) PROVE overlapped' \in BOOLEAN
  BY <1>1 DEF Silent, DaemonCheck, MakeKeyboard, Notice, Warm, OpenRead, SendCheck, OpenWrite, Write,
              ReadLines, ReadEof, Reopen
<1>2. ASSUME NEW p \in Pids, Program(p) PROVE overlapped' \in BOOLEAN
  BY <1>1, <1>2 DEF Program, Type, tap
<1>3. CASE StartDaemon \/ cmd_goto \/ cmd_close \/ Chord \/ Send
  BY <1>3 DEF StartDaemon, cmd_goto, cmd_close, Chord, Send, Command, Run
<1>4. ASSUME NEW p \in Pids, Die(p) PROVE overlapped' \in BOOLEAN
  BY <1>4 DEF Die
<1> QED BY <1>2, <1>3, <1>4 DEF Next, vars, LoadCore, kbdVars

(* Nothing but its own check moves a daemon that has yet to look.          *)
LEMMA Waits ==
  ASSUME IInv, [Next]_vars, NEW q \in Pids, procs[q].kind = "daemon", At(q, "start")
  PROVE  DaemonCheck(q) \/ (procs'[q].kind = "daemon" /\ procs'[q].pc = "start")
<1> USE DEF At
<1>1. CASE UNCHANGED procs
  BY <1>1
<1>2. ASSUME NEW kind, NEW todo, Run(kind, todo)
      PROVE  procs'[q] = procs[q]
  BY <1>2, Started DEF IInv
<1>3. ASSUME NEW p \in Pids, Program(p) \/ Die(p), p # q
      PROVE  procs'[q] = procs[q]
  BY <1>3 DEF Program, Type, tap, Die, Silent, DaemonCheck, MakeKeyboard, Notice, Warm, OpenRead,
              SendCheck, OpenWrite, Write, ReadLines, ReadEof, Reopen, Goto, Pids
<1>4. CASE (Program(q) \/ Die(q)) /\ ~ DaemonCheck(q) /\ ~ Notice(q)
  BY <1>4 DEF Program, Type, tap, Typing, Die, HasKeyboard, Silent, MakeKeyboard, Warm, OpenRead,
              SendCheck, OpenWrite, Write, ReadLines, ReadEof, Reopen
<1>5. CASE Notice(q)
  BY <1>5 DEF Notice
<1>6. StartDaemon \/ cmd_goto \/ cmd_close \/ Chord \/ Send => \E kind, todo : Run(kind, todo)
  BY DEF StartDaemon, cmd_goto, cmd_close, Chord, Send, Command
<1> QED BY <1>1, <1>2, <1>3, <1>4, <1>5, <1>6 DEF Next, vars, LoadCore, kbdVars

(* For any number of processes, faults and commands at whatever moment: a  *)
(* start is refused only where a daemon serves, and comes up beside one    *)
(* that serves only after two starts have overlapped.  Two starts that     *)
(* overlap both come up, whatever uinput_kbd.py:108-112 says.              *)
THEOREM StartsAlone == Spec => OneDaemon
<1>1. IInv /\ Sole /\ [Next]_vars =>
        [\A p \in Pids : procs[p].kind = "daemon" /\ At(p, "start") =>
           /\ procs'[p].kind = "refused" => Readers # {}
           /\ procs'[p].pc = "warm" => Readers = {} \/ overlapped]_vars
  <2> SUFFICES ASSUME IInv, Sole, [Next]_vars,
                      NEW p \in Pids, procs[p].kind = "daemon", At(p, "start"), DaemonCheck(p)
               PROVE  /\ procs'[p].kind = "refused" => Readers # {}
                      /\ procs'[p].pc = "warm" => Readers = {} \/ overlapped
    BY Waits DEF At
  <2>1. CASE daemon_pid # 0
    <3>1. pidfile \in Pids /\ Live(pidfile)
      BY <2>1 DEF daemon_pid
    <3>2. pidfile \in Readers
      BY <3>1 DEF IInv, FileInv, Readers
    <3>3. procs'[p].pc = "ended"
      BY <2>1 DEF DaemonCheck, Ended, Pids
    <3> QED BY <3>2, <3>3
  <2>2. CASE daemon_pid = 0
    <3>1. ASSUME ~ overlapped, NEW q \in Readers PROVE FALSE
      <4>1. q \in Pids /\ pidfile = q /\ Live(q)
        BY <3>1 DEF Readers, Sole, SoleLaw, NameLaw, Serving, Live, At
      <4>2. q # 0
        BY <4>1 DEF IInv, ProcsInv, Pids
      <4> QED BY <2>2, <4>1, <4>2 DEF daemon_pid
    <3>2. procs'[p].kind = "daemon"
      <4>1. Becomes(p, procs[p].kind, "warm", procs[p].todo)
        BY <2>2, Moved DEF DaemonCheck, IInv
      <4> QED BY <4>1, Changed DEF IInv
    <3> QED BY <3>1, <3>2
  <2> QED BY <2>1, <2>2
<1> DEFINE J == IInv /\ Sole /\ overlapped \in BOOLEAN
<1>2. Init => J
  BY InvInit DEF Init, KeyboardInit
<1>3. J /\ [Next]_vars => J'
  BY InvStep, SoleStep, HistoryTyped
<1>4. J => IInv /\ Sole
  OBVIOUS
<1> HIDE DEF J
<1> QED BY <1>1, <1>2, <1>3, <1>4, PTL DEF Spec, OneDaemon

-----------------------------------------------------------------------------
(* The menu: ten rows, the debug rows, five rows.                          *)
NRows == IF dbg_menu THEN 31 ELSE 15

RowsLaw == /\ Len(Rows) = NRows
           /\ \A i \in 1 .. 10 : Rows[i] = Top[i]
           /\ \A i \in 1 .. 5 : Rows[NRows - 5 + i] = Bottom[i]

LEMMA TimesIs ==
  ASSUME NEW S, NEW key \in S, NEW k \in Nat
  PROVE  Times(key, k) \in Seq(S) /\ Len(Times(key, k)) = k /\ \A i \in 1 .. k : Times(key, k)[i] = key
  BY DEF Times

LEMMA Concat3 ==
  ASSUME NEW S, NEW a \in Seq(S), NEW b \in Seq(S), NEW c \in Seq(S)
  PROVE  /\ Len((a \o b) \o c) = Len(a) + Len(b) + Len(c)
         /\ \A i \in 1 .. Len(a) : ((a \o b) \o c)[i] = a[i]
         /\ \A i \in 1 .. Len(c) : ((a \o b) \o c)[Len(a) + Len(b) + i] = c[i]
<1>1. a \o b \in Seq(S) /\ Len(a \o b) = Len(a) + Len(b) /\ \A i \in 1 .. Len(a) : (a \o b)[i] = a[i]
  OBVIOUS
<1> DEFINE d == a \o b
<1> HIDE DEF d
<1>2. /\ Len(d \o c) = Len(d) + Len(c)
      /\ \A i \in 1 .. Len(d) : (d \o c)[i] = d[i]
      /\ \A i \in 1 .. Len(c) : (d \o c)[Len(d) + i] = c[i]
  BY <1>1 DEF d
<1>3. Len(a) \in Nat /\ Len(b) \in Nat
  OBVIOUS
<1> QED BY <1>1, <1>2, <1>3 DEF d

Labels == {"Insert Disk", "Insert Cartridge", "Disc Insert", "Region", "Backup RAM", "Reload Backup RAM",
           "Save Backup RAM", "Autosave", "Audio & Video", "Input", "debug",
           "Reset", "Reset & Eject CD", "Remove Cartridge & Reset", "Eject Disc", "Exit"}

LEMMA RowsAre == RowsLaw
<1> DEFINE mid == IF dbg_menu THEN Times("debug", 16) ELSE << >>
<1>1. Top \in Seq(Labels) /\ Len(Top) = 10
  BY DEF Top, Labels
<1>2. Bottom \in Seq(Labels) /\ Len(Bottom) = 5
  BY DEF Bottom, Labels
<1>3. PICK k \in Nat : mid \in Seq(Labels) /\ Len(mid) = k /\ NRows = 15 + k
  <2>1. "debug" \in Labels
    BY DEF Labels
  <2>2. Times("debug", 16) \in Seq(Labels) /\ Len(Times("debug", 16)) = 16
    BY <2>1 DEF Times
  <2>3. CASE dbg_menu
    <3>1. mid \in Seq(Labels) /\ Len(mid) = 16 /\ NRows = 15 + 16
      BY <2>2, <2>3 DEF NRows
    <3> QED BY <3>1
  <2>4. CASE ~ dbg_menu
    <3>1. mid \in Seq(Labels) /\ Len(mid) = 0 /\ NRows = 15 + 0
      BY <2>4 DEF NRows
    <3> QED BY <3>1
  <2> QED BY <2>3, <2>4
<1>4. Rows = (Top \o mid) \o Bottom
  BY DEF Rows, Top, Bottom
<1> HIDE DEF mid
<1>5. /\ Len(Rows) = 10 + k + 5
      /\ \A i \in 1 .. 10 : Rows[i] = Top[i]
      /\ \A i \in 1 .. 5 : Rows[10 + k + i] = Bottom[i]
  <2>1. /\ Len(Rows) = Len(Top) + Len(mid) + Len(Bottom)
        /\ \A i \in 1 .. Len(Top) : Rows[i] = Top[i]
        /\ \A i \in 1 .. Len(Bottom) : Rows[Len(Top) + Len(mid) + i] = Bottom[i]
    <3>1. /\ Len((Top \o mid) \o Bottom) = Len(Top) + Len(mid) + Len(Bottom)
          /\ \A i \in 1 .. Len(Top) : ((Top \o mid) \o Bottom)[i] = Top[i]
          /\ \A i \in 1 .. Len(Bottom) : ((Top \o mid) \o Bottom)[Len(Top) + Len(mid) + i] = Bottom[i]
      <4>1. \A a, b, c \in Seq(Labels) :
              /\ Len((a \o b) \o c) = Len(a) + Len(b) + Len(c)
              /\ \A i \in 1 .. Len(a) : ((a \o b) \o c)[i] = a[i]
              /\ \A i \in 1 .. Len(c) : ((a \o b) \o c)[Len(a) + Len(b) + i] = c[i]
        BY Concat3
      <4> QED BY <1>1, <1>2, <1>3, <4>1
    <3> QED BY <1>4, <3>1
  <2> QED BY <1>1, <1>2, <1>3, <2>1
<1>6. Len(Rows) = NRows
  BY <1>3, <1>5
<1>7. ASSUME NEW i \in 1 .. 5 PROVE Rows[NRows - 5 + i] = Bottom[i]
  <2>1. NRows - 5 + i = 10 + k + i
    BY <1>3
  <2> QED BY <1>5, <2>1
<1> QED BY <1>5, <1>6, <1>7 DEF RowsLaw

LEMMA RowsAreNext == RowsLaw'
  BY RowsAre, PTL

Pcs == {"start", "warm", "type", "open", "read", "eof", "wopen", "write", "ended"}

MenuTyped == /\ osd \in BOOLEAN /\ dbg_menu \in BOOLEAN
             /\ sel \in 0 .. NRows - 1 /\ (~ osd => sel = 0)

(* A key leaves the selection inside the menu; the rows come and go only   *)
(* while it is closed.                                                     *)
LEMMA MenuTypes ==
  ASSUME MenuTyped, NEW key, NEW row, Menu(key, row)
  PROVE  MenuTyped'
<1>1. PICK n \in {15, 31} : n = NRows /\ Len(Rows) = n
  BY RowsAre DEF NRows, RowsLaw
<1>2. (dbg_menu' <=> dbg_menu) => NRows' = n
  BY <1>1 DEF NRows
<1>3. NRows' \in {15, 31}
  BY DEF NRows
<1>4. /\ osd' \in BOOLEAN /\ dbg_menu' \in BOOLEAN
  BY DEF Menu, MenuTyped, menuVars
<1>5. \/ (dbg_menu' <=> dbg_menu) /\ sel' \in {0, sel}
      \/ (dbg_menu' <=> dbg_menu) /\ sel' = (sel + (IF key = "up" THEN n - 1 ELSE 1)) % n
      \/ sel' = sel /\ ~ osd
  BY <1>1 DEF Menu, menuVars
<1>6. ~ osd' => sel' = 0
  BY DEF Menu, menuVars, MenuTyped
<1>7. sel' \in 0 .. NRows' - 1
  <2>1. PICK m \in Nat : m = sel + (IF key = "up" THEN n - 1 ELSE 1)
    BY <1>1 DEF MenuTyped
  <2>2. m % n \in 0 .. n - 1
    BY <1>1, <2>1
  <2>3. sel \in 0 .. n - 1 /\ (~ osd => sel = 0)
    BY <1>1 DEF MenuTyped
  <2> QED BY <1>1, <1>2, <1>3, <1>5, <2>1, <2>2, <2>3
<1> QED BY <1>4, <1>6, <1>7 DEF MenuTyped

ProcsTyped ==
  /\ Len(procs) <= MaxProcs /\ \A p \in Pids : procs[p].pc \in Pcs
  /\ seen \subseteq Pids /\ faults \in 0 .. MaxFaults

(* What a step of one process does to it.                                  *)
Steps(p, pcs) == \/ procs' = procs
                 \/ \E kind, pc, todo : pc \in pcs /\ Becomes(p, kind, pc, todo)

LEMMA ProcsTypedStep ==
  ASSUME ProcsInv, ProcsTyped, NEW p \in Pids, Steps(p, Pcs), seen' \subseteq Pids, faults' \in 0 .. MaxFaults
  PROVE  ProcsTyped'
<1>1. CASE procs' = procs
  BY <1>1 DEF ProcsTyped, Pids
<1>2. ASSUME NEW kind, NEW pc \in Pcs, NEW todo, Becomes(p, kind, pc, todo)
      PROVE  ProcsTyped'
  <2>1. /\ ProcsInv' /\ Pids' = Pids /\ procs'[p].pc = pc
        /\ \A q \in Pids \ {p} : procs'[q] = procs[q]
    BY <1>2, Changed
  <2>2. Len(procs') = Len(procs)
    BY <2>1, LenProperties DEF ProcsInv, Pids
  <2> QED BY <2>1, <2>2 DEF ProcsTyped
<1> QED BY <1>1, <1>2 DEF Steps

LEMMA GoesOn ==
  ASSUME ProcsInv, NEW p \in Pids, NEW pc \in Pcs, Goto(p, pc)
  PROVE  Steps(p, Pcs)
  BY Moved DEF Steps

LEMMA EndsHere ==
  ASSUME NEW p, NEW r, procs' = [procs EXCEPT ![p] = r],
         r = Ended \/ r = [Ended EXCEPT !.kind = "refused"]
  PROVE  Steps(p, Pcs)
<1>1. \E kind : Becomes(p, kind, "ended", << >>)
  BY DEF Ended, Becomes
<1> QED BY <1>1 DEF Steps, Pcs

LEMMA Retypes ==
  ASSUME ProcsInv, NEW p \in Pids, NEW rest, procs' = [procs EXCEPT ![p] = [@ EXCEPT !.todo = rest]]
  PROVE  Becomes(p, procs[p].kind, procs[p].pc, rest)
<1> DEFINE k == procs[p].kind
           c == procs[p].pc
           t == procs[p].todo
<1>1. procs[p] = [kind |-> k, pc |-> c, todo |-> t]
  BY DEF ProcsInv
<1> HIDE DEF k, c, t
<1>2. [procs[p] EXCEPT !.todo = rest] = [kind |-> k, pc |-> c, todo |-> rest]
  BY <1>1
<1>3. Becomes(p, k, c, rest)
  BY <1>2 DEF Becomes
<1> QED BY <1>3 DEF k, c

LEMMA SilentTyped ==
  ASSUME ProcsInv, ProcsTyped, NEW p \in Pids, Silent(p)
  PROVE  ProcsTyped'
<1>1. faults \in Nat /\ faults + 1 \in Nat /\ MaxFaults \in Nat /\ faults \in 0 .. MaxFaults /\ seen \subseteq Pids
  BY KeyboardAssumption DEF ProcsTyped
<1>2. CASE DaemonCheck(p)
  <2>1. Steps(p, Pcs)
    BY <1>2, GoesOn, EndsHere DEF DaemonCheck, Pcs
  <2> QED BY <1>1, <1>2, <2>1, ProcsTypedStep DEF DaemonCheck
<1>3. CASE MakeKeyboard(p)
  BY <1>1, <1>3, GoesOn, ProcsTypedStep DEF MakeKeyboard, Pcs
<1>4. CASE Notice(p)
  BY <1>1, <1>4, ProcsTypedStep DEF Notice, Steps
<1>5. CASE Warm(p)
  <2>1. Steps(p, Pcs)
    BY <1>5, GoesOn DEF Warm, Pcs
  <2>2. faults' \in 0 .. MaxFaults
    BY <1>1, <1>5 DEF Warm
  <2> QED BY <1>1, <1>5, <2>1, <2>2, ProcsTypedStep DEF Warm
<1>6. CASE OpenRead(p)
  BY <1>1, <1>6, GoesOn, ProcsTypedStep DEF OpenRead, Pcs
<1>7. CASE SendCheck(p)
  <2>1. Steps(p, Pcs)
    BY <1>7, GoesOn, EndsHere DEF SendCheck, Pcs
  <2> QED BY <1>1, <1>7, <2>1, ProcsTypedStep DEF SendCheck
<1>8. CASE OpenWrite(p)
  BY <1>1, <1>8, GoesOn, ProcsTypedStep DEF OpenWrite, Pcs
<1>9. CASE Write(p)
  BY <1>1, <1>9, EndsHere, ProcsTypedStep DEF Write
<1>10. CASE ReadLines(p)
  <2>1. Steps(p, Pcs)
    BY <1>10, Retypes DEF ReadLines, Steps, ProcsTyped
  <2> QED BY <1>1, <1>10, <2>1, ProcsTypedStep DEF ReadLines
<1>11. CASE ReadEof(p)
  BY <1>1, <1>11, GoesOn, ProcsTypedStep DEF ReadEof, Pcs
<1>12. CASE Reopen(p)
  BY <1>1, <1>12, GoesOn, ProcsTypedStep DEF Reopen, Pcs
<1> QED BY <1>2, <1>3, <1>4, <1>5, <1>6, <1>7, <1>8, <1>9, <1>10, <1>11, <1>12 DEF Silent

LEMMA TapTyped ==
  ASSUME ProcsInv, ProcsTyped, NEW p \in Pids, tap(p)
  PROVE  ProcsTyped'
<1>1. procs' = [procs EXCEPT ![p] = Ended] \/ \E rest : procs' = [procs EXCEPT ![p] = [@ EXCEPT !.todo = rest]]
  BY DEF tap
<1>2. Steps(p, Pcs)
  BY <1>1, EndsHere, Retypes DEF Steps, ProcsTyped
<1>3. seen' = seen /\ faults' = faults
  BY DEF tap
<1> QED BY <1>2, <1>3, ProcsTypedStep DEF ProcsTyped

LEMMA DieTyped ==
  ASSUME ProcsInv, ProcsTyped, NEW p \in Pids, Die(p)
  PROVE  ProcsTyped'
<1>1. Steps(p, Pcs)
  BY EndsHere DEF Die
<1>2. seen' = seen /\ faults' \in 0 .. MaxFaults
  BY KeyboardAssumption DEF Die, ProcsTyped
<1> QED BY <1>1, <1>2, ProcsTypedStep DEF ProcsTyped

LEMMA RunTyped ==
  ASSUME ProcsInv, ProcsTyped, NEW kind, NEW todo, Run(kind, todo)
  PROVE  ProcsTyped'
<1>1. PICK n : n = Len(procs) + 1
  OBVIOUS
<1>2. /\ ProcsInv' /\ Pids' = Pids \cup {n} /\ \A p \in Pids : procs'[p] = procs[p] /\ procs'[n].pc = "start"
      /\ seen' = seen /\ faults' = faults
  BY <1>1, Started DEF Run
<1>3. Len(procs') = Len(procs) + 1 /\ Len(procs) < MaxProcs /\ Len(procs) \in Nat
  BY LenProperties DEF Run, ProcsInv
<1>4. \A p \in Pids' : procs'[p].pc \in Pcs
  <2>1. procs'[n].pc = "start"
    BY <1>1, Started
  <2> QED BY <1>2, <2>1 DEF ProcsTyped, Pcs
<1> QED BY <1>2, <1>3, <1>4, KeyboardAssumption DEF ProcsTyped

TypesInv == IInv /\ ProcsTyped /\ MenuTyped /\ belief \in BOOLEAN /\ overlapped \in BOOLEAN

LEMMA TypesStep ==
  ASSUME TypesInv, [Next]_vars
  PROVE  TypesInv'
<1> USE DEF TypesInv
<1>1. ProcsInv /\ IInv' /\ overlapped' \in BOOLEAN
  BY InvStep, HistoryTyped DEF IInv
<1>2. CASE UNCHANGED vars \/ LoadCore
  <2>1. ProcsTyped'
    BY <1>2 DEF vars, LoadCore, kbdVars, ProcsTyped, Pids
  <2>2. MenuTyped'
    <3>1. CASE UNCHANGED vars
      BY <3>1 DEF vars, MenuTyped, NRows
    <3>2. CASE LoadCore
      <4>1. osd' \in BOOLEAN /\ dbg_menu' \in BOOLEAN
        BY <3>2 DEF LoadCore
      <4>2. sel' = 0
        BY <3>2 DEF LoadCore
      <4>3. NRows' = 15 \/ NRows' = 31
        BY DEF NRows
      <4>4. 0 \in 0 .. 15 - 1 /\ 0 \in 0 .. 31 - 1
        OBVIOUS
      <4>5. sel' \in 0 .. NRows' - 1
        BY <4>2, <4>3, <4>4, Zenon
      <4> QED BY <4>1, <4>2, <4>5 DEF MenuTyped
    <3> QED BY <1>2, <3>1, <3>2
  <2>3. belief' \in BOOLEAN
    BY <1>2 DEF vars, LoadCore
  <2> QED BY <1>1, <2>1, <2>2, <2>3
<1>3. CASE StartDaemon \/ cmd_goto \/ cmd_close \/ Chord \/ Send
  <2> DEFINE Shape == \E kind, todo : \E open \in BOOLEAN : Command(kind, todo, open)
  <2>1. PICK kind, todo, open : open \in BOOLEAN /\ Command(kind, todo, open)
    <3>1. ASSUME StartDaemon PROVE Shape
      BY <3>1 DEF StartDaemon
    <3>2. ASSUME cmd_goto PROVE Shape
      <4>1. PICK t \in Targets, press_enter \in BOOLEAN :
              Command("keys",
                 << [keys |-> keyseq(resolve(t.label), press_enter, t.force), row |-> t.label] >>,
                 ~ press_enter \/ t.label \notin Closing)
        BY <3>2 DEF cmd_goto
      <4>2. (~ press_enter \/ t.label \notin Closing) \in BOOLEAN
        OBVIOUS
      <4> QED BY <4>1, <4>2
    <3>3. ASSUME cmd_close \/ Chord PROVE Shape
      BY <3>3 DEF cmd_close, Chord
    <3>4. ASSUME Send PROVE Shape
      BY <3>4 DEF Send
    <3> QED BY <1>3, <3>1, <3>2, <3>3, <3>4
  <2>2. ProcsTyped'
    BY <1>1, <2>1, RunTyped DEF Command
  <2>3. MenuTyped' /\ belief' \in BOOLEAN
    BY <2>1 DEF Command, menuVars, MenuTyped, NRows
  <2> QED BY <1>1, <2>2, <2>3
<1>4. ASSUME NEW p \in Pids, Program(p) PROVE TypesInv'
  <2>1. ProcsTyped'
    BY <1>1, <1>4, TapTyped, SilentTyped DEF Program, Type
  <2>2. MenuTyped'
    <3>1. (\E key, row : Menu(key, row)) \/ UNCHANGED menuVars
      BY <1>4 DEF Program, Type
    <3>2. UNCHANGED menuVars => MenuTyped'
      BY DEF menuVars, MenuTyped, NRows
    <3> QED BY <3>1, <3>2, MenuTypes
  <2>3. belief' = belief
    BY <1>4 DEF Program, Type
  <2> QED BY <1>1, <2>1, <2>2, <2>3
<1>5. ASSUME NEW p \in Pids, Die(p) /\ UNCHANGED <<menuVars, belief>> PROVE TypesInv'
  <2>1. ProcsTyped'
    BY <1>1, <1>5, DieTyped
  <2>2. MenuTyped' /\ belief' \in BOOLEAN
    BY <1>5 DEF menuVars, MenuTyped, NRows
  <2> QED BY <1>1, <2>1, <2>2
<1> QED BY <1>2, <1>3, <1>4, <1>5 DEF Next

LEMMA TypesStart == Init => TypesInv
<1> SUFFICES ASSUME Init PROVE TypesInv
  OBVIOUS
<1>1. procs = << >> /\ Pids = {} /\ seen = {} /\ faults = 0
  BY DEF Init, KeyboardInit, Pids
<1>2. ProcsTyped
  BY <1>1, KeyboardAssumption DEF ProcsTyped
<1>3. MenuTyped
  <2>1. osd \in BOOLEAN /\ dbg_menu \in BOOLEAN
    BY DEF Init
  <2>2. sel = 0
    BY DEF Init
  <2>3. NRows \in {15, 31}
    BY DEF NRows
  <2> QED BY <2>1, <2>2, <2>3 DEF MenuTyped
<1> QED BY <1>2, <1>3, InvInit DEF TypesInv, Init, KeyboardInit

(* Every process, the file and the menu keep their types: the selection    *)
(* stays inside the menu though rows come and go, and the file names no    *)
(* process that never was.                                                 *)
THEOREM TypeCorrect == Spec => []TypeOK
<1>1. TypesInv => TypeOK
  BY RowsAre DEF TypesInv, IInv, FileInv, ProcsTyped, MenuTyped, RowsLaw, TypeOK, Pcs, NRows
<1>2. TypesInv /\ [Next]_vars => TypesInv'
  BY TypesStep
<1> QED BY <1>1, <1>2, TypesStart, PTL DEF Spec

-----------------------------------------------------------------------------
(* Lines of keys.  A line to a row opens the menu, moves s times one way   *)
(* and, unless it only selects, presses enter.                             *)
KeySet  == {"osd", "up", "down", "enter", "chord"}
LineSet == [keys : Seq(KeySet), row : Labels \cup {"none"}]
Dirs    == {"up", "down"}

Goes(row, dir, s) == \/ dir = "up" /\ s \in 1 .. 5 /\ Bottom[6 - s] = row
                     \/ dir = "down" /\ s \in 0 .. 9 /\ Top[s + 1] = row

Moves(ks, dir, m, e) == /\ Len(ks) = m + (IF e THEN 1 ELSE 0)
                        /\ \A i \in 1 .. m : ks[i] = dir
                        /\ e => ks[m + 1] = "enter"

CloseLine == [keys |-> << "osd" >>, row |-> "none"]
ChordLine == [keys |-> << "chord" >>, row |-> "none"]
Visit(l, e) == /\ l.keys # << >> /\ Head(l.keys) = "osd"
               /\ \E dir \in Dirs, s \in 0 .. 9 : Goes(l.row, dir, s) /\ Moves(Tail(l.keys), dir, s, e)

(* What is left of one once it is begun, and when it ends on its row: with *)
(* m moves to go the selection is s - m from the end it is counted from.   *)
Rest(l, e) == l.keys # << >> /\ \E dir \in Dirs, m \in 0 .. 9 : Moves(l.keys, dir, m, e)

Place(sl, n, dir, s, m) == \/ dir = "down" /\ sl = s - m
                           \/ dir = "up" /\ m = s /\ sl = 0
                           \/ dir = "up" /\ m < s /\ sl = n - (s - m)
Aimed(l, e, sl, n) ==
  \E dir \in Dirs, s \in 0 .. 9, m \in 0 .. 9 :
    m <= s /\ Goes(l.row, dir, s) /\ Moves(l.keys, dir, m, e) /\ Place(sl, n, dir, s, m)

(* The row the selection is on.                                            *)
On(row, sl, n) == \/ \E i \in 1 .. 10 : sl = i - 1 /\ Top[i] = row
                  \/ \E i \in 1 .. 5 : sl = n - 6 + i /\ Bottom[i] = row

After(l) == [l EXCEPT !.keys = Tail(@)]

LEMMA AfterIs ==
  ASSUME NEW l \in LineSet, l.keys # << >>
  PROVE  /\ After(l) \in LineSet /\ After(l).row = l.row /\ After(l).keys = Tail(l.keys)
         /\ l.keys \in Seq(KeySet) /\ Len(l.keys) \in Nat \ {0} /\ Head(l.keys) = l.keys[1] /\ Head(l.keys) \in KeySet
         /\ Len(Tail(l.keys)) = Len(l.keys) - 1
         /\ Len(l.keys) # 1 => Tail(l.keys) # << >>
<1>1. l.keys \in Seq(KeySet) /\ l.row \in Labels \cup {"none"} /\ l = [keys |-> l.keys, row |-> l.row]
  BY DEF LineSet
<1>2. Tail(l.keys) \in Seq(KeySet)
  BY <1>1
<1>3. After(l) = [keys |-> Tail(l.keys), row |-> l.row]
  BY <1>1 DEF After
<1>4. After(l) \in LineSet /\ After(l).row = l.row /\ After(l).keys = Tail(l.keys)
  BY <1>1, <1>2, <1>3 DEF LineSet
<1> HIDE DEF After
<1> DEFINE ks == l.keys
<1>5. ks \in Seq(KeySet) /\ ks # << >>
  BY <1>1
<1> HIDE DEF ks
<1>6. Len(ks) \in Nat \ {0} /\ Head(ks) = ks[1] /\ Head(ks) \in KeySet
      /\ Len(Tail(ks)) = Len(ks) - 1
  BY <1>5
<1>7. Len(ks) # 1 => Tail(ks) # << >>
  <2>1. PICK k \in Nat, j \in Nat : Len(ks) = k /\ Len(Tail(ks)) = j
    BY <1>5
  <2>2. k # 1 => j # 0
    BY <1>6, <2>1
  <2> QED BY <2>1, <2>2
<1> QED BY <1>1, <1>4, <1>6, <1>7 DEF ks

LEMMA Opened ==
  ASSUME NEW l \in LineSet, NEW e \in BOOLEAN, Visit(l, e)
  PROVE  /\ Head(l.keys) = "osd"
         /\ Len(l.keys) = 1 => ~ e
         /\ Len(l.keys) # 1 => Rest(After(l), e) /\ \A n : Aimed(After(l), e, 0, n)
<1>1. /\ After(l).row = l.row /\ After(l).keys = Tail(l.keys)
      /\ l.keys \in Seq(KeySet) /\ Len(l.keys) \in Nat \ {0} /\ Len(Tail(l.keys)) = Len(l.keys) - 1
      /\ Len(l.keys) # 1 => After(l).keys # << >>
  BY AfterIs DEF Visit
<1>2. PICK dir \in Dirs, s \in 0 .. 9 : Goes(l.row, dir, s) /\ Moves(Tail(l.keys), dir, s, e)
  BY DEF Visit
<1>3. Len(l.keys) = 1 => ~ e
  BY <1>1, <1>2 DEF Moves
<1>4. ASSUME Len(l.keys) # 1
      PROVE  Rest(After(l), e) /\ \A n : Aimed(After(l), e, 0, n)
  <2>1. After(l).keys # << >>
    BY <1>1, <1>4
  <2>2. Rest(After(l), e)
    BY <1>1, <1>2, <2>1 DEF Rest
  <2>3. ASSUME NEW n PROVE Aimed(After(l), e, 0, n)
    <3>1. s <= s /\ Place(0, n, dir, s, s)
      BY <1>2 DEF Place, Dirs
    <3> QED BY <1>1, <1>2, <3>1 DEF Aimed
  <2> QED BY <2>2, <2>3
<1> QED BY <1>3, <1>4 DEF Visit

LEMMA MovesOnOne ==
  ASSUME NEW ks \in Seq(KeySet), ks # << >>, NEW dir \in Dirs, NEW m \in 0 .. 9, NEW e \in BOOLEAN, Moves(ks, dir, m, e)
  PROVE  /\ m = 0 => e /\ Head(ks) = "enter" /\ Len(ks) = 1
         /\ m # 0 => Head(ks) = dir /\ Moves(Tail(ks), dir, m - 1, e) /\ (Len(ks) = 1 => ~ e)
<1>1. PICK k \in Nat : Len(ks) = k
  OBVIOUS
<1>2. Head(ks) = ks[1] /\ k # 0 /\ Len(Tail(ks)) = k - 1 /\ \A i \in 1 .. k - 1 : Tail(ks)[i] = ks[i + 1]
  BY <1>1
<1>3. k = m + (IF e THEN 1 ELSE 0) /\ (\A i \in 1 .. m : ks[i] = dir) /\ (e => ks[m + 1] = "enter")
  BY <1>1 DEF Moves
<1>4. ASSUME m = 0 PROVE e /\ Head(ks) = "enter" /\ Len(ks) = 1
  BY <1>1, <1>2, <1>3, <1>4
<1>5. ASSUME m # 0 PROVE Head(ks) = dir /\ Moves(Tail(ks), dir, m - 1, e) /\ (Len(ks) = 1 => ~ e)
  <2>1. Len(Tail(ks)) = (m - 1) + (IF e THEN 1 ELSE 0)
    BY <1>2, <1>3
  <2>2. \A i \in 1 .. m - 1 : Tail(ks)[i] = dir
    BY <1>2, <1>3
  <2>3. e => Tail(ks)[m] = "enter"
    BY <1>2, <1>3, <1>5
  <2>4. (m - 1) + 1 = m
    OBVIOUS
  <2>5. Head(ks) = dir /\ (Len(ks) = 1 => ~ e)
    BY <1>1, <1>2, <1>3, <1>5
  <2> QED BY <2>1, <2>2, <2>3, <2>4, <2>5 DEF Moves
<1> QED BY <1>4, <1>5

LEMMA Rested ==
  ASSUME NEW l \in LineSet, NEW e \in BOOLEAN, Rest(l, e)
  PROVE  /\ Head(l.keys) \in Dirs \cup {"enter"}
         /\ Head(l.keys) = "enter" => e /\ Len(l.keys) = 1
         /\ Head(l.keys) # "enter" /\ Len(l.keys) = 1 => ~ e
         /\ Len(l.keys) # 1 => Rest(After(l), e)
<1>1. /\ After(l).row = l.row /\ After(l).keys = Tail(l.keys) /\ l.keys # << >>
      /\ l.keys \in Seq(KeySet) /\ Len(l.keys) \in Nat \ {0} /\ Len(Tail(l.keys)) = Len(l.keys) - 1
      /\ Len(l.keys) # 1 => After(l).keys # << >>
  BY AfterIs DEF Rest
<1>2. PICK dir \in Dirs, m \in 0 .. 9 : Moves(l.keys, dir, m, e)
  BY DEF Rest
<1>3. /\ m = 0 => e /\ Head(l.keys) = "enter" /\ Len(l.keys) = 1
      /\ m # 0 => Head(l.keys) = dir /\ Moves(Tail(l.keys), dir, m - 1, e) /\ (Len(l.keys) = 1 => ~ e)
  BY <1>1, <1>2, MovesOnOne
<1>4. dir # "enter"
  BY DEF Dirs
<1>5. ASSUME Len(l.keys) # 1 PROVE Rest(After(l), e)
  <2>1. m # 0 /\ m - 1 \in 0 .. 9
    BY <1>3, <1>5
  <2>2. After(l).keys # << >>
    BY <1>1, <1>5
  <2> QED BY <1>1, <1>3, <2>1, <2>2 DEF Rest
<1> QED BY <1>3, <1>4, <1>5

LEMMA Steered ==
  ASSUME NEW l \in LineSet, NEW e \in BOOLEAN, Rest(l, e), NEW n \in {15, 31}, NEW sl \in 0 .. n - 1, Aimed(l, e, sl, n)
  PROVE  /\ Head(l.keys) = "enter" => On(l.row, sl, n)
         /\ Head(l.keys) # "enter" /\ Len(l.keys) # 1 =>
              Aimed(After(l), e, (sl + (IF Head(l.keys) = "up" THEN n - 1 ELSE 1)) % n, n)
<1>1. /\ After(l).row = l.row /\ After(l).keys = Tail(l.keys) /\ l.keys # << >> /\ l.keys \in Seq(KeySet)
  BY AfterIs DEF Rest
<1>2. PICK dir \in Dirs, s \in 0 .. 9, m \in 0 .. 9 :
        m <= s /\ Goes(l.row, dir, s) /\ Moves(l.keys, dir, m, e) /\ Place(sl, n, dir, s, m)
  BY DEF Aimed
<1>3. /\ m = 0 => e /\ Head(l.keys) = "enter" /\ Len(l.keys) = 1
      /\ m # 0 => Head(l.keys) = dir /\ Moves(Tail(l.keys), dir, m - 1, e) /\ (Len(l.keys) = 1 => ~ e)
  BY <1>1, <1>2, MovesOnOne
<1>4. dir # "enter"
  BY DEF Dirs
<1>5. ASSUME m = 0 PROVE On(l.row, sl, n)
  <2>1. CASE dir = "down"
    <3>1. s + 1 \in 1 .. 10 /\ sl = (s + 1) - 1 /\ Top[s + 1] = l.row
      BY <1>2, <1>5, <2>1 DEF Place, Goes
    <3> QED BY <3>1 DEF On
  <2>2. CASE dir = "up"
    <3>1. 6 - s \in 1 .. 5 /\ sl = n - 6 + (6 - s) /\ Bottom[6 - s] = l.row
      BY <1>2, <1>5, <2>2 DEF Place, Goes
    <3> QED BY <3>1 DEF On
  <2> QED BY <2>1, <2>2 DEF Dirs
<1>6. ASSUME m # 0, Len(l.keys) # 1
      PROVE  Aimed(After(l), e, (sl + (IF Head(l.keys) = "up" THEN n - 1 ELSE 1)) % n, n)
  <2>1. m - 1 \in 0 .. 9 /\ m - 1 <= s
    BY <1>2, <1>6
  <2>2. ASSUME NEW x, x = (sl + (IF Head(l.keys) = "up" THEN n - 1 ELSE 1)) % n PROVE Place(x, n, dir, s, m - 1)
    <3>1. CASE dir = "down"
      <4>1. x = (sl + 1) % n /\ sl = s - m
        BY <1>2, <1>3, <1>6, <2>2, <3>1 DEF Place
      <4>2. x = s - (m - 1)
        BY <1>2, <4>1
      <4> QED BY <3>1, <4>2 DEF Place
    <3>2. CASE dir = "up"
      <4>1. x = (sl + (n - 1)) % n
        <5>1. Head(l.keys) = "up"
          BY <1>3, <1>6, <3>2
        <5> QED BY <2>2, <5>1
      <4>1a. ((m = s /\ sl = 0) \/ (m < s /\ sl = n - (s - m))) /\ s \in 1 .. 5
        <5>1. dir # "down"
          BY <3>2
        <5>2. s \in 1 .. 5
          BY <1>2, <5>1 DEF Goes
        <5>3. (m = s /\ sl = 0) \/ (m < s /\ sl = n - (s - m))
          <6>1. Place(sl, n, dir, s, m)
            BY <1>2
          <6> QED BY <5>1, <6>1, Zenon DEF Place
        <5> QED BY <5>2, <5>3
      <4>2. x = n - (s - (m - 1))
        <5>1. CASE n = 15
          BY <1>2, <1>6, <4>1, <4>1a, <5>1
        <5>2. CASE n = 31
          BY <1>2, <1>6, <4>1, <4>1a, <5>2
        <5> QED BY <5>1, <5>2
      <4>3. m - 1 < s
        BY <1>2, <1>6
      <4> QED BY <3>2, <4>2, <4>3 DEF Place
    <3> QED BY <3>1, <3>2 DEF Dirs
  <2> QED BY <1>1, <1>2, <1>3, <1>6, <2>1, <2>2 DEF Aimed
<1> QED BY <1>3, <1>4, <1>5, <1>6
-----------------------------------------------------------------------------
(* What a key of a line does to the menu.                                  *)
LEMMA StrikeFirst ==
  ASSUME NEW l \in LineSet, NEW e \in BOOLEAN, Visit(l, e), Menu(Head(l.keys), l.row)
  PROVE  /\ osd' <=> ~ osd
         /\ NRows' = NRows /\ acted' = acted
         /\ Len(l.keys) = 1 => ~ e
         /\ Len(l.keys) # 1 => Rest(After(l), e) /\ Aimed(After(l), e, sel', NRows')
<1>1. /\ Head(l.keys) = "osd"
      /\ Len(l.keys) = 1 => ~ e
      /\ Len(l.keys) # 1 => Rest(After(l), e) /\ \A n : Aimed(After(l), e, 0, n)
  BY Opened
<1>2. (osd' <=> ~ osd) /\ sel' = 0 /\ UNCHANGED <<dbg_menu, acted>>
  BY <1>1 DEF Menu
<1>3. NRows' = NRows
  BY <1>2 DEF NRows
<1> QED BY <1>1, <1>2, <1>3

LEMMA OnIsHit ==
  ASSUME MenuTyped, NEW row, On(row, sel, NRows)
  PROVE  Rows[sel + 1] = row
<1>1. PICK n \in {15, 31} : n = NRows
  BY DEF NRows
<1>2. \A i \in 1 .. 10 : Rows[i] = Top[i]
  BY RowsAre DEF RowsLaw
<1>3. \A i \in 1 .. 5 : Rows[n - 5 + i] = Bottom[i]
  BY <1>1, RowsAre DEF RowsLaw
<1>4. CASE \E i \in 1 .. 10 : sel = i - 1 /\ Top[i] = row
  <2>1. PICK i \in 1 .. 10 : sel = i - 1 /\ Top[i] = row
    BY <1>4
  <2>2. sel + 1 = i
    BY <2>1
  <2> QED BY <1>2, <2>1, <2>2
<1>5. CASE \E i \in 1 .. 5 : sel = n - 6 + i /\ Bottom[i] = row
  <2>1. PICK i \in 1 .. 5 : sel = n - 6 + i /\ Bottom[i] = row
    BY <1>5
  <2>2. sel + 1 = n - 5 + i
    BY <1>1, <2>1
  <2> QED BY <1>3, <2>1, <2>2
<1> QED BY <1>1, <1>4, <1>5 DEF On

LEMMA StrikeNext ==
  ASSUME MenuTyped, NEW l \in LineSet, NEW e \in BOOLEAN, Rest(l, e), ~ osd \/ Aimed(l, e, sel, NRows),
         Menu(Head(l.keys), l.row)
  PROVE  /\ NRows' = NRows
         /\ ~ osd => ~ osd'
         /\ Len(l.keys) # 1 => /\ osd => osd'
                               /\ Rest(After(l), e)
                               /\ ~ osd' \/ Aimed(After(l), e, sel', NRows')
         /\ Len(l.keys) = 1 /\ osd => (osd' <=> (~ e \/ l.row \notin Closing))
         /\ acted' = acted \/ acted' = [meant |-> l.row, hit |-> l.row]
<1>1. PICK n \in {15, 31} : n = NRows /\ Len(Rows) = n
  BY RowsAre DEF NRows, RowsLaw
<1>2. sel \in 0 .. n - 1
  BY <1>1 DEF MenuTyped
<1>3. /\ Head(l.keys) \in Dirs \cup {"enter"}
      /\ Head(l.keys) = "enter" => e /\ Len(l.keys) = 1
      /\ Head(l.keys) # "enter" /\ Len(l.keys) = 1 => ~ e
      /\ Len(l.keys) # 1 => Rest(After(l), e)
  BY Rested
<1>4. UNCHANGED dbg_menu
  BY <1>3 DEF Menu, Dirs, menuVars
<1>5. NRows' = n
  BY <1>1, <1>4 DEF NRows
<1>6. CASE ~ osd
  <2>1. UNCHANGED menuVars
    BY <1>3, <1>6 DEF Menu, Dirs
  <2>2. (osd' <=> osd) /\ acted' = acted
    BY <2>1 DEF menuVars
  <2> QED BY <1>1, <1>3, <1>5, <1>6, <2>2
<1>7. CASE osd /\ Head(l.keys) = "enter"
  <2>1. Rows[sel + 1] = l.row
    BY <1>1, <1>2, <1>7, Steered, OnIsHit
  <2>2. acted' = [meant |-> l.row, hit |-> Rows[sel + 1]] /\ osd' = (Rows[sel + 1] \notin Closing)
    BY <1>7 DEF Menu
  <2>3. acted' = [meant |-> l.row, hit |-> l.row] /\ (osd' <=> l.row \notin Closing)
    BY <2>1, <2>2
  <2> QED BY <1>1, <1>3, <1>5, <1>7, <2>3
<1>8. CASE osd /\ Head(l.keys) # "enter"
  <2>1. /\ sel' = (sel + (IF Head(l.keys) = "up" THEN n - 1 ELSE 1)) % n
        /\ UNCHANGED <<osd, dbg_menu, acted>>
    BY <1>1, <1>3, <1>8 DEF Menu, Dirs
  <2>2. Len(l.keys) # 1 => Aimed(After(l), e, sel', n)
    BY <1>1, <1>2, <1>8, <2>1, Steered
  <2> QED BY <1>1, <1>3, <1>5, <1>8, <2>1, <2>2
<1> QED BY <1>6, <1>7, <1>8
-----------------------------------------------------------------------------
(* A line handed to the daemon ends with an enter on a row that closes the *)
(* menu.                                                                   *)
SendSet == {l \in LineSet : Visit(l, TRUE) /\ l.row \in Closing}

(* A process whose keyboard Main has not opened though its wait is over.   *)
Blind(p) == HasKeyboard(p) /\ ~ At(p, "warm") /\ p \notin seen

(* Nothing has gone wrong yet, or only that the daemon is blind.           *)
Trust == faults = 0 \/ \E d \in Pids : procs[d].kind = "daemon" /\ Blind(d)

Keys(p)  == procs[p].kind = "keys" /\ Live(p)
Sends(p) == procs[p].kind = "send" /\ Live(p)
Serves(p) == Daemon(p) /\ procs[p].todo # << >>
First(p) == Head(procs[p].todo)

Shape(p) ==
  /\ procs[p].todo \in Seq(LineSet)
  /\ Live(p) => procs[p].kind \in {"keys", "send", "daemon"}
  /\ Keys(p) => procs[p].pc \in {"start", "warm", "type"} /\ Len(procs[p].todo) = 1
  /\ Sends(p) => procs[p].pc \in {"start", "wopen", "write"} /\ procs[p].todo \in Seq(SendSet)
  /\ Serves(p) => At(p, "read") /\ Tail(procs[p].todo) \in Seq(SendSet)

(* The operator's belief once the line is typed.                           *)
Says(l, e) == belief <=> (~ e \/ l.row \notin Closing)

KeysLaw(p) == Keys(p) =>
  \/ First(p) = CloseLine /\ ~ belief /\ (Trust => osd)
  \/ First(p) = ChordLine /\ ~ belief /\ (Trust => ~ osd)
  \/ \E e \in BOOLEAN : Says(First(p), e) /\ Visit(First(p), e) /\ (Trust => ~ osd)
  \/ \E e \in BOOLEAN : /\ At(p, "type") /\ Says(First(p), e) /\ (Trust => osd)
                        /\ Rest(First(p), e) /\ (~ osd \/ Aimed(First(p), e, sel, NRows))

DaemonLaw(p) == Serves(p) =>
  \/ First(p) \in SendSet /\ (Trust => ~ osd)
  \/ /\ Rest(First(p), TRUE) /\ First(p).row \in Closing
     /\ ~ osd \/ Aimed(First(p), TRUE, sel, NRows)

(* What a blind process has begun nobody is halfway through seeing.        *)
BlindLaw(p) == Blind(p) /\ procs[p].todo # << >> => ~ osd \/ First(p) = CloseLine

FaultLaw == /\ \A p \in Pids : Blind(p) => faults = 1
            /\ \A p, q \in Pids : Blind(p) /\ Blind(q) => p = q

(* Nothing but a daemon, and that with nothing to read.                    *)
Idles(p) == \/ procs[p].pc \in {"ended", "open"}
            \/ procs[p].kind = "daemon" /\ procs[p].pc \in {"start", "warm"}

AloneLaw == \A p \in Pids : Keys(p) => pipe = << >> /\ \A q \in Pids \ {p} : Idles(q)

FlightLaw == pipe # << >> \/ (\E p \in Pids : Sends(p) \/ Serves(p)) => ~ belief

SyncLaw == Trust /\ (\A p \in Pids : ~ Keys(p) /\ ~ Serves(p)) => (osd <=> belief)

Hits == acted.meant # "none" => acted.hit = acted.meant

RowInv == /\ pipe \in Seq(SendSet)
          /\ \A p \in Pids : Shape(p) /\ KeysLaw(p) /\ DaemonLaw(p) /\ BlindLaw(p)
          /\ FaultLaw /\ AloneLaw /\ FlightLaw /\ SyncLaw
          /\ Hits
-----------------------------------------------------------------------------
(* A process that does nothing while the menu rests.                       *)
LEMMA Rests ==
  ASSUME NEW q, procs'[q] = procs[q], UNCHANGED <<osd, sel, dbg_menu>>, belief' <=> belief,
         Trust' => Trust, Blind(q)' => Blind(q)
  PROVE  /\ Shape(q) => Shape(q)'
         /\ KeysLaw(q) => KeysLaw(q)'
         /\ DaemonLaw(q) => DaemonLaw(q)'
         /\ BlindLaw(q) => BlindLaw(q)'
<1>1. NRows' = NRows
  BY DEF NRows
<1>2. (osd' <=> osd) /\ (belief' <=> belief)
  OBVIOUS
<1>3. /\ Keys(q)' <=> Keys(q)
      /\ Sends(q)' <=> Sends(q)
      /\ Serves(q)' <=> Serves(q)
      /\ Live(q)' <=> Live(q)
      /\ First(q)' = First(q)
  BY DEF Keys, Sends, Serves, Daemon, Live, At, First
<1>4. Shape(q) => Shape(q)'
  BY <1>3 DEF Shape, At
<1>5. KeysLaw(q) => KeysLaw(q)'
  BY <1>1, <1>2, <1>3 DEF KeysLaw, At, Says
<1>6. DaemonLaw(q) => DaemonLaw(q)'
  BY <1>1, <1>2, <1>3 DEF DaemonLaw
<1>7. BlindLaw(q) => BlindLaw(q)'
  BY <1>2, <1>3 DEF BlindLaw
<1> QED BY <1>4, <1>5, <1>6, <1>7

(* A step of process p that leaves the menu alone.                         *)
Aside(p) == /\ Pids' = Pids
            /\ \A q \in Pids \ {p} : procs'[q] = procs[q]
            /\ UNCHANGED <<osd, sel, dbg_menu, belief, acted>>

LEMMA AsideStep ==
  ASSUME RowInv, NEW p \in Pids, Aside(p), faults' = faults,
         \A q \in Pids : Blind(q)' => Blind(q) /\ procs'[q].kind = procs[q].kind,
         pipe' \in Seq(SendSet), pipe' # << >> => pipe # << >> \/ Sends(p),
         Keys(p)' <=> Keys(p), Keys(p) => pipe' = << >>,
         (\A q \in Pids \ {p} : ~ Keys(q)) \/ (Idles(p)' /\ pipe' = pipe),
         Sends(p)' => Sends(p), Serves(p) => Serves(p)', Serves(p)' => Serves(p) \/ pipe # << >>,
         Shape(p)', KeysLaw(p)', DaemonLaw(p)', BlindLaw(p)'
  PROVE  RowInv'
<1>1. Trust' => Trust
  BY DEF Trust, Aside
<1>2. \A q \in Pids \ {p} : Shape(q)' /\ KeysLaw(q)' /\ DaemonLaw(q)' /\ BlindLaw(q)'
  BY <1>1, Rests DEF Aside, RowInv
<1>3. \A q \in Pids \ {p} : /\ Keys(q)' <=> Keys(q)
                            /\ Sends(q)' <=> Sends(q)
                            /\ Serves(q)' <=> Serves(q)
  BY DEF Aside, Keys, Sends, Serves, Daemon, Live, At
<1>4. FaultLaw'
  BY DEF RowInv, FaultLaw, Aside
<1>5. AloneLaw'
  <2> SUFFICES ASSUME NEW q \in Pids, Keys(q)'
               PROVE  pipe' = << >> /\ \A r \in Pids \ {q} : Idles(r)'
    BY DEF AloneLaw, Aside
  <2>1. Keys(q) /\ pipe = << >> /\ \A r \in Pids \ {q} : Idles(r)
    BY <1>3 DEF RowInv, AloneLaw
  <2>2. pipe' = << >>
    BY <2>1
  <2>3. ASSUME NEW r \in Pids \ {q} PROVE Idles(r)'
    <3>1. CASE r = p
      BY <2>1, <3>1
    <3>2. CASE r # p
      BY <2>1, <3>2 DEF Aside, Idles
    <3> QED BY <3>1, <3>2
  <2> QED BY <2>2, <2>3
<1>6. FlightLaw'
  <2>1. pipe' # << >> \/ (\E q \in Pids' : Sends(q)' \/ Serves(q)')
          => pipe # << >> \/ (\E q \in Pids : Sends(q) \/ Serves(q))
    BY <1>3 DEF Aside
  <2>2. belief' <=> belief
    BY DEF Aside
  <2> QED BY <2>1, <2>2 DEF RowInv, FlightLaw
<1>7. SyncLaw'
  <2>1. (\A q \in Pids' : ~ Keys(q)' /\ ~ Serves(q)') => \A q \in Pids : ~ Keys(q) /\ ~ Serves(q)
    BY <1>3 DEF Aside
  <2>2. (belief' <=> belief) /\ (osd' <=> osd)
    BY DEF Aside
  <2> QED BY <1>1, <2>1, <2>2 DEF RowInv, SyncLaw
<1>8. Hits'
  BY DEF RowInv, Hits, Aside
<1>9. \A q \in Pids' : Shape(q)' /\ KeysLaw(q)' /\ DaemonLaw(q)' /\ BlindLaw(q)'
  BY <1>2 DEF Aside
<1> QED BY <1>4, <1>5, <1>6, <1>7, <1>8, <1>9 DEF RowInv
(* A process goes on with what it has, or ends without a key to type.      *)
LEMMA GoesOnStep ==
  ASSUME RowInv, IInv, NEW p \in Pids, NEW pc, Becomes(p, procs[p].kind, pc, procs[p].todo),
         UNCHANGED <<menuVars, belief, faults>>, Live(p), pc # "ended",
         \/ \A q \in Pids \ {p} : ~ Keys(q)
         \/ procs[p].kind = "daemon" /\ pc \in {"warm", "open"} /\ pipe' = pipe,
         Keys(p) => pc \in {"warm", "type"} /\ (At(p, "type") => pc = "type"),
         Sends(p) => pc \in {"wopen", "write"},
         Serves(p) => pc = "read",
         seen' = seen, HasKeyboard(p)' /\ pc # "warm" => p \in seen \/ Blind(p),
         pipe' = pipe \/ pipe' = << >>
  PROVE  RowInv'
<1>1. /\ Pids' = Pids
      /\ procs'[p].kind = procs[p].kind /\ procs'[p].pc = pc /\ procs'[p].todo = procs[p].todo
      /\ \A q \in Pids \ {p} : procs'[q] = procs[q]
  BY Changed DEF IInv
<1>2. /\ Keys(p)' <=> Keys(p)
      /\ Sends(p)' <=> Sends(p)
      /\ Serves(p)' <=> Serves(p)
      /\ First(p)' = First(p) /\ Live(p)'
  BY <1>1 DEF Keys, Sends, Serves, Daemon, Live, At, First
<1>3. Blind(p)' => Blind(p)
  BY <1>1 DEF Blind, At
<1>4. ASSUME NEW q \in Pids \ {p} PROVE Blind(q)' => Blind(q)
  BY <1>1 DEF Blind, At, HasKeyboard, Live
<1>5. \A q \in Pids : Blind(q)' => Blind(q) /\ procs'[q].kind = procs[q].kind
  BY <1>1, <1>3, <1>4 DEF Blind, HasKeyboard
<1>6. Trust' => Trust
  BY <1>1, <1>5 DEF Trust
<1>7. /\ NRows' = NRows /\ sel' = sel
      /\ osd' <=> osd
      /\ belief' <=> belief
  BY DEF menuVars, NRows
<1>8. Shape(p) /\ KeysLaw(p) /\ DaemonLaw(p) /\ BlindLaw(p) /\ pipe \in Seq(SendSet)
  BY DEF RowInv
<1>9. Shape(p)'
  BY <1>1, <1>2, <1>8 DEF Shape, At, Live
<1>10. KeysLaw(p)'
  BY <1>1, <1>2, <1>6, <1>7, <1>8 DEF KeysLaw, Says, At
<1>11. DaemonLaw(p)'
  BY <1>2, <1>6, <1>7, <1>8 DEF DaemonLaw
<1>12. BlindLaw(p)'
  BY <1>1, <1>2, <1>3, <1>7, <1>8 DEF BlindLaw
<1>13. pipe' \in Seq(SendSet) /\ (pipe' # << >> => pipe # << >>)
  <2>1. << >> \in Seq(SendSet)
    OBVIOUS
  <2>2. CASE pipe' = pipe
    BY <1>8, <2>2
  <2>3. CASE pipe' = << >>
    BY <2>1, <2>3
  <2> QED BY <2>2, <2>3
<1>14. Keys(p) => pipe' = << >>
  BY DEF RowInv, AloneLaw
<1>15. Aside(p)
  BY <1>1 DEF Aside, menuVars
<1>16. procs[p].kind = "daemon" /\ pc \in {"warm", "open"} => Idles(p)'
  BY <1>1 DEF Idles
<1> QED BY <1>2, <1>5, <1>9, <1>10, <1>11, <1>12, <1>13, <1>14, <1>15, <1>16, AsideStep

LEMMA EndsStep ==
  ASSUME RowInv, IInv, NEW p \in Pids, NEW kind, Becomes(p, kind, "ended", << >>),
         UNCHANGED <<menuVars, belief, faults, seen>>, ~ Keys(p), ~ Serves(p),
         (\A q \in Pids \ {p} : ~ Keys(q)) \/ pipe' = pipe,
         pipe' \in Seq(SendSet), pipe' # << >> => pipe # << >> \/ Sends(p)
  PROVE  RowInv'
<1>1. /\ Pids' = Pids
      /\ procs'[p].kind = kind /\ procs'[p].pc = "ended" /\ procs'[p].todo = << >>
      /\ \A q \in Pids \ {p} : procs'[q] = procs[q]
  BY Changed DEF IInv
<1>2. ~ Live(p)' /\ ~ Keys(p)' /\ ~ Sends(p)' /\ ~ Serves(p)' /\ ~ Blind(p)'
  BY <1>1 DEF Keys, Sends, Serves, Daemon, Live, At, Blind, HasKeyboard
<1>3. \A q \in Pids : Blind(q)' => Blind(q) /\ procs'[q].kind = procs[q].kind
  <2>1. ASSUME NEW q \in Pids \ {p} PROVE Blind(q)' => Blind(q) /\ procs'[q].kind = procs[q].kind
    BY <1>1 DEF Blind, At, HasKeyboard, Live
  <2> QED BY <1>2, <2>1
<1>4. procs'[p].todo \in Seq(LineSet)
  BY <1>1
<1>5. Shape(p)' /\ KeysLaw(p)' /\ DaemonLaw(p)' /\ BlindLaw(p)'
  BY <1>2, <1>4 DEF Shape, KeysLaw, DaemonLaw, BlindLaw
<1>6. Aside(p) /\ Idles(p)'
  BY <1>1 DEF Aside, menuVars, Idles
<1> QED BY <1>2, <1>3, <1>5, <1>6, AsideStep
-----------------------------------------------------------------------------
(* A command of keys runs alone: of the others only daemons are left that  *)
(* come up or wait for a line.                                             *)
LEMMA NobodyElse ==
  ASSUME RowInv, NEW p \in Pids, ~ Idles(p) \/ OpenRead(p)
  PROVE  \A q \in Pids \ {p} : ~ Keys(q)
<1> SUFFICES ASSUME NEW q \in Pids \ {p}, Keys(q) PROVE FALSE
  OBVIOUS
<1>1. pipe = << >> /\ \A r \in Pids \ {q} : Idles(r)
  BY DEF RowInv, AloneLaw
<1>2. procs[q].pc \in {"start", "warm", "type"}
  BY DEF RowInv, Shape
<1>3. \A r \in Pids : procs[r].pc \notin {"wopen", "write"}
  BY <1>1, <1>2 DEF Idles
<1> QED BY <1>1, <1>3 DEF OpenRead

LEMMA NoticeRow ==
  ASSUME RowInv, IInv, NEW p \in Pids, Notice(p), UNCHANGED <<menuVars, belief>>
  PROVE  RowInv'
<1>1. Pids' = Pids /\ procs' = procs /\ seen' = seen \cup {p} /\ pipe' = pipe /\ faults' = faults
  BY DEF Notice, Pids
<1>2. \A q \in Pids : Blind(q)' => Blind(q) /\ procs'[q].kind = procs[q].kind
  BY <1>1 DEF Blind, HasKeyboard, At, Live
<1>3. Trust' => Trust
  BY <1>1, <1>2 DEF Trust
<1>4. UNCHANGED <<osd, sel, dbg_menu, acted>>
  BY DEF menuVars
<1>5. \A q \in Pids : Shape(q)' /\ KeysLaw(q)' /\ DaemonLaw(q)' /\ BlindLaw(q)'
  BY <1>1, <1>2, <1>3, <1>4, Rests DEF RowInv
<1>6. \A q \in Pids : /\ Keys(q)' <=> Keys(q)
                      /\ Sends(q)' <=> Sends(q)
                      /\ Serves(q)' <=> Serves(q)
  BY <1>1 DEF Keys, Sends, Serves, Daemon, Live, At
<1>7. FaultLaw'
  BY <1>1, <1>2 DEF RowInv, FaultLaw
<1>8. AloneLaw'
  BY <1>1, <1>6 DEF RowInv, AloneLaw, Idles
<1>9. (belief' <=> belief) /\ (osd' <=> osd)
  BY <1>4
<1>10. FlightLaw' /\ SyncLaw'
  BY <1>1, <1>3, <1>6, <1>9 DEF RowInv, FlightLaw, SyncLaw
<1>11. Hits'
  BY <1>4 DEF RowInv, Hits
<1> QED BY <1>1, <1>5, <1>7, <1>8, <1>10, <1>11 DEF RowInv

(* A keyboard that is not opened in time: the fault there is.  The menu is *)
(* still as the operator believes it.                                      *)
LEMMA LateRow ==
  ASSUME MaxFaults <= 1, RowInv, IInv, ProcsTyped, NEW p \in Pids, Warm(p), p \notin seen, UNCHANGED <<menuVars, belief>>
  PROVE  RowInv'
<1>1. faults = 0 /\ faults' = 1
  BY KeyboardAssumption DEF Warm, ProcsTyped
<1>2. Trust
  BY <1>1 DEF Trust
<1>3. \A q \in Pids : ~ Blind(q)
  BY <1>1 DEF RowInv, FaultLaw
<1>4. PICK pc \in {"open", "type"} : /\ Becomes(p, procs[p].kind, pc, procs[p].todo)
                                     /\ pc = "open" <=> procs[p].kind = "daemon"
  BY Moved DEF Warm, IInv
<1>5. /\ Pids' = Pids
      /\ procs'[p].kind = procs[p].kind /\ procs'[p].pc = pc /\ procs'[p].todo = procs[p].todo
      /\ \A q \in Pids \ {p} : procs'[q] = procs[q]
  BY <1>4, Changed DEF IInv
<1>6. seen' = seen /\ pipe' = pipe /\ At(p, "warm") /\ Live(p)
  BY DEF Warm, At, Live
<1>7. /\ Keys(p)' <=> Keys(p)
      /\ Sends(p)' <=> Sends(p)
      /\ Serves(p)' <=> Serves(p)
      /\ First(p)' = First(p) /\ Live(p)'
  BY <1>5, <1>6 DEF Keys, Sends, Serves, Daemon, Live, At, First
<1>8. /\ Shape(p) /\ KeysLaw(p) /\ DaemonLaw(p)
      /\ ~ Sends(p) /\ ~ Serves(p) /\ (Keys(p) \/ procs[p].kind = "daemon")
  BY <1>6 DEF RowInv, Shape, At, Sends, Serves, Keys
<1>9. /\ NRows' = NRows /\ sel' = sel /\ acted' = acted
      /\ osd' <=> osd
      /\ belief' <=> belief
  BY DEF menuVars, NRows
<1>10. Shape(p)'
  BY <1>4, <1>5, <1>7, <1>8 DEF Shape, At, Keys
<1>11. KeysLaw(p)'
  BY <1>2, <1>5, <1>6, <1>7, <1>8, <1>9 DEF KeysLaw, Says, At
<1>12. DaemonLaw(p)'
  BY <1>7, <1>8 DEF DaemonLaw
<1>13. BlindLaw(p)'
  <2>1. CASE Keys(p)
    BY <1>2, <1>6, <1>7, <1>8, <1>9, <2>1 DEF KeysLaw, BlindLaw, At
  <2>2. CASE ~ Keys(p)
    <3>1. procs'[p].todo = << >>
      BY <1>5, <1>6, <1>8, <2>2 DEF Serves, Daemon
    <3> QED BY <3>1 DEF BlindLaw
  <2> QED BY <2>1, <2>2
<1>14. \A q \in Pids \ {p} : ~ Blind(q)'
  BY <1>3, <1>5, <1>6 DEF Blind, At, HasKeyboard, Live
<1>15. \A q \in Pids \ {p} : Shape(q)' /\ KeysLaw(q)' /\ DaemonLaw(q)' /\ BlindLaw(q)'
  BY <1>2, <1>5, <1>14, Rests DEF RowInv, menuVars
<1>16. \A q \in Pids : /\ Keys(q)' <=> Keys(q)
                       /\ Sends(q)' <=> Sends(q)
                       /\ Serves(q)' <=> Serves(q)
  <2>1. ASSUME NEW q \in Pids \ {p}
        PROVE  /\ Keys(q)' <=> Keys(q)
               /\ Sends(q)' <=> Sends(q)
               /\ Serves(q)' <=> Serves(q)
    BY <1>5 DEF Keys, Sends, Serves, Daemon, Live, At
  <2> QED BY <1>7, <2>1
<1>17. FaultLaw'
  BY <1>1, <1>5, <1>14 DEF FaultLaw
<1>18. AloneLaw'
  <2> SUFFICES ASSUME NEW q \in Pids, Keys(q)
               PROVE  pipe' = << >> /\ \A r \in Pids \ {q} : Idles(r)'
    BY <1>5, <1>16 DEF AloneLaw
  <2>1. pipe = << >> /\ \A r \in Pids \ {q} : Idles(r)
    BY DEF RowInv, AloneLaw
  <2>2. \A r \in Pids \ {p} : Idles(r)' <=> Idles(r)
    BY <1>5 DEF Idles
  <2>3. p # q => Idles(p)'
    <3>1. p # q => procs[p].kind = "daemon"
      BY <1>6, <2>1 DEF Idles, At
    <3> QED BY <1>4, <1>5, <3>1 DEF Idles
  <2> QED BY <1>6, <2>1, <2>2, <2>3
<1>19. FlightLaw' /\ SyncLaw'
  BY <1>2, <1>5, <1>6, <1>9, <1>16 DEF RowInv, FlightLaw, SyncLaw
<1>20. Hits'
  BY <1>9 DEF RowInv, Hits
<1> QED BY <1>5, <1>6, <1>10, <1>11, <1>12, <1>13, <1>15, <1>17, <1>18, <1>19, <1>20 DEF RowInv
(* There is one process that serves.                                       *)
LEMMA OneServes ==
  ASSUME RowInv, SoleLaw, NEW p \in Pids, Serving(p), NEW q \in Pids \ {p}
  PROVE  ~ Serving(q) /\ ~ Serves(q)
<1>1. ~ Serving(q)
  BY DEF SoleLaw, NameLaw
<1>2. Serves(q) => Serving(q)
  BY DEF RowInv, Shape, Serves, Daemon, Serving, At
<1> QED BY <1>1, <1>2

LEMMA Who ==
  ASSUME RowInv, IInv, NEW p \in Pids
  PROVE  /\ procs[p].pc \in {"wopen", "write"} => Sends(p)
         /\ procs[p].pc \in {"open", "read", "eof"} => Daemon(p) /\ Serving(p) /\ ~ Keys(p) /\ ~ Sends(p)
         /\ procs[p].pc = "type" => Keys(p)
BY DEF RowInv, Shape, Keys, Sends, IInv, FileInv, Daemon, Serving, Live, At

LEMMA ReadRow ==
  ASSUME RowInv, IInv, SoleLaw, NEW p \in Pids, ReadLines(p), UNCHANGED <<menuVars, belief>>
  PROVE  RowInv'
<1>1. /\ At(p, "read") /\ procs[p].todo = << >> /\ pipe # << >> /\ pipe' = << >> /\ seen' = seen /\ faults' = faults
      /\ procs' = [procs EXCEPT ![p] = [@ EXCEPT !.todo = pipe]]
  BY DEF ReadLines
<1>2. Becomes(p, procs[p].kind, "read", pipe)
  BY <1>1, Retypes DEF IInv, At
<1>3. /\ Pids' = Pids
      /\ procs'[p].kind = procs[p].kind /\ procs'[p].pc = "read" /\ procs'[p].todo = pipe
      /\ \A q \in Pids \ {p} : procs'[q] = procs[q]
  BY <1>2, Changed DEF IInv
<1>4. Daemon(p) /\ Serving(p) /\ ~ Keys(p) /\ ~ Sends(p) /\ procs[p].kind = "daemon"
  BY <1>1, Who DEF At, Daemon
<1>5. \A q \in Pids \ {p} : ~ Keys(q)
  BY <1>1, NobodyElse DEF At, Idles
<1>6. \A q \in Pids : ~ Keys(q) /\ ~ Serves(q)
  BY <1>1, <1>4, <1>5, OneServes DEF Serves
<1>7. Trust => ~ osd
  BY <1>1, <1>6 DEF RowInv, SyncLaw, FlightLaw
<1>8. /\ ~ Keys(p)' /\ ~ Sends(p)' /\ Live(p)' /\ First(p)' = Head(pipe)
      /\ procs'[p].kind = "daemon"
  BY <1>3, <1>4 DEF Keys, Sends, Live, At, First
<1>9. Blind(p)' => Blind(p)
  BY <1>1, <1>3, <1>4 DEF Blind, HasKeyboard, Live, At
<1>10. \A q \in Pids : Blind(q)' => Blind(q) /\ procs'[q].kind = procs[q].kind
  <2>1. ASSUME NEW q \in Pids \ {p} PROVE Blind(q)' => Blind(q) /\ procs'[q].kind = procs[q].kind
    BY <1>1, <1>3 DEF Blind, At, HasKeyboard, Live
  <2> QED BY <1>3, <1>9, <2>1
<1>11. Trust' => Trust
  BY <1>1, <1>3, <1>10 DEF Trust
<1>12. pipe \in Seq(SendSet) /\ Head(pipe) \in SendSet /\ Tail(pipe) \in Seq(SendSet)
  BY <1>1 DEF RowInv
<1>13. pipe \in Seq(LineSet)
  <2>1. SendSet \subseteq LineSet
    BY DEF SendSet
  <2> QED BY <1>12, <2>1, SeqMonotonic
<1>14. Shape(p)'
  BY <1>3, <1>8, <1>12, <1>13 DEF Shape, At
<1>15. osd' <=> osd
  BY DEF menuVars
<1>16. DaemonLaw(p)'
  BY <1>7, <1>8, <1>11, <1>12, <1>15 DEF DaemonLaw
<1>17. Blind(p) => Trust
  BY <1>4 DEF Trust
<1>18. KeysLaw(p)' /\ BlindLaw(p)'
  BY <1>7, <1>8, <1>9, <1>15, <1>17 DEF KeysLaw, BlindLaw
<1>19. Aside(p)
  BY <1>3 DEF Aside, menuVars
<1>20. pipe' \in Seq(SendSet)
  BY <1>1
<1> QED BY <1>1, <1>4, <1>5, <1>6, <1>8, <1>10, <1>14, <1>16, <1>18, <1>19, <1>20, AsideStep

LEMMA SilentRow ==
  ASSUME MaxFaults <= 1, RowInv, IInv, SoleLaw, ProcsTyped, NEW p \in Pids, Silent(p), UNCHANGED <<menuVars, belief>>
  PROVE  RowInv'
<1> DEFINE Move(pc) == Becomes(p, procs[p].kind, pc, procs[p].todo)
<1>a. /\ ~ Sends(p) /\ ~ Keys(p) => procs[p].kind # "send" \/ ~ Live(p)
      /\ Serves(p) => procs[p].pc = "read" /\ procs[p].todo # << >>
      /\ Keys(p) => procs[p].pc \in {"start", "warm", "type"} /\ procs[p].kind = "keys"
      /\ Sends(p) => procs[p].pc \in {"start", "wopen", "write"} /\ procs[p].kind = "send"
  BY DEF RowInv, Shape, Keys, Sends, Serves, At
<1>b. /\ procs[p].pc # "ended" => Live(p)
      /\ ~ Idles(p) => \A q \in Pids \ {p} : ~ Keys(q)
      /\ Idles(p) <=> \/ procs[p].pc \in {"ended", "open"}
                      \/ procs[p].kind = "daemon" /\ procs[p].pc \in {"start", "warm"}
  BY NobodyElse DEF Live, At, Idles
<1>1. CASE DaemonCheck(p)
  <2>1. /\ procs[p].kind = "daemon" /\ procs[p].pc = "start"
        /\ UNCHANGED <<seen, pipe, faults>>
        /\ Goto(p, "warm") \/ procs' = [procs EXCEPT ![p] = [Ended EXCEPT !.kind = "refused"]]
    BY <1>1 DEF DaemonCheck, At
  <2>2. ~ Keys(p) /\ ~ Sends(p) /\ ~ Serves(p) /\ Live(p)
    BY <1>a, <1>b, <2>1 DEF Keys, Sends
  <2>3. CASE Goto(p, "warm")
    <3>1. Move("warm")
      BY <2>3, Moved DEF IInv
    <3> QED BY <2>1, <2>2, <3>1, GoesOnStep
  <2>4. CASE procs' = [procs EXCEPT ![p] = [Ended EXCEPT !.kind = "refused"]]
    <3> DEFINE refused == [kind |-> "refused", pc |-> "ended", todo |-> << >>]
    <3>a. [Ended EXCEPT !.kind = "refused"] = refused
      BY DEF Ended
    <3>1. Becomes(p, "refused", "ended", << >>)
      BY <2>4, <3>a DEF Becomes
    <3> QED BY <2>1, <2>2, <3>1, EndsStep DEF RowInv
  <2> QED BY <2>1, <2>3, <2>4
<1>2. CASE MakeKeyboard(p)
  <2>1. Move("warm") /\ procs[p].pc = "start" /\ UNCHANGED <<seen, pipe, faults>>
    BY <1>2, Moved DEF MakeKeyboard, At, IInv
  <2>2. ~ Sends(p) /\ ~ Serves(p)
    BY <1>2, <1>a, <2>1 DEF MakeKeyboard
  <2>3. procs[p].kind = "keys"
    BY <1>2 DEF MakeKeyboard
  <2> QED BY <1>b, <2>1, <2>2, <2>3, GoesOnStep DEF At
<1>3. CASE Notice(p)
  BY <1>3, NoticeRow
<1>4. CASE Warm(p)
  <2>1. PICK pc \in {"open", "type"} : Move(pc) /\ (pc = "open" <=> procs[p].kind = "daemon")
    BY <1>4, Moved DEF Warm, IInv
  <2>2. procs[p].pc = "warm" /\ UNCHANGED <<seen, pipe>> /\ (p \in seen => UNCHANGED faults)
    BY <1>4 DEF Warm, At
  <2>3. ~ Sends(p) /\ ~ Serves(p) /\ (Keys(p) => pc = "type")
    BY <1>a, <2>1, <2>2
  <2>4. CASE p \in seen
    BY <1>b, <2>1, <2>2, <2>3, <2>4, GoesOnStep DEF At
  <2> QED BY <1>4, <2>4, LateRow
<1>5. CASE OpenRead(p)
  <2>1. Move("read") /\ procs[p].pc = "open" /\ UNCHANGED <<seen, pipe, faults>>
    BY <1>5, Moved DEF OpenRead, At, IInv
  <2>2. ~ Keys(p) /\ ~ Sends(p) /\ Daemon(p)
    BY <2>1, Who
  <2>3. p \in seen \/ Blind(p)
    BY <2>1, <2>2 DEF Blind, HasKeyboard, Daemon, At
  <2>4. \A q \in Pids \ {p} : ~ Keys(q)
    BY <1>5, NobodyElse
  <2> QED BY <2>1, <2>2, <2>3, <2>4, GoesOnStep DEF Daemon
<1>6. CASE SendCheck(p)
  <2>1. /\ procs[p].kind = "send" /\ procs[p].pc = "start"
        /\ UNCHANGED <<seen, pipe, faults>>
        /\ Goto(p, "wopen") \/ procs' = [procs EXCEPT ![p] = Ended]
    BY <1>6 DEF SendCheck, At
  <2>2. ~ Keys(p) /\ ~ Serves(p) /\ Live(p) /\ \A q \in Pids \ {p} : ~ Keys(q)
    BY <1>a, <1>b, <2>1 DEF Keys
  <2>3. CASE Goto(p, "wopen")
    <3>1. Move("wopen")
      BY <2>3, Moved DEF IInv
    <3>2. procs'[p].kind = "send"
      BY <2>1, <3>1, Changed DEF IInv
    <3> QED BY <2>1, <2>2, <3>1, <3>2, GoesOnStep DEF HasKeyboard
  <2>4. CASE procs' = [procs EXCEPT ![p] = Ended]
    <3>1. Becomes(p, "none", "ended", << >>)
      BY <2>4 DEF Becomes, Ended
    <3> QED BY <2>1, <2>2, <3>1, EndsStep DEF RowInv
  <2> QED BY <2>1, <2>3, <2>4
<1>7. CASE OpenWrite(p)
  <2>1. Move("write") /\ procs[p].pc = "wopen" /\ UNCHANGED <<seen, pipe, faults>>
    BY <1>7, Moved DEF OpenWrite, At, IInv
  <2>2. Sends(p) /\ ~ Keys(p) /\ ~ Serves(p)
    BY <1>a, <2>1, Who
  <2>3. procs'[p].kind = "send"
    BY <1>a, <2>1, <2>2, Changed DEF IInv
  <2> QED BY <1>b, <2>1, <2>2, <2>3, GoesOnStep DEF HasKeyboard
<1>8. CASE Write(p)
  <2>1. /\ procs[p].pc = "write" /\ UNCHANGED <<seen, faults>> /\ Becomes(p, "none", "ended", << >>)
        /\ pipe' = pipe \/ pipe' = pipe \o procs[p].todo
    BY <1>8 DEF Write, At, Becomes, Ended
  <2>2. Sends(p) /\ ~ Keys(p) /\ ~ Serves(p)
    BY <1>a, <2>1, Who
  <2>3. pipe \in Seq(SendSet) /\ procs[p].todo \in Seq(SendSet)
    BY <2>2 DEF RowInv, Shape
  <2>4. pipe' \in Seq(SendSet)
    <3>1. pipe \o procs[p].todo \in Seq(SendSet)
      BY <2>3
    <3>2. CASE pipe' = pipe
      BY <2>3, <3>2
    <3>3. CASE pipe' = pipe \o procs[p].todo
      BY <3>1, <3>3
    <3> QED BY <2>1, <3>2, <3>3
  <2> QED BY <1>b, <2>1, <2>2, <2>4, EndsStep
<1>9. CASE ReadLines(p)
  BY <1>9, ReadRow
<1>10. CASE ReadEof(p)
  <2>1. Move("eof") /\ procs[p].pc = "read" /\ procs[p].todo = << >> /\ UNCHANGED <<seen, pipe, faults>>
    BY <1>10, Moved DEF ReadEof, At, IInv
  <2>2. ~ Keys(p) /\ ~ Sends(p) /\ Daemon(p) /\ ~ Serves(p)
    BY <1>a, <2>1, Who
  <2>3. p \in seen \/ Blind(p)
    BY <2>1, <2>2 DEF Blind, HasKeyboard, Daemon, At
  <2> QED BY <1>b, <2>1, <2>2, <2>3, GoesOnStep
<1>11. CASE Reopen(p)
  <2>1. /\ Move("open") /\ procs[p].pc = "eof" /\ UNCHANGED <<seen, faults>>
        /\ pipe' = pipe \/ pipe' = << >>
    BY <1>11, Moved DEF Reopen, Kept, At, IInv
  <2>2. ~ Keys(p) /\ ~ Sends(p) /\ Daemon(p) /\ ~ Serves(p)
    BY <1>a, <2>1, Who
  <2>3. p \in seen \/ Blind(p)
    BY <2>1, <2>2 DEF Blind, HasKeyboard, Daemon, At
  <2> QED BY <1>b, <2>1, <2>2, <2>3, GoesOnStep
<1> QED BY <1>1, <1>2, <1>3, <1>4, <1>5, <1>6, <1>7, <1>8, <1>9, <1>10, <1>11 DEF Silent
-----------------------------------------------------------------------------
(* A key is typed.  Nobody else types, and only the line and the menu      *)
(* change.                                                                 *)
TypesOn(p, kind, pc, todo) ==
  /\ Becomes(p, kind, pc, todo)
  /\ pc = "ended" \/ (kind = procs[p].kind /\ pc = procs[p].pc)
  /\ UNCHANGED <<seen, pipe, faults, belief>>

LEMMA TypistAlone ==
  ASSUME RowInv, IInv, SoleLaw, NEW p \in Pids, Typing(p)
  PROVE  /\ \A q \in Pids \ {p} : ~ Keys(q) /\ ~ Serves(q)
         /\ At(p, "type") => Keys(p) /\ procs[p].kind = "keys" /\ Len(procs[p].todo) = 1 /\ Live(p)
         /\ ~ At(p, "type") => Serves(p) /\ At(p, "read") /\ procs[p].kind = "daemon" /\ Live(p)
<1>1. \A q \in Pids \ {p} : ~ Keys(q)
  BY NobodyElse DEF Typing, At, Idles
<1>2. At(p, "type") => Keys(p) /\ procs[p].kind = "keys" /\ Len(procs[p].todo) = 1 /\ Live(p)
  BY Who DEF RowInv, Shape, Keys, At
<1>3. ~ At(p, "type") => Serves(p) /\ At(p, "read") /\ procs[p].kind = "daemon" /\ Live(p)
  BY Who DEF Typing, At, Serves, Daemon
<1>4. ASSUME NEW q \in Pids \ {p} PROVE ~ Serves(q)
  <2>1. CASE At(p, "type")
    <3>1. Idles(q)
      BY <1>2, <2>1 DEF RowInv, AloneLaw
    <3> QED BY <3>1 DEF RowInv, Shape, At, Idles
  <2>2. CASE ~ At(p, "type")
    BY <1>3, <2>2, Who, OneServes DEF At
  <2> QED BY <2>1, <2>2
<1> QED BY <1>1, <1>2, <1>3, <1>4

LEMMA TypeTrust ==
  ASSUME RowInv, IInv, SoleLaw, NEW p \in Pids, Typing(p), NEW kind, NEW pc, NEW todo, TypesOn(p, kind, pc, todo)
  PROVE  /\ Pids' = Pids
         /\ procs'[p].kind = kind /\ procs'[p].pc = pc /\ procs'[p].todo = todo
         /\ \A q \in Pids \ {p} : procs'[q] = procs[q]
         /\ \A q \in Pids : Blind(q)' => Blind(q) /\ procs'[q].kind = procs[q].kind
         /\ Trust' => Trust
<1>1. /\ Pids' = Pids
      /\ procs'[p].kind = kind /\ procs'[p].pc = pc /\ procs'[p].todo = todo
      /\ \A q \in Pids \ {p} : procs'[q] = procs[q]
  BY Changed DEF IInv, TypesOn
<1>2. UNCHANGED <<seen, faults>>
  BY DEF TypesOn
<1>3. Blind(p)' => Blind(p) /\ procs'[p].kind = procs[p].kind
  BY <1>1, <1>2 DEF TypesOn, Blind, HasKeyboard, Live, At
<1>4. \A q \in Pids \ {p} : Blind(q)' => Blind(q) /\ procs'[q].kind = procs[q].kind
  BY <1>1, <1>2 DEF Blind, HasKeyboard, Live, At
<1>5. \A q \in Pids : Blind(q)' => Blind(q) /\ procs'[q].kind = procs[q].kind
  BY <1>3, <1>4
<1>6. Trust' => Trust
  BY <1>1, <1>2, <1>5 DEF Trust
<1> QED BY <1>1, <1>5, <1>6

LEMMA TypeFrame ==
  ASSUME RowInv, IInv, SoleLaw, NEW p \in Pids, Typing(p), NEW kind, NEW pc, NEW todo, TypesOn(p, kind, pc, todo),
         Shape(p)', KeysLaw(p)', DaemonLaw(p)', BlindLaw(p)', SyncLaw', Hits'
  PROVE  RowInv'
<1>1. /\ Pids' = Pids
      /\ procs'[p].kind = kind /\ procs'[p].pc = pc /\ procs'[p].todo = todo
      /\ \A q \in Pids \ {p} : procs'[q] = procs[q]
      /\ \A q \in Pids : Blind(q)' => Blind(q) /\ procs'[q].kind = procs[q].kind
  BY TypeTrust
<1>2. /\ \A q \in Pids \ {p} : ~ Keys(q) /\ ~ Serves(q)
      /\ At(p, "type") => Keys(p) /\ procs[p].kind = "keys"
      /\ ~ At(p, "type") => Serves(p) /\ procs[p].kind = "daemon"
  BY TypistAlone
<1>3. ASSUME NEW q \in Pids \ {p}
      PROVE  /\ ~ Keys(q)' /\ ~ Serves(q)' /\ Shape(q)'
             /\ Sends(q)' <=> Sends(q)
  <2>1. procs'[q] = procs[q] /\ Shape(q)
    BY <1>1 DEF RowInv
  <2>2. /\ Keys(q)' <=> Keys(q)
        /\ Sends(q)' <=> Sends(q)
        /\ Serves(q)' <=> Serves(q)
        /\ Live(q)' <=> Live(q)
    BY <2>1 DEF Keys, Sends, Serves, Daemon, Live, At
  <2> QED BY <1>2, <2>1, <2>2 DEF Shape, At
<1>4. ASSUME NEW q \in Pids \ {p} PROVE KeysLaw(q)' /\ DaemonLaw(q)' /\ BlindLaw(q)'
  <2>1. Blind(q)' /\ procs'[q].todo # << >> => Keys(q)' \/ Serves(q)'
    BY <1>3 DEF Shape, Blind, HasKeyboard, Keys, Serves, Daemon
  <2> QED BY <1>3, <2>1 DEF KeysLaw, DaemonLaw, BlindLaw
<1>5. UNCHANGED <<seen, pipe, faults>> /\ (belief' <=> belief)
  BY DEF TypesOn
<1>6. FaultLaw'
  BY <1>1, <1>5 DEF RowInv, FaultLaw
<1>7. Keys(p)' => Keys(p)
  BY <1>1 DEF TypesOn, Keys, Live, At
<1>8. AloneLaw'
  <2> SUFFICES ASSUME Keys(p)' PROVE pipe' = << >> /\ \A q \in Pids \ {p} : Idles(q)'
    BY <1>1, <1>3 DEF AloneLaw
  <2>1. pipe = << >> /\ \A q \in Pids \ {p} : Idles(q)
    BY <1>7 DEF RowInv, AloneLaw
  <2> QED BY <1>1, <1>5, <2>1 DEF Idles
<1>9. FlightLaw'
  <2>1. Sends(p)' \/ Serves(p)' => Serves(p)
    BY <1>1, <1>2 DEF TypesOn, Sends, Serves, Daemon, Live, At, Keys
  <2>2. pipe' # << >> \/ (\E q \in Pids' : Sends(q)' \/ Serves(q)')
          => pipe # << >> \/ (\E q \in Pids : Sends(q) \/ Serves(q))
    BY <1>1, <1>3, <1>5, <2>1
  <2> QED BY <1>5, <2>2 DEF RowInv, FlightLaw
<1>10. \A q \in Pids' : Shape(q)' /\ KeysLaw(q)' /\ DaemonLaw(q)' /\ BlindLaw(q)'
  BY <1>1, <1>3, <1>4
<1>11. pipe' \in Seq(SendSet)
  BY <1>5 DEF RowInv
<1> QED BY <1>6, <1>8, <1>9, <1>10, <1>11 DEF RowInv
LEMMA Pushed ==
  ASSUME NEW S, NEW a \in S, NEW s \in Seq(S)
  PROVE  /\ << a >> \o s \in Seq(S) /\ << a >> \o s # << >>
         /\ Head(<< a >> \o s) = a /\ Tail(<< a >> \o s) = s
         /\ Len(<< a >> \o s) = Len(s) + 1
<1> DEFINE x == << a >> \o s
<1>1. /\ << a >> \in Seq(S) /\ Len(<< a >>) = 1 /\ << a >>[1] = a
  OBVIOUS
<1>2. x \in Seq(S) /\ Len(x) = Len(s) + 1
  BY <1>1
<1>3. x[1] = a /\ \A i \in 1 .. Len(s) : x[i + 1] = s[i]
  BY <1>1
<1> HIDE DEF x
<1>4. x # << >> /\ Head(x) = a
  BY <1>2, <1>3
<1>5. Tail(x) = s
  <2>1. Tail(x) \in Seq(S) /\ Len(Tail(x)) = Len(s) /\ \A i \in 1 .. Len(s) : Tail(x)[i] = x[i + 1]
    BY <1>2, <1>4
  <2>2. \A i \in 1 .. Len(s) : Tail(x)[i] = s[i]
    BY <1>3, <2>1
  <2> QED BY <2>1, <2>2, SeqEqual
<1> QED BY <1>2, <1>4, <1>5 DEF x

LEMMA HasKeys ==
  ASSUME RowInv, IInv, SoleLaw, NEW p \in Pids, Typing(p)
  PROVE  First(p).keys # << >>
<1>1. \A l, e : Visit(l, e) \/ Rest(l, e) => l.keys # << >>
  BY DEF Visit, Rest
<1>2. CloseLine.keys # << >> /\ ChordLine.keys # << >>
  BY DEF CloseLine, ChordLine
<1>3. KeysLaw(p) /\ DaemonLaw(p)
  BY DEF RowInv
<1>4. Keys(p) \/ Serves(p)
  BY TypistAlone
<1> QED BY <1>1, <1>2, <1>3, <1>4 DEF KeysLaw, DaemonLaw, SendSet

(* What is left of a line and of the lines behind it.                      *)
LEMMA TapIs ==
  ASSUME RowInv, IInv, SoleLaw, NEW p \in Pids, tap(p), UNCHANGED belief, NEW l, l = First(p)
  PROVE  /\ l \in LineSet /\ Key(p) = Head(l.keys) /\ Row(p) = l.row
         /\ Len(l.keys) = 1 /\ At(p, "type") => TypesOn(p, "none", "ended", << >>)
         /\ Len(l.keys) = 1 /\ ~ At(p, "type") =>
              TypesOn(p, procs[p].kind, procs[p].pc, Tail(procs[p].todo))
         /\ Len(l.keys) # 1 => \E todo \in Seq(LineSet) :
              /\ TypesOn(p, procs[p].kind, procs[p].pc, todo)
              /\ todo # << >> /\ Head(todo) = After(l) /\ Tail(todo) = Tail(procs[p].todo)
              /\ Len(todo) = Len(procs[p].todo)
<1> DEFINE t == procs[p].todo
<1>1. /\ Typing(p) /\ UNCHANGED <<seen, pipe, faults, belief>>
      /\ At(p, "type") => Len(t) = 1
      /\ ~ At(p, "type") => t # << >>
      /\ t \in Seq(LineSet)
  BY TypistAlone DEF tap, RowInv, Shape, Serves
<1> HIDE DEF t
<1>2. t # << >> /\ Head(t) \in LineSet /\ Tail(t) \in Seq(LineSet) /\ (Len(t) = 1 => Tail(t) = << >>)
      /\ Len(Tail(t)) = Len(t) - 1 /\ Len(t) \in Nat \ {0}
  <2>1. t # << >>
    BY <1>1
  <2>2. Head(t) \in LineSet /\ Tail(t) \in Seq(LineSet) /\ Len(Tail(t)) = Len(t) - 1
    BY <1>1, <2>1, HeadTailProperties
  <2>3. Len(t) \in Nat \ {0}
    BY <1>1, <2>1
  <2>4. Len(Tail(t)) = 0 => Tail(t) = << >>
    BY <2>2, EmptySeq
  <2> QED BY <2>1, <2>2, <2>3, <2>4
<1>3. l \in LineSet /\ Key(p) = Head(l.keys) /\ Row(p) = l.row
  BY <1>2 DEF Key, Row, First, t
<1>4. PICK rest : /\ rest = IF Len(l.keys) = 1 THEN Tail(t) ELSE << After(l) >> \o Tail(t)
                  /\ procs' = [procs EXCEPT ![p] = IF rest = << >> /\ At(p, "type") THEN Ended
                                                   ELSE [@ EXCEPT !.todo = rest]]
  BY DEF tap, After, First, t
<1>5. ASSUME rest # << >> \/ ~ At(p, "type") PROVE TypesOn(p, procs[p].kind, procs[p].pc, rest)
  <2>1. procs' = [procs EXCEPT ![p] = [@ EXCEPT !.todo = rest]]
    BY <1>4, <1>5
  <2>2. Becomes(p, procs[p].kind, procs[p].pc, rest)
    BY <2>1, Retypes DEF IInv
  <2> QED BY <1>1, <2>2 DEF TypesOn
<1>6. ASSUME rest = << >>, At(p, "type") PROVE TypesOn(p, "none", "ended", << >>)
  BY <1>1, <1>4, <1>6 DEF TypesOn, Becomes, Ended
<1>7. ASSUME Len(l.keys) # 1
      PROVE  \E todo \in Seq(LineSet) :
              /\ TypesOn(p, procs[p].kind, procs[p].pc, todo)
              /\ todo # << >> /\ Head(todo) = After(l) /\ Tail(todo) = Tail(t)
              /\ Len(todo) = Len(t)
  <2>1. rest = << After(l) >> \o Tail(t) /\ After(l) \in LineSet
    BY <1>1, <1>3, <1>4, <1>7, AfterIs, HasKeys
  <2>2. /\ rest \in Seq(LineSet) /\ rest # << >> /\ Head(rest) = After(l) /\ Tail(rest) = Tail(t)
        /\ Len(rest) = Len(t)
    <3>1. \A a \in LineSet, s \in Seq(LineSet) :
            /\ << a >> \o s \in Seq(LineSet) /\ << a >> \o s # << >>
            /\ Head(<< a >> \o s) = a /\ Tail(<< a >> \o s) = s
            /\ Len(<< a >> \o s) = Len(s) + 1
      BY Pushed
    <3> QED BY <1>2, <2>1, <3>1
  <2> QED BY <1>5, <2>2
<1>8. ASSUME Len(l.keys) = 1
      PROVE  /\ At(p, "type") => TypesOn(p, "none", "ended", << >>)
             /\ ~ At(p, "type") => TypesOn(p, procs[p].kind, procs[p].pc, Tail(t))
  BY <1>1, <1>2, <1>4, <1>5, <1>6, <1>8
<1> QED BY <1>3, <1>7, <1>8 DEF t
LEMMA HitRight ==
  ASSUME Hits, acted' = acted \/ (\E row : acted' = [meant |-> row, hit |-> row]) \/ acted'.meant = "none"
  PROVE  Hits'
  BY DEF Hits

(* What a stroke of a line does, seen or not.                              *)
LEMMA StrokeFirst ==
  ASSUME Hits, MenuTyped, NEW l \in LineSet, NEW e \in BOOLEAN, Visit(l, e),
         NEW p, IF p \in seen THEN Menu(Head(l.keys), l.row) ELSE UNCHANGED menuVars
  PROVE  /\ Hits'
         /\ Len(l.keys) = 1 => ~ e
         /\ p \in seen => (osd' <=> ~ osd)
         /\ Len(l.keys) # 1 /\ (p \in seen \/ ~ osd) =>
              Rest(After(l), e) /\ (~ osd' \/ Aimed(After(l), e, sel', NRows'))
         /\ p \notin seen => (osd' <=> osd)
<1>1. CASE p \in seen
  BY <1>1, StrikeFirst, HitRight
<1>2. CASE p \notin seen
  <2>1. (osd' <=> osd) /\ acted' = acted
    BY <1>2 DEF menuVars
  <2>2. /\ Len(l.keys) = 1 => ~ e
        /\ Len(l.keys) # 1 => Rest(After(l), e)
    BY Opened
  <2> QED BY <1>2, <2>1, <2>2, HitRight
<1> QED BY <1>1, <1>2

LEMMA StrokeNext ==
  ASSUME Hits, MenuTyped, NEW l \in LineSet, NEW e \in BOOLEAN, Rest(l, e), ~ osd \/ Aimed(l, e, sel, NRows),
         NEW p, IF p \in seen THEN Menu(Head(l.keys), l.row) ELSE UNCHANGED menuVars
  PROVE  /\ Hits'
         /\ Len(l.keys) # 1 /\ (p \in seen \/ ~ osd) =>
              Rest(After(l), e) /\ (~ osd' \/ Aimed(After(l), e, sel', NRows'))
         /\ ~ osd => ~ osd'
         /\ p \in seen /\ osd => IF Len(l.keys) = 1 THEN osd' <=> (~ e \/ l.row \notin Closing) ELSE osd'
         /\ p \notin seen => (osd' <=> osd)
<1>1. CASE p \in seen
  BY <1>1, StrikeNext, HitRight
<1>2. CASE p \notin seen
  <2>1. (osd' <=> osd) /\ acted' = acted
    BY <1>2 DEF menuVars
  <2>2. Len(l.keys) # 1 => Rest(After(l), e)
    BY Rested
  <2> QED BY <1>2, <2>1, <2>2, HitRight
<1> QED BY <1>1, <1>2

LEMMA KeysStroke ==
  ASSUME RowInv, MenuTyped, NEW p \in Pids, Keys(p), At(p, "type"), NEW l \in LineSet, l = First(p),
         Trust => p \in seen, p \notin seen => Blind(p) /\ procs[p].todo # << >>,
         IF p \in seen THEN Menu(Head(l.keys), l.row) ELSE UNCHANGED menuVars
  PROVE  /\ Hits'
         /\ Len(l.keys) = 1 /\ Trust => (osd' <=> belief)
         /\ Len(l.keys) # 1 => \E e \in BOOLEAN :
              /\ Says(l, e) /\ (Trust => osd')
              /\ Rest(After(l), e) /\ (~ osd' \/ Aimed(After(l), e, sel', NRows'))
         /\ Len(l.keys) # 1 /\ p \notin seen => ~ osd'
<1>1. Hits
  BY DEF RowInv
<1>2. p \notin seen => ~ osd \/ l = CloseLine
  BY DEF RowInv, BlindLaw
<1>3. p \notin seen => (osd' <=> osd) /\ acted' = acted
  BY DEF menuVars
<1>4. ASSUME l = CloseLine, ~ belief, Trust => osd
      PROVE  Len(l.keys) = 1 /\ Hits' /\ (Trust => (osd' <=> belief))
  <2>1. Head(l.keys) = "osd" /\ Len(l.keys) = 1 /\ l.row = "none"
    BY <1>4 DEF CloseLine
  <2>2. p \in seen => (osd' <=> ~ osd) /\ acted' = acted
    BY <2>1 DEF Menu
  <2> QED BY <1>1, <1>3, <1>4, <2>1, <2>2, HitRight
<1>5. ASSUME l = ChordLine, ~ belief, Trust => ~ osd
      PROVE  Len(l.keys) = 1 /\ Hits' /\ (Trust => (osd' <=> belief))
  <2>1. Head(l.keys) = "chord" /\ Len(l.keys) = 1 /\ l.row = "none"
    BY <1>5 DEF ChordLine
  <2>2. p \in seen => ~ osd' /\ (acted' = acted \/ acted' = [meant |-> "none", hit |-> Rows[sel + 1]])
    BY <2>1 DEF Menu
  <2>3. acted' = [meant |-> "none", hit |-> Rows[sel + 1]] => acted'.meant = "none"
    OBVIOUS
  <2> QED BY <1>1, <1>3, <1>5, <2>1, <2>2, <2>3, HitRight
<1>6. ASSUME NEW e \in BOOLEAN, Says(l, e), Visit(l, e), Trust => ~ osd
      PROVE  /\ Hits'
             /\ Len(l.keys) = 1 /\ Trust => (osd' <=> belief)
             /\ Len(l.keys) # 1 => /\ Trust => osd'
                                   /\ Rest(After(l), e) /\ (~ osd' \/ Aimed(After(l), e, sel', NRows'))
             /\ Len(l.keys) # 1 /\ p \notin seen => ~ osd'
  <2>1. Len(l.keys) # 1 => l # CloseLine
    BY DEF CloseLine
  <2>2. /\ Hits'
        /\ Len(l.keys) = 1 => ~ e
        /\ p \in seen => (osd' <=> ~ osd)
        /\ Len(l.keys) # 1 /\ (p \in seen \/ ~ osd) =>
             Rest(After(l), e) /\ (~ osd' \/ Aimed(After(l), e, sel', NRows'))
        /\ p \notin seen => (osd' <=> osd)
    BY <1>1, <1>6, StrokeFirst
  <2> QED BY <1>2, <1>6, <2>1, <2>2 DEF Says
<1>7. ASSUME NEW e \in BOOLEAN, Says(l, e), Trust => osd, Rest(l, e), ~ osd \/ Aimed(l, e, sel, NRows)
      PROVE  /\ Hits'
             /\ Len(l.keys) = 1 /\ Trust => (osd' <=> belief)
             /\ Len(l.keys) # 1 => /\ Trust => osd'
                                   /\ Rest(After(l), e) /\ (~ osd' \/ Aimed(After(l), e, sel', NRows'))
             /\ Len(l.keys) # 1 /\ p \notin seen => ~ osd'
  <2>1. Len(l.keys) # 1 => l # CloseLine
    BY DEF CloseLine
  <2>2. /\ Hits'
        /\ Len(l.keys) # 1 /\ (p \in seen \/ ~ osd) =>
             Rest(After(l), e) /\ (~ osd' \/ Aimed(After(l), e, sel', NRows'))
        /\ p \in seen /\ osd => IF Len(l.keys) = 1 THEN osd' <=> (~ e \/ l.row \notin Closing) ELSE osd'
        /\ p \notin seen => (osd' <=> osd)
    BY <1>1, <1>7, StrokeNext
  <2> QED BY <1>2, <1>7, <2>1, <2>2 DEF Says
<1>8. KeysLaw(p)
  BY DEF RowInv
<1> QED BY <1>4, <1>5, <1>6, <1>7, <1>8 DEF KeysLaw
Seen(p) == IF p \in seen THEN Menu(Key(p), Row(p)) ELSE UNCHANGED menuVars

LEMMA WhoIsBlind ==
  ASSUME RowInv, IInv, SoleLaw, NEW p \in Pids, Typing(p)
  PROVE  /\ p \notin seen => Blind(p) /\ procs[p].todo # << >>
         /\ At(p, "type") => (Trust => p \in seen)
         /\ ~ At(p, "type") /\ p \notin seen => Trust
<1>1. /\ At(p, "type") => procs[p].kind = "keys" /\ Len(procs[p].todo) = 1 /\ Live(p)
      /\ ~ At(p, "type") => Serves(p) /\ At(p, "read") /\ procs[p].kind = "daemon" /\ Live(p)
  BY TypistAlone
<1>2. p \notin seen => Blind(p)
  BY <1>1 DEF Blind, HasKeyboard, At
<1>3. procs[p].todo # << >>
  <2>1. CASE At(p, "type")
    <3>1. Len(procs[p].todo) = 1
      BY <1>1, <2>1
    <3> QED BY <3>1
  <2> QED BY <1>1, <2>1 DEF Serves
<1>4. Blind(p) /\ procs[p].kind = "keys" => ~ Trust
  BY DEF RowInv, FaultLaw, Trust
<1>5. Blind(p) /\ procs[p].kind = "daemon" => Trust
  BY DEF Trust
<1> QED BY <1>1, <1>2, <1>3, <1>4, <1>5

LEMMA KeysRow ==
  ASSUME RowInv, IInv, SoleLaw, MenuTyped, NEW p \in Pids, tap(p), At(p, "type"), Seen(p), UNCHANGED belief
  PROVE  RowInv'
<1>1. PICK l : l = First(p)
  OBVIOUS
<1>2. /\ l \in LineSet /\ Key(p) = Head(l.keys) /\ Row(p) = l.row
      /\ Len(l.keys) = 1 => TypesOn(p, "none", "ended", << >>)
      /\ Len(l.keys) # 1 => \E todo \in Seq(LineSet) :
           /\ TypesOn(p, procs[p].kind, procs[p].pc, todo)
           /\ todo # << >> /\ Head(todo) = After(l) /\ Len(todo) = Len(procs[p].todo)
  BY <1>1, TapIs
<1>3. Typing(p)
  BY DEF tap
<1>4. Keys(p) /\ procs[p].kind = "keys" /\ Len(procs[p].todo) = 1 /\ Live(p) /\ procs[p].pc = "type"
  BY <1>3, TypistAlone DEF At
<1>5. /\ Hits'
      /\ Len(l.keys) = 1 /\ Trust => (osd' <=> belief)
      /\ Len(l.keys) # 1 => \E e \in BOOLEAN :
           /\ Says(l, e) /\ (Trust => osd')
           /\ Rest(After(l), e) /\ (~ osd' \/ Aimed(After(l), e, sel', NRows'))
      /\ Len(l.keys) # 1 /\ p \notin seen => ~ osd'
  BY <1>1, <1>2, <1>3, <1>4, WhoIsBlind, KeysStroke DEF Seen
<1>6. belief' <=> belief
  OBVIOUS
<1>7. CASE Len(l.keys) = 1
  <2>1. TypesOn(p, "none", "ended", << >>)
    BY <1>2, <1>7
  <2>2. procs'[p].pc = "ended" /\ procs'[p].todo = << >> /\ (Trust' => Trust)
    BY <1>3, <2>1, TypeTrust
  <2>3. << >> \in Seq(LineSet)
    OBVIOUS
  <2>4. Shape(p)' /\ KeysLaw(p)' /\ DaemonLaw(p)' /\ BlindLaw(p)'
    BY <2>2, <2>3 DEF Shape, KeysLaw, DaemonLaw, BlindLaw, Keys, Sends, Serves, Daemon, Live, At
  <2>5. SyncLaw'
    BY <1>5, <1>6, <1>7, <2>2 DEF SyncLaw
  <2> QED BY <1>3, <1>5, <2>1, <2>4, <2>5, TypeFrame
<1>8. CASE Len(l.keys) # 1
  <2>1. PICK todo \in Seq(LineSet) :
           /\ TypesOn(p, procs[p].kind, procs[p].pc, todo)
           /\ todo # << >> /\ Head(todo) = After(l) /\ Len(todo) = 1
    BY <1>2, <1>4, <1>8
  <2>2. /\ Pids' = Pids
        /\ procs'[p].kind = "keys" /\ procs'[p].pc = "type" /\ procs'[p].todo = todo
        /\ Trust' => Trust
        /\ Blind(p)' => Blind(p)
    BY <1>3, <1>4, <2>1, TypeTrust
  <2>3. /\ Keys(p)' /\ ~ Sends(p)' /\ ~ Serves(p)' /\ Live(p)' /\ At(p, "type")'
        /\ First(p)' = After(l)
    BY <2>1, <2>2 DEF Keys, Sends, Serves, Daemon, Live, At, First
  <2>4. Shape(p)'
    BY <2>1, <2>2, <2>3 DEF Shape
  <2>5. After(l).row = l.row
    BY <1>1, <1>2, <1>3, HasKeys, AfterIs
  <2>6. KeysLaw(p)'
    <3>1. PICK e \in BOOLEAN :
           /\ Says(l, e) /\ (Trust => osd')
           /\ Rest(After(l), e) /\ (~ osd' \/ Aimed(After(l), e, sel', NRows'))
      BY <1>5, <1>8
    <3>2. belief' <=> (~ e \/ After(l).row \notin Closing)
      BY <1>6, <2>5, <3>1 DEF Says
    <3> QED BY <2>2, <2>3, <3>1, <3>2 DEF KeysLaw, Says
  <2>7. BlindLaw(p)'
    BY <1>5, <1>8, <2>2 DEF BlindLaw, Blind
  <2>8. DaemonLaw(p)' /\ SyncLaw'
    BY <2>2, <2>3 DEF DaemonLaw, SyncLaw
  <2> QED BY <1>3, <1>5, <2>1, <2>4, <2>6, <2>7, <2>8, TypeFrame
<1> QED BY <1>7, <1>8

LEMMA DaemonRow ==
  ASSUME RowInv, IInv, SoleLaw, MenuTyped, NEW p \in Pids, tap(p), ~ At(p, "type"), Seen(p), UNCHANGED belief
  PROVE  RowInv'
<1>1. PICK l : l = First(p)
  OBVIOUS
<1>2. /\ l \in LineSet /\ Key(p) = Head(l.keys) /\ Row(p) = l.row
      /\ Len(l.keys) = 1 => TypesOn(p, procs[p].kind, procs[p].pc, Tail(procs[p].todo))
      /\ Len(l.keys) # 1 => \E todo \in Seq(LineSet) :
           /\ TypesOn(p, procs[p].kind, procs[p].pc, todo)
           /\ todo # << >> /\ Head(todo) = After(l) /\ Tail(todo) = Tail(procs[p].todo)
  BY <1>1, TapIs
<1>3. Typing(p)
  BY DEF tap
<1>4. Serves(p) /\ procs[p].kind = "daemon" /\ Live(p) /\ procs[p].pc = "read"
  BY <1>3, TypistAlone DEF At
<1>5. Tail(procs[p].todo) \in Seq(SendSet) /\ procs[p].todo \in Seq(LineSet) /\ procs[p].todo # << >>
  BY <1>4 DEF RowInv, Shape, Serves
<1>6. (belief' <=> belief) /\ ~ belief
  BY <1>4 DEF RowInv, FlightLaw
<1>7. p \notin seen => Trust /\ Blind(p)
  BY <1>3, WhoIsBlind
<1>8. Menu(Head(l.keys), l.row) \/ p \notin seen
  BY <1>2 DEF Seen
<1>9. /\ Hits'
      /\ After(l).row = l.row /\ l.row \in Closing
      /\ Len(l.keys) # 1 => Rest(After(l), TRUE) /\ (~ osd' \/ Aimed(After(l), TRUE, sel', NRows'))
      /\ Len(l.keys) = 1 => ~ osd'
      /\ p \notin seen => ~ osd'
  <2>0. Hits /\ (IF p \in seen THEN Menu(Head(l.keys), l.row) ELSE UNCHANGED menuVars)
    BY <1>2 DEF Seen, RowInv
  <2>1. After(l).row = l.row
    BY <1>1, <1>2, <1>3, HasKeys, AfterIs
  <2>2. p \notin seen => ~ osd \/ l = CloseLine
    BY <1>1, <1>5, <1>7 DEF RowInv, BlindLaw
  <2>3. CASE l \in SendSet /\ (Trust => ~ osd)
    <3>1. Visit(l, TRUE) /\ l.row \in Closing
      BY <2>3 DEF SendSet
    <3>2. /\ Hits'
          /\ Len(l.keys) # 1
          /\ p \in seen \/ ~ osd =>
               Rest(After(l), TRUE) /\ (~ osd' \/ Aimed(After(l), TRUE, sel', NRows'))
          /\ p \notin seen => (osd' <=> osd)
      BY <1>2, <2>0, <3>1, StrokeFirst
    <3> QED BY <1>7, <2>1, <2>3, <3>1, <3>2
  <2>4. CASE Rest(l, TRUE) /\ l.row \in Closing /\ (~ osd \/ Aimed(l, TRUE, sel, NRows))
    <3>1. /\ Hits'
          /\ Len(l.keys) # 1 /\ (p \in seen \/ ~ osd) =>
               Rest(After(l), TRUE) /\ (~ osd' \/ Aimed(After(l), TRUE, sel', NRows'))
          /\ ~ osd => ~ osd'
          /\ p \in seen /\ osd => IF Len(l.keys) = 1 THEN osd' <=> (~ TRUE \/ l.row \notin Closing) ELSE osd'
          /\ p \notin seen => (osd' <=> osd)
      BY <1>2, <2>0, <2>4, StrokeNext
    <3>2. l # CloseLine
      <4>1. Head(l.keys) # "osd"
        BY <1>2, <2>4, Rested DEF Dirs
      <4> QED BY <4>1 DEF CloseLine
    <3> QED BY <2>1, <2>2, <2>4, <3>1, <3>2
  <2> QED BY <1>1, <1>4, <2>3, <2>4 DEF RowInv, DaemonLaw
<1>10. ASSUME NEW todo \in Seq(LineSet), TypesOn(p, procs[p].kind, procs[p].pc, todo),
              todo # << >> => /\ Tail(todo) \in Seq(SendSet)
                              /\ \/ Head(todo) \in SendSet /\ ~ osd'
                                 \/ /\ Rest(Head(todo), TRUE) /\ Head(todo).row \in Closing
                                    /\ ~ osd' \/ Aimed(Head(todo), TRUE, sel', NRows'),
              todo = << >> => ~ osd'
       PROVE  RowInv'
  <2>2. /\ Pids' = Pids
        /\ procs'[p].kind = "daemon" /\ procs'[p].pc = "read" /\ procs'[p].todo = todo
        /\ Trust' => Trust
        /\ Blind(p)' => Blind(p)
    BY <1>3, <1>4, <1>10, TypeTrust
  <2>3. /\ ~ Keys(p)' /\ ~ Sends(p)' /\ Live(p)' /\ At(p, "read")'
        /\ Serves(p)' <=> todo # << >>
        /\ First(p)' = Head(todo)
    BY <2>2 DEF Keys, Sends, Serves, Daemon, Live, At, First
  <2>4. Shape(p)'
    BY <1>10, <2>2, <2>3 DEF Shape
  <2>5. DaemonLaw(p)'
    BY <1>10, <2>3 DEF DaemonLaw
  <2>6. Blind(p)' => p \notin seen
    BY <2>2 DEF Blind
  <2>7. BlindLaw(p)' /\ KeysLaw(p)'
    BY <1>9, <2>3, <2>6 DEF BlindLaw, KeysLaw
  <2>8. SyncLaw'
    BY <1>6, <1>10, <2>2, <2>3 DEF SyncLaw
  <2> QED BY <1>3, <1>9, <1>10, <2>4, <2>5, <2>7, <2>8, TypeFrame
<1>11. CASE Len(l.keys) = 1
  <2> DEFINE t == Tail(procs[p].todo)
  <2>1. t \in Seq(SendSet) /\ t \in Seq(LineSet)
    BY <1>5, HeadTailProperties
  <2>2. TypesOn(p, procs[p].kind, procs[p].pc, t) /\ ~ osd'
    BY <1>2, <1>9, <1>11
  <2> HIDE DEF t
  <2>3. t # << >> => Tail(t) \in Seq(SendSet) /\ Head(t) \in SendSet
    BY <2>1, HeadTailProperties
  <2> QED BY <1>10, <2>1, <2>2, <2>3
<1>12. CASE Len(l.keys) # 1
  <2>1. PICK todo \in Seq(LineSet) :
           /\ TypesOn(p, procs[p].kind, procs[p].pc, todo)
           /\ todo # << >> /\ Head(todo) = After(l) /\ Tail(todo) = Tail(procs[p].todo)
    BY <1>2, <1>12
  <2> QED BY <1>5, <1>9, <1>10, <1>12, <2>1
<1> QED BY <1>11, <1>12
(* A process dies: that is the fault there is, and nobody is blind after.  *)
LEMMA DieRow ==
  ASSUME MaxFaults <= 1, RowInv, IInv, ProcsTyped, NEW p \in Pids, Die(p), UNCHANGED <<menuVars, belief>>
  PROVE  RowInv'
<1>1. faults = 0 /\ faults' = 1
  BY KeyboardAssumption DEF Die, ProcsTyped
<1>2. Trust
  BY <1>1 DEF Trust
<1>3. \A q \in Pids : ~ Blind(q)
  BY <1>1 DEF RowInv, FaultLaw
<1>4. Becomes(p, "none", "ended", << >>) /\ seen' = seen /\ (pipe' = pipe \/ pipe' = << >>)
  BY DEF Die, Becomes, Ended, Kept
<1>5. /\ Pids' = Pids
      /\ procs'[p].pc = "ended" /\ procs'[p].todo = << >>
      /\ \A q \in Pids \ {p} : procs'[q] = procs[q]
  BY <1>4, Changed DEF IInv
<1>6. ~ Live(p)' /\ ~ Keys(p)' /\ ~ Sends(p)' /\ ~ Serves(p)' /\ ~ Blind(p)'
  BY <1>5 DEF Keys, Sends, Serves, Daemon, Live, At, Blind, HasKeyboard
<1>7. \A q \in Pids \ {p} : ~ Blind(q)'
  BY <1>3, <1>4, <1>5 DEF Blind, At, HasKeyboard, Live
<1>8. ~ Trust'
  BY <1>1, <1>5, <1>6, <1>7 DEF Trust
<1>9. << >> \in Seq(LineSet) /\ << >> \in Seq(SendSet)
  OBVIOUS
<1>10. Shape(p)' /\ KeysLaw(p)' /\ DaemonLaw(p)' /\ BlindLaw(p)'
  BY <1>5, <1>6, <1>9 DEF Shape, KeysLaw, DaemonLaw, BlindLaw
<1>11. \A q \in Pids \ {p} : Shape(q)' /\ KeysLaw(q)' /\ DaemonLaw(q)' /\ BlindLaw(q)'
  BY <1>2, <1>5, <1>7, Rests DEF RowInv, menuVars
<1>12. \A q \in Pids \ {p} : /\ Keys(q)' <=> Keys(q)
                             /\ Sends(q)' <=> Sends(q)
                             /\ Serves(q)' <=> Serves(q)
  BY <1>5 DEF Keys, Sends, Serves, Daemon, Live, At
<1>13. FaultLaw'
  BY <1>1, <1>5, <1>6, <1>7 DEF FaultLaw
<1>14. AloneLaw'
  <2> SUFFICES ASSUME NEW q \in Pids \ {p}, Keys(q)
               PROVE  pipe' = << >> /\ \A r \in Pids \ {q} : Idles(r)'
    BY <1>5, <1>6, <1>12 DEF AloneLaw
  <2>1. pipe = << >> /\ \A r \in Pids \ {q} : Idles(r)
    BY DEF RowInv, AloneLaw
  <2> QED BY <1>4, <1>5, <2>1 DEF Idles
<1>15. FlightLaw'
  <2>1. pipe' # << >> \/ (\E q \in Pids' : Sends(q)' \/ Serves(q)')
          => pipe # << >> \/ (\E q \in Pids : Sends(q) \/ Serves(q))
    BY <1>4, <1>5, <1>6, <1>12
  <2>2. belief' <=> belief
    OBVIOUS
  <2> QED BY <2>1, <2>2 DEF RowInv, FlightLaw
<1>16. SyncLaw'
  BY <1>8 DEF SyncLaw
<1>17. Hits'
  BY HitRight DEF RowInv, menuVars
<1>18. pipe' \in Seq(SendSet)
  <2>1. CASE pipe' = pipe
    BY <2>1 DEF RowInv
  <2>2. CASE pipe' = << >>
    BY <1>9, <2>2
  <2> QED BY <1>4, <2>1, <2>2
<1>19. \A q \in Pids' : Shape(q)' /\ KeysLaw(q)' /\ DaemonLaw(q)' /\ BlindLaw(q)'
  BY <1>5, <1>10, <1>11
<1> QED BY <1>13, <1>14, <1>15, <1>16, <1>17, <1>18, <1>19 DEF RowInv

-----------------------------------------------------------------------------
(* Commands.                                                               *)
QuietFacts == pipe = << >> /\ \A q \in Pids : procs[q].pc \in {"ended", "open"} /\ ~ Keys(q) /\ ~ Sends(q) /\ ~ Serves(q)

LEMMA QuietIs == ASSUME RowInv, Quiet PROVE QuietFacts /\ (Trust => (osd <=> belief))
<1>1. QuietFacts
  BY DEF RowInv, Shape, Quiet, QuietFacts, Keys, Sends, Serves, At
<1>2. SyncLaw
  BY DEF RowInv
<1> QED BY <1>1, <1>2 DEF QuietFacts, SyncLaw

LEMMA LoadCoreRow ==
  ASSUME RowInv, LoadCore
  PROVE  RowInv'
<1>1. QuietFacts
  BY QuietIs DEF LoadCore
<1>2. /\ Pids' = Pids /\ procs' = procs /\ UNCHANGED <<pidfile, seen, pipe, faults, acted>>
      /\ ~ osd' /\ ~ belief'
  BY DEF LoadCore, kbdVars, Pids
<1>3. \A q \in Pids : /\ ~ Keys(q)' /\ ~ Sends(q)' /\ ~ Serves(q)'
                      /\ Blind(q)' <=> Blind(q)
                      /\ Live(q)' <=> Live(q)
  BY <1>1, <1>2 DEF QuietFacts, Keys, Sends, Serves, Daemon, Live, At, Blind, HasKeyboard
<1>4. \A q \in Pids : Shape(q)' /\ KeysLaw(q)' /\ DaemonLaw(q)' /\ BlindLaw(q)'
  <2> SUFFICES ASSUME NEW q \in Pids PROVE Shape(q)' /\ KeysLaw(q)' /\ DaemonLaw(q)' /\ BlindLaw(q)'
    OBVIOUS
  <2>1. Shape(q)'
    BY <1>2, <1>3 DEF RowInv, Shape
  <2> QED BY <1>2, <1>3, <2>1 DEF KeysLaw, DaemonLaw, BlindLaw
<1>5. FaultLaw' /\ AloneLaw' /\ FlightLaw' /\ SyncLaw'
  BY <1>1, <1>2, <1>3 DEF RowInv, FaultLaw, AloneLaw, FlightLaw, SyncLaw, QuietFacts
<1>6. Hits'
  BY <1>2, HitRight DEF RowInv
<1> QED BY <1>2, <1>4, <1>5, <1>6 DEF RowInv

(* A new process; the others and the menu stay as they are.                *)
LEMMA CommandRow ==
  ASSUME RowInv, IInv, NEW kind \in {"keys", "send", "daemon"}, NEW todo \in Seq(LineSet), NEW open, Command(kind, todo, open),
         kind = "daemon" => todo = << >> /\ (open <=> belief),
         kind = "send"   => todo \in Seq(SendSet) /\ ~ open /\ ~ belief /\ \A q \in Pids : ~ Keys(q),
         kind = "keys"   => /\ Quiet /\ Len(todo) = 1
                            /\ \/ Head(todo) = CloseLine /\ ~ open /\ belief
                               \/ Head(todo) = ChordLine /\ ~ open /\ ~ belief
                               \/ \E e \in BOOLEAN : /\ Visit(Head(todo), e) /\ ~ belief
                                                     /\ open <=> (~ e \/ Head(todo).row \notin Closing)
  PROVE  RowInv'
<1> SUFFICES ASSUME NEW n, n = Len(procs) + 1 PROVE RowInv'
  OBVIOUS
<1>1. /\ Pids' = Pids \cup {n} /\ n \in Nat \ Pids
      /\ \A p \in Pids : procs'[p] = procs[p]
      /\ procs'[n].kind = kind /\ procs'[n].pc = "start" /\ procs'[n].todo = todo
  BY Started DEF IInv, Command
<1>2. UNCHANGED <<seen, pipe, faults, menuVars>> /\ (belief' <=> open)
  BY DEF Command, Run
<1>3. /\ NRows' = NRows /\ sel' = sel /\ acted' = acted /\ dbg_menu' = dbg_menu
      /\ osd' <=> osd
  BY <1>2 DEF menuVars, NRows
<1>4. ~ Blind(n)' /\ (Keys(n)' <=> kind = "keys") /\ (Sends(n)' <=> kind = "send")
      /\ (Serves(n)' <=> kind = "daemon" /\ todo # << >>) /\ First(n)' = Head(todo) /\ Live(n)'
  BY <1>1 DEF Blind, HasKeyboard, Keys, Sends, Serves, Daemon, First, Live, At
<1>5. \A q \in Pids : /\ Keys(q)' <=> Keys(q)
                      /\ Sends(q)' <=> Sends(q)
                      /\ Serves(q)' <=> Serves(q)
                      /\ Blind(q)' <=> Blind(q)
  BY <1>1, <1>2 DEF Keys, Sends, Serves, Daemon, Live, At, Blind, HasKeyboard
<1>6. Trust' => Trust
  BY <1>1, <1>2, <1>4, <1>5 DEF Trust
<1>7. ASSUME NEW q \in Pids PROVE Shape(q)' /\ KeysLaw(q)' /\ DaemonLaw(q)' /\ BlindLaw(q)'
  <2>1. CASE belief' <=> belief
    <3>1. UNCHANGED <<osd, sel, dbg_menu>> /\ procs'[q] = procs[q]
      BY <1>1, <1>2 DEF menuVars
    <3>2. Shape(q) /\ KeysLaw(q) /\ DaemonLaw(q) /\ BlindLaw(q)
      BY DEF RowInv
    <3> QED BY <1>5, <1>6, <2>1, <3>1, <3>2, Rests
  <2>2. CASE kind = "keys"
    <3>1. ~ Keys(q) /\ ~ Serves(q) /\ ~ Sends(q) /\ procs[q].pc \in {"ended", "open"}
      BY <2>2, QuietIs DEF QuietFacts
    <3>2. Shape(q)'
      <4>1. Shape(q) /\ (Live(q)' <=> Live(q))
        BY <1>1 DEF RowInv, Live, At
      <4> QED BY <1>1, <1>5, <3>1, <4>1 DEF Shape
    <3>3. BlindLaw(q)'
      <4>1. Blind(q)' => Blind(q) /\ Live(q) /\ procs[q].kind # "send"
        BY <1>5 DEF Blind, HasKeyboard
      <4>2. Blind(q)' => procs[q].todo = << >>
        BY <3>1, <4>1 DEF RowInv, Shape, Keys, Serves, Daemon
      <4> QED BY <1>1, <4>2 DEF BlindLaw
    <3> QED BY <1>5, <3>1, <3>2, <3>3 DEF KeysLaw, DaemonLaw
  <2> QED BY <1>2, <2>1, <2>2
<1>8. Shape(n)' /\ DaemonLaw(n)' /\ BlindLaw(n)'
  <2>1. Shape(n)'
    BY <1>1, <1>4 DEF Shape
  <2> QED BY <1>4, <2>1 DEF DaemonLaw, BlindLaw
<1>9. KeysLaw(n)'
  <2> SUFFICES ASSUME kind = "keys" PROVE KeysLaw(n)'
    BY <1>4 DEF KeysLaw
  <2>1. Trust => (osd <=> belief)
    BY QuietIs
  <2>2. CASE Head(todo) = CloseLine /\ ~ open /\ belief
    BY <1>2, <1>3, <1>4, <1>6, <2>1, <2>2 DEF KeysLaw
  <2>3. CASE Head(todo) = ChordLine /\ ~ open /\ ~ belief
    BY <1>2, <1>3, <1>4, <1>6, <2>1, <2>3 DEF KeysLaw
  <2>4. ASSUME NEW e \in BOOLEAN, Visit(Head(todo), e), ~ belief, open <=> (~ e \/ Head(todo).row \notin Closing)
        PROVE  KeysLaw(n)'
    <3>1. belief' <=> (~ e \/ Head(todo).row \notin Closing)
      BY <1>2, <2>4
    <3> QED BY <1>3, <1>4, <1>6, <2>1, <2>4, <3>1 DEF KeysLaw, Says
  <2> QED BY <2>2, <2>3, <2>4
<1>10. FaultLaw'
  BY <1>1, <1>2, <1>4, <1>5 DEF RowInv, FaultLaw
<1>11. AloneLaw'
  <2>1. CASE kind = "keys"
    <3>1. QuietFacts
      BY <2>1, QuietIs
    <3> QED BY <1>1, <1>2, <1>5, <3>1 DEF QuietFacts, AloneLaw, Idles
  <2>2. CASE kind = "send"
    BY <1>1, <1>4, <1>5, <2>2 DEF AloneLaw
  <2>3. CASE kind = "daemon"
    <3>1. Idles(n)' /\ \A q \in Pids : Idles(q)' <=> Idles(q)
      BY <1>1, <2>3 DEF Idles
    <3> QED BY <1>1, <1>2, <1>4, <1>5, <2>3, <3>1 DEF RowInv, AloneLaw
  <2> QED BY <2>1, <2>2, <2>3
<1>12. FlightLaw'
  <2>1. CASE kind = "keys"
    <3>1. QuietFacts
      BY <2>1, QuietIs
    <3>2. ~ Sends(n)' /\ ~ Serves(n)'
      BY <1>4, <2>1
    <3> QED BY <1>1, <1>2, <1>5, <3>1, <3>2 DEF QuietFacts, FlightLaw
  <2>2. CASE kind = "send"
    BY <1>2, <2>2 DEF FlightLaw
  <2>3. CASE kind = "daemon"
    <3>1. ~ Sends(n)' /\ ~ Serves(n)' /\ (belief' <=> belief)
      BY <1>2, <1>4, <2>3
    <3> QED BY <1>1, <1>2, <1>5, <3>1 DEF RowInv, FlightLaw
  <2> QED BY <2>1, <2>2, <2>3
<1>13. SyncLaw'
  <2>1. CASE kind = "keys"
    <3>1. Keys(n)' /\ n \in Pids'
      BY <1>1, <1>4, <2>1
    <3> QED BY <3>1 DEF SyncLaw
  <2>2. CASE kind # "keys"
    <3>1. belief' <=> belief
      BY <1>2, <2>2
    <3>2. (\A q \in Pids' : ~ Keys(q)' /\ ~ Serves(q)') => \A q \in Pids : ~ Keys(q) /\ ~ Serves(q)
      BY <1>1, <1>5
    <3> QED BY <1>3, <1>6, <3>1, <3>2 DEF RowInv, SyncLaw
  <2> QED BY <2>1, <2>2
<1>14. Hits'
  BY <1>3, HitRight DEF RowInv
<1>15. \A q \in Pids' : Shape(q)' /\ KeysLaw(q)' /\ DaemonLaw(q)' /\ BlindLaw(q)'
  BY <1>1, <1>7, <1>8, <1>9
<1>16. pipe' \in Seq(SendSet)
  BY <1>2 DEF RowInv
<1> QED BY <1>10, <1>11, <1>12, <1>13, <1>14, <1>15, <1>16 DEF RowInv
LEMMA OneKey ==
  ASSUME NEW key \in KeySet
  PROVE  << key >> \in Seq(KeySet) /\ Len(<< key >>) = 1 /\ << key >>[1] = key /\ Head(<< key >>) = key
  OBVIOUS

LEMMA RowLabels ==
  /\ \A i \in 1 .. 10 : Top[i] \in Labels
  /\ \A i \in 1 .. 5 : Bottom[i] \in Labels /\ Bottom[i] \in Closing
<1>1. Top \in Seq(Labels) /\ Len(Top) = 10
  BY DEF Top, Labels
<1>2. Bottom \in Seq(Labels) /\ Len(Bottom) = 5
  BY DEF Bottom, Labels
<1>3. Bottom \in Seq(Closing)
  BY DEF Bottom, Closing
<1> QED BY <1>1, <1>2, <1>3, ElementOfSeq

(* The keys to a row are a line to it.                                     *)
LEMMA LineIs ==
  ASSUME NEW dir \in Dirs, NEW s \in 0 .. 9, NEW e \in BOOLEAN, NEW row, Goes(row, dir, s),
         NEW ks, ks = (<< "osd" >> \o Times(dir, s)) \o (IF e THEN << "enter" >> ELSE << >>)
  PROVE  [keys |-> ks, row |-> row] \in LineSet /\ Visit([keys |-> ks, row |-> row], e)
<1>0. "osd" \in KeySet /\ "enter" \in KeySet
  BY DEF KeySet
<1>1. PICK a \in Seq(KeySet) : a = << "osd" >> /\ Len(a) = 1 /\ a[1] = "osd"
  BY <1>0, OneKey
<1>2. PICK t \in Seq(KeySet) : t = Times(dir, s) /\ Len(t) = s /\ \A i \in 1 .. s : t[i] = dir
  <2>1. dir \in KeySet /\ s \in Nat
    BY DEF Dirs, KeySet
  <2> QED BY <2>1, TimesIs
<1>3. PICK z \in Seq(KeySet), j \in {0, 1} :
        z = (IF e THEN << "enter" >> ELSE << >>) /\ Len(z) = j /\ (j = 1 <=> e) /\ (e => z[1] = "enter")
  <2>1. CASE e
    <3>1. << "enter" >> \in Seq(KeySet) /\ Len(<< "enter" >>) = 1 /\ << "enter" >>[1] = "enter"
      BY <1>0, OneKey
    <3> QED BY <2>1, <3>1
  <2>2. CASE ~ e
    <3>1. << >> \in Seq(KeySet) /\ Len(<< >>) = 0
      OBVIOUS
    <3>2. (IF e THEN << "enter" >> ELSE << >>) = << >>
      BY <2>2
    <3>3. 0 \in {0, 1} /\ ~ (0 = 1)
      OBVIOUS
    <3> QED BY <2>2, <3>1, <3>2, <3>3
  <2> QED BY <2>1, <2>2
<1>b. PICK b : b = a \o t
  OBVIOUS
<1>4. b \in Seq(KeySet) /\ Len(b) = 1 + s /\ b[1] = "osd" /\ \A i \in 1 .. s : b[i + 1] = dir
  <2>1. a \o t \in Seq(KeySet) /\ Len(a \o t) = Len(a) + Len(t)
        /\ \A i \in 1 .. Len(a) + Len(t) : (a \o t)[i] = IF i <= Len(a) THEN a[i] ELSE t[i - Len(a)]
    BY ConcatProperties
  <2>2. \A i \in 1 .. s : (a \o t)[i + 1] = t[i]
    BY <1>1, <1>2, <2>1
  <2>3. (a \o t)[1] = "osd"
    BY <1>1, <1>2, <2>1
  <2> QED BY <1>1, <1>2, <1>b, <2>1, <2>2, <2>3
<1>5. /\ ks \in Seq(KeySet) /\ Len(ks) = 1 + s + j
      /\ \A i \in 1 .. 1 + s : ks[i] = b[i]
      /\ e => ks[2 + s] = "enter"
  <2>0. ks = b \o z
    BY <1>1, <1>2, <1>3, <1>b
  <2>1. b \o z \in Seq(KeySet) /\ Len(b \o z) = Len(b) + Len(z)
        /\ \A i \in 1 .. Len(b) + Len(z) : (b \o z)[i] = IF i <= Len(b) THEN b[i] ELSE z[i - Len(b)]
    BY <1>4, ConcatProperties
  <2>2. \A i \in 1 .. 1 + s : (b \o z)[i] = b[i]
    BY <1>3, <1>4, <2>1
  <2>3. e => (b \o z)[2 + s] = z[1]
    BY <1>3, <1>4, <2>1
  <2> QED BY <1>3, <1>4, <2>0, <2>1, <2>2, <2>3
<1>6. ks # << >> /\ Head(ks) = "osd"
  BY <1>4, <1>5
<1>7. Moves(Tail(ks), dir, s, e)
  <2>1. Len(Tail(ks)) = s + j /\ \A i \in 1 .. s + j : Tail(ks)[i] = ks[i + 1]
    BY <1>5, <1>6
  <2>2. Len(Tail(ks)) = s + (IF e THEN 1 ELSE 0)
    BY <1>3, <2>1
  <2>3. ASSUME NEW i \in 1 .. s PROVE Tail(ks)[i] = dir
    <3>1. i \in 1 .. s + j /\ i + 1 \in 1 .. 1 + s
      BY <1>3
    <3>2. Tail(ks)[i] = ks[i + 1] /\ ks[i + 1] = b[i + 1]
      BY <1>5, <2>1, <3>1
    <3> QED BY <1>4, <3>2
  <2>4. e => Tail(ks)[s + 1] = "enter"
    BY <1>3, <1>5, <2>1
  <2> QED BY <2>2, <2>3, <2>4 DEF Moves
<1>8. row \in Labels
  <2>1. CASE s \in 1 .. 5 /\ Bottom[6 - s] = row
    <3>1. 6 - s \in 1 .. 5
      BY <2>1
    <3> QED BY <2>1, <3>1, RowLabels
  <2>2. CASE Top[s + 1] = row
    <3>1. s + 1 \in 1 .. 10
      OBVIOUS
    <3> QED BY <2>2, <3>1, RowLabels
  <2> QED BY <2>1, <2>2 DEF Goes
<1> DEFINE l == [keys |-> ks, row |-> row]
<1>9. l.keys = ks /\ l.row = row /\ l \in LineSet
  BY <1>5, <1>8 DEF LineSet
<1> HIDE DEF l
<1>10. Visit(l, e)
  BY <1>6, <1>7, <1>9 DEF Visit
<1> QED BY <1>9, <1>10 DEF l

LEMMA TargetIs ==
  ASSUME NEW label, NEW force, Reached(label, use_up(resolve(label), force)), NEW e \in BOOLEAN,
         NEW l, l = [keys |-> keyseq(resolve(label), e, force), row |-> label]
  PROVE  l \in LineSet /\ Visit(l, e) /\ l.row = label
<1>1. PICK i : i = resolve(label)
  OBVIOUS
<1>2. Len(Bottom) = 5 /\ Len(Top) = 10
  BY DEF Bottom, Top
<1>3. CASE use_up(i, force)
  <2>1. PICK s \in 1 .. 5 : s = ups_for(i) /\ Bottom[6 - s] = label
    BY <1>1, <1>2, <1>3 DEF Reached
  <2>2. keyseq(i, e, force) = (<< "osd" >> \o Times("up", s)) \o (IF e THEN << "enter" >> ELSE << >>)
    BY <1>3, <2>1 DEF keyseq
  <2>3. Goes(label, "up", s) /\ s \in 0 .. 9 /\ "up" \in Dirs
    BY <2>1 DEF Goes, Dirs
  <2> QED BY <1>1, <2>2, <2>3, LineIs
<1>4. CASE ~ use_up(i, force)
  <2>1. i \in 0 .. 9 /\ Top[i + 1] = label
    BY <1>1, <1>2, <1>4 DEF Reached
  <2>2. keyseq(i, e, force) = (<< "osd" >> \o Times("down", i)) \o (IF e THEN << "enter" >> ELSE << >>)
    BY <1>4 DEF keyseq
  <2>3. Goes(label, "down", i) /\ "down" \in Dirs
    BY <2>1 DEF Goes, Dirs
  <2> QED BY <1>1, <2>1, <2>2, <2>3, LineIs
<1> QED BY <1>3, <1>4

LEMMA SentIs ==
  ASSUME NEW label, Reached(label, TRUE),
         NEW l, l = [keys |-> << "osd" >> \o Times("up", ups_for(resolve(label))) \o << "enter" >>, row |-> label]
  PROVE  l \in SendSet
<1>1. Len(Bottom) = 5
  BY DEF Bottom
<1>2. PICK s \in 1 .. 5 : s = ups_for(resolve(label)) /\ Bottom[6 - s] = label
  BY <1>1 DEF Reached
<1>3. Goes(label, "up", s) /\ s \in 0 .. 9 /\ "up" \in Dirs
  BY <1>2 DEF Goes, Dirs
<1>4. l = [keys |-> (<< "osd" >> \o Times("up", s)) \o (IF TRUE THEN << "enter" >> ELSE << >>), row |-> label]
  BY <1>2
<1>5. l \in LineSet /\ Visit(l, TRUE)
  BY <1>3, <1>4, LineIs
<1>6. l.row \in Closing
  <2>1. 6 - s \in 1 .. 5 /\ l.row = Bottom[6 - s]
    BY <1>2
  <2> QED BY <2>1, RowLabels
<1> QED BY <1>5, <1>6 DEF SendSet

LEMMA CommandsRow ==
  ASSUME Reachable, RowInv, IInv, StartDaemon \/ cmd_goto \/ cmd_close \/ Chord \/ Send
  PROVE  RowInv'
<1>a. \A l \in LineSet : << l >> \in Seq(LineSet) /\ Len(<< l >>) = 1 /\ Head(<< l >>) = l
  OBVIOUS
<1>b. Quiet => \A q \in Pids : ~ Keys(q)
  BY QuietIs DEF QuietFacts
<1>1. CASE StartDaemon
  <2>1. Command("daemon", << >>, belief) /\ << >> \in Seq(LineSet)
    BY <1>1 DEF StartDaemon
  <2> QED BY <2>1, CommandRow
<1>2. CASE cmd_goto
  <2>1. PICK t \in Targets, e \in BOOLEAN :
          /\ Quiet /\ ~ belief
          /\ Command("keys", << [keys |-> keyseq(resolve(t.label), e, t.force), row |-> t.label] >>,
                     ~ e \/ t.label \notin Closing)
    BY <1>2 DEF cmd_goto
  <2>2. PICK l : l = [keys |-> keyseq(resolve(t.label), e, t.force), row |-> t.label]
    OBVIOUS
  <2>3. l \in LineSet /\ Visit(l, e) /\ l.row = t.label
    BY <2>2, TargetIs DEF Reachable
  <2>4. PICK todo, open : /\ todo = << l >> /\ (open <=> (~ e \/ l.row \notin Closing))
                          /\ Command("keys", todo, open)
    BY <2>1, <2>2, <2>3
  <2>5. todo \in Seq(LineSet) /\ Len(todo) = 1 /\ Head(todo) = l
    BY <1>a, <2>3, <2>4
  <2> QED BY <2>1, <2>3, <2>4, <2>5, CommandRow
<1>3. CASE cmd_close \/ Chord
  <2>1. PICK l \in {CloseLine, ChordLine} :
          /\ Quiet /\ (l = CloseLine => belief) /\ (l = ChordLine => ~ belief)
          /\ Command("keys", << l >>, FALSE)
    <3>1. CloseLine # ChordLine
      BY DEF CloseLine, ChordLine
    <3> QED BY <1>3, <3>1 DEF cmd_close, Chord, CloseLine, ChordLine
  <2>2. l \in LineSet
    <3>1. "osd" \in KeySet /\ "chord" \in KeySet
      BY DEF KeySet
    <3>2. << "osd" >> \in Seq(KeySet) /\ << "chord" >> \in Seq(KeySet)
      BY <3>1, OneKey
    <3>3. CloseLine \in LineSet
      BY <3>2 DEF CloseLine, LineSet
    <3>4. ChordLine \in LineSet
      BY <3>2 DEF ChordLine, LineSet
    <3> QED BY <2>1, <3>3, <3>4
  <2> QED BY <1>a, <2>1, <2>2, CommandRow
<1>4. CASE Send
  <2>1. PICK label \in Lines :
          /\ ~ belief /\ \A p \in Pids : procs[p].kind = "keys" => ~ Live(p)
          /\ Command("send", << [keys |-> << "osd" >> \o Times("up", ups_for(resolve(label))) \o << "enter" >>,
                                 row  |-> label] >>, FALSE)
    BY <1>4 DEF Send
  <2>2. PICK l : l = [keys |-> << "osd" >> \o Times("up", ups_for(resolve(label))) \o << "enter" >>, row  |-> label]
    OBVIOUS
  <2>3. l \in SendSet /\ l \in LineSet
    BY <2>2, SentIs DEF Reachable, SendSet
  <2>4. << l >> \in Seq(LineSet) /\ << l >> \in Seq(SendSet)
    BY <2>3
  <2>5. \A q \in Pids : ~ Keys(q)
    BY <2>1 DEF Keys
  <2> QED BY <2>1, <2>2, <2>4, <2>5, CommandRow
<1> QED BY <1>1, <1>2, <1>3, <1>4

LEMMA RowStep ==
  ASSUME Reachable, MaxFaults <= 1, RowInv, SoleLaw, TypesInv, [Next]_vars
  PROVE  RowInv'
<1> USE DEF TypesInv
<1>1. CASE StartDaemon \/ cmd_goto \/ cmd_close \/ Chord \/ Send
  BY <1>1, CommandsRow
<1>2. CASE LoadCore
  BY <1>2, LoadCoreRow
<1>3. ASSUME NEW p \in Pids, Program(p) PROVE RowInv'
  <2>1. CASE Type(p)
    BY <2>1, KeysRow, DaemonRow DEF Type, Seen
  <2>2. CASE Silent(p) /\ UNCHANGED <<menuVars, belief>>
    BY <2>2, SilentRow
  <2> QED BY <1>3, <2>1, <2>2 DEF Program
<1>4. ASSUME NEW p \in Pids, Die(p), UNCHANGED <<menuVars, belief>> PROVE RowInv'
  BY <1>4, DieRow
<1>5. CASE UNCHANGED vars
  <2>1. /\ Pids' = Pids /\ procs' = procs /\ UNCHANGED <<seen, pipe, faults, acted, sel, dbg_menu>>
        /\ osd' <=> osd
        /\ belief' <=> belief
    BY <1>5 DEF vars, Pids
  <2>2. \A q \in Pids : /\ Keys(q)' <=> Keys(q)
                        /\ Sends(q)' <=> Sends(q)
                        /\ Serves(q)' <=> Serves(q)
                        /\ Blind(q)' <=> Blind(q)
    BY <2>1 DEF Keys, Sends, Serves, Daemon, Live, At, Blind, HasKeyboard
  <2>3. Trust' => Trust
    BY <2>1, <2>2 DEF Trust
  <2>4. \A q \in Pids : Shape(q)' /\ KeysLaw(q)' /\ DaemonLaw(q)' /\ BlindLaw(q)'
    <3>1. UNCHANGED <<osd, sel, dbg_menu>>
      BY <1>5 DEF vars
    <3> QED BY <2>1, <2>2, <2>3, <3>1, Rests DEF RowInv
  <2>5. FaultLaw' /\ AloneLaw' /\ FlightLaw' /\ SyncLaw'
    BY <2>1, <2>2, <2>3 DEF RowInv, FaultLaw, AloneLaw, FlightLaw, SyncLaw, Idles
  <2>6. Hits'
    BY <2>1, HitRight DEF RowInv
  <2> QED BY <2>1, <2>4, <2>5, <2>6 DEF RowInv
<1> QED BY <1>1, <1>2, <1>3, <1>4, <1>5 DEF Next

(* Until two daemons are up at a time every enter hits the row its line    *)
(* was meant for, whatever processes start, end, wait for the daemon or    *)
(* hand it lines, the debug rows shown or not, and after any one fault,    *)
(* for any rows that are reached from their end of the menu.               *)
THEOREM RowsAreRight == ASSUME Reachable, MaxFaults <= 1 PROVE Spec => []RightRow
<1> DEFINE I == TypesInv /\ Sole /\ (overlapped \/ RowInv)
<1>1. Init => I
  <2> SUFFICES ASSUME Init PROVE Sole /\ RowInv
    BY TypesStart
  <2>1. procs = << >> /\ Pids = {} /\ pipe = << >> /\ faults = 0 /\ ~ osd /\ ~ belief
    BY DEF Init, KeyboardInit, Pids
  <2>2. acted.meant = "none"
    BY DEF Init
  <2>3. pipe \in Seq(SendSet)
    BY <2>1
  <2>4. FaultLaw /\ AloneLaw /\ FlightLaw /\ SyncLaw
    BY <2>1 DEF FaultLaw, AloneLaw, FlightLaw, SyncLaw
  <2>5. Sole
    BY InvInit
  <2> QED BY <2>1, <2>2, <2>3, <2>4, <2>5 DEF RowInv, Hits
<1>2. I /\ [Next]_vars => I'
  <2> SUFFICES ASSUME I, [Next]_vars PROVE I'
    OBVIOUS
  <2>1. TypesInv' /\ Sole' /\ (overlapped => overlapped')
    BY TypesStep, SoleStep, DaemonsStep DEF TypesInv
  <2>2. ~ overlapped => RowInv'
    BY RowStep DEF Sole
  <2> QED BY <2>1, <2>2
<1>3. I => RightRow
  BY DEF RowInv, Hits, RightRow
<1> QED BY <1>1, <1>2, <1>3, PTL DEF Spec
=============================================================================
