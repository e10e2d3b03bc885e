------------------------------- MODULE Keyboard -------------------------------
(***************************************************************************)
(* uinput_kbd.py on the MiSTer: every command is a process with a virtual  *)
(* keyboard of its own, or, for --send, a line handed through a FIFO to    *)
(* the one process started with --daemon.  Main opens a keyboard some time *)
(* after it appears; what is typed into it before that reaches nobody.     *)
(*                                                                         *)
(* Processes are numbered in the order they start; a number is a pid and   *)
(* is not used again.  Bounds: MaxProcs processes; MaxFaults faults, a     *)
(* fault being a process that dies or a keyboard that Main opens only      *)
(* after the 1.2 s the program waits.                                      *)
(***************************************************************************)
EXTENDS Naturals, Sequences, FiniteSets

CONSTANTS MaxProcs, MaxFaults

ASSUME KeyboardAssumption == MaxProcs \in Nat /\ MaxFaults \in Nat

VARIABLES
  procs,        \* the processes so far: what each does, where it is, what it still types
  pidfile,      \* /tmp/mister_kbd.pid: a process, or 0 when there is no file
  seen,         \* keyboards Main has opened
  pipe,         \* lines written to the FIFO and not read
  faults,
  overlapped    \* history: two daemons have been up at a time

kbdVars == <<procs, pidfile, seen, pipe, faults, overlapped>>

(* A line: the keys, and the menu row an enter among them is meant for.    *)
Ended == [kind |-> "none", pc |-> "ended", todo |-> << >>]

KeyboardInit ==
  /\ procs = << >>
  /\ pidfile = 0
  /\ seen = {}
  /\ pipe = << >>
  /\ faults = 0
  /\ overlapped = FALSE

Pids      == DOMAIN procs
At(p, pc) == procs[p].pc = pc
Live(p)   == ~ At(p, "ended")
Goto(p, pc) == procs' = [procs EXCEPT ![p].pc = pc]
HasKeyboard(p) == procs[p].kind # "send" /\ ~ At(p, "start") /\ Live(p)

Serving(p) == procs[p].kind = "daemon" /\ procs[p].pc \in {"open", "read", "eof"}
Writers    == {p \in Pids : At(p, "write")}
Readers    == {p \in Pids : Serving(p)}

(* The daemons past their check of the pid file.                           *)
Daemons    == {p \in Pids : procs[p].kind = "daemon" /\ Live(p) /\ ~ At(p, "start")}

(* Broken: the file is taken at its word.                                  *)
X_NoKill == pidfile

(* os.kill(pid, 0) tells whether the process of the file is there.         *)
daemon_pid == IF pidfile \in Pids /\ Live(pidfile) THEN pidfile ELSE 0

Run(kind, todo) ==
  /\ Len(procs) < MaxProcs
  /\ procs' = Append(procs, [kind |-> kind, pc |-> "start", todo |-> todo])
  /\ UNCHANGED <<pidfile, seen, pipe, faults, overlapped>>

(* --daemon: refused when one runs; otherwise the keyboard is made.  One   *)
(* that is still making its keyboard is not in the file and refuses none.  *)
DaemonCheck(p) ==
  /\ procs[p].kind = "daemon" /\ At(p, "start")
  /\ \/ /\ daemon_pid # 0
        /\ procs' = [procs EXCEPT ![p] = [Ended EXCEPT !.kind = "refused"]]
        /\ UNCHANGED overlapped
     \/ /\ daemon_pid = 0
        /\ Goto(p, "warm")
        /\ overlapped' = (overlapped \/ Daemons # {})
  /\ UNCHANGED <<pidfile, seen, pipe, faults>>

(* A command of keys: the keyboard is made at once.                        *)
MakeKeyboard(p) ==
  /\ procs[p].kind = "keys" /\ At(p, "start")
  /\ Goto(p, "warm")
  /\ UNCHANGED <<pidfile, seen, pipe, faults, overlapped>>

(* Main's inotify watch.                                                   *)
Notice(p) ==
  /\ HasKeyboard(p)
  /\ p \notin seen
  /\ seen' = seen \cup {p}
  /\ UNCHANGED <<procs, pidfile, pipe, faults, overlapped>>

(* The 1.2 s are over; the daemon writes its pid only now.                 *)
Warm(p) ==
  /\ At(p, "warm")
  /\ IF p \in seen THEN UNCHANGED faults
                   ELSE faults < MaxFaults /\ faults' = faults + 1
  /\ IF procs[p].kind = "daemon" THEN pidfile' = p /\ Goto(p, "open")
                                 ELSE UNCHANGED pidfile /\ Goto(p, "type")
  /\ UNCHANGED <<seen, pipe, overlapped>>

(* open() of a FIFO waits for the other end.                               *)
OpenRead(p) ==
  /\ Serving(p) /\ At(p, "open")
  /\ pipe # << >> \/ \E q \in Pids : procs[q].pc \in {"wopen", "write"}
  /\ Goto(p, "read")
  /\ UNCHANGED <<pidfile, seen, pipe, faults, overlapped>>

SendCheck(p) ==
  /\ procs[p].kind = "send" /\ At(p, "start")
  /\ IF daemon_pid = 0 THEN procs' = [procs EXCEPT ![p] = Ended] ELSE Goto(p, "wopen")
  /\ UNCHANGED <<pidfile, seen, pipe, faults, overlapped>>

OpenWrite(p) ==
  /\ At(p, "wopen")
  /\ Readers # {}
  /\ Goto(p, "write")
  /\ UNCHANGED <<pidfile, seen, pipe, faults, overlapped>>

(* Written and closed; without a reader the write fails.                   *)
Write(p) ==
  /\ At(p, "write")
  /\ pipe' = IF Readers = {} THEN pipe ELSE pipe \o procs[p].todo
  /\ procs' = [procs EXCEPT ![p] = Ended]
  /\ UNCHANGED <<pidfile, seen, faults, overlapped>>

(* The daemon takes what is in the FIFO, ...                               *)
ReadLines(p) ==
  /\ At(p, "read") /\ procs[p].todo = << >>
  /\ pipe # << >>
  /\ procs' = [procs EXCEPT ![p].todo = pipe]
  /\ pipe' = << >>
  /\ UNCHANGED <<pidfile, seen, faults, overlapped>>

(* ... finds its end when it is empty and nobody has it open to write, ... *)
ReadEof(p) ==
  /\ At(p, "read") /\ procs[p].todo = << >>
  /\ pipe = << >> /\ Writers = {}
  /\ Goto(p, "eof")
  /\ UNCHANGED <<pidfile, seen, pipe, faults, overlapped>>

(* ... and closes it to open it again.  What was written since is gone     *)
(* with the last descriptor.                                               *)
Kept(p) == IF Writers = {} /\ Readers \subseteq {p} THEN << >> ELSE pipe

(* Broken: the loop is left after the first line.                          *)
X_OneLineOnly(p) ==
  /\ At(p, "eof")
  /\ Goto(p, "returned")
  /\ pipe' = Kept(p)
  /\ UNCHANGED <<pidfile, seen, faults, overlapped>>

Reopen(p) ==
  /\ At(p, "eof")
  /\ Goto(p, "open")
  /\ pipe' = Kept(p)
  /\ UNCHANGED <<pidfile, seen, faults, overlapped>>

(* One key of the first line.  A command ends with its last key.           *)
Typing(p) == At(p, "type") \/ (At(p, "read") /\ procs[p].todo # << >>)
Key(p)    == Head(Head(procs[p].todo).keys)
Row(p)    == Head(procs[p].todo).row

(* Broken: the same key over and over.                                     *)
X_KeyNotTaken(p) == Typing(p) /\ UNCHANGED kbdVars

tap(p) ==
  LET line == Head(procs[p].todo)
      rest == IF Len(line.keys) = 1 THEN Tail(procs[p].todo)
              ELSE << [line EXCEPT !.keys = Tail(@)] >> \o Tail(procs[p].todo)
  IN /\ Typing(p)
     /\ procs' = [procs EXCEPT ![p] = IF rest = << >> /\ At(p, "type") THEN Ended
                                      ELSE [@ EXCEPT !.todo = rest]]
     /\ UNCHANGED <<pidfile, seen, pipe, faults, overlapped>>

(* A process dies.  SIGINT runs daemon()'s finally clause and takes the    *)
(* pid file away; SIGTERM and SIGKILL do not.                              *)
Die(p) ==
  /\ HasKeyboard(p)
  /\ faults < MaxFaults
  /\ faults' = faults + 1
  /\ procs' = [procs EXCEPT ![p] = Ended]
  /\ pidfile' \in {pidfile} \cup (IF Serving(p) THEN {0} ELSE {})
  /\ pipe' = Kept(p)
  /\ UNCHANGED <<seen, overlapped>>

(* The steps of a process that change nothing outside.                     *)
Silent(p) ==
  \/ DaemonCheck(p)
  \/ MakeKeyboard(p)
  \/ Notice(p)
  \/ Warm(p)
  \/ OpenRead(p)
  \/ SendCheck(p)
  \/ OpenWrite(p)
  \/ Write(p)
  \/ ReadLines(p)
  \/ ReadEof(p)
  \/ Reopen(p)
=============================================================================
