-------------------------------- MODULE Harness --------------------------------
(***************************************************************************)
(* The test harnesses that run on the MiSTer.  Each loads titles through   *)
(* /dev/MiSTer_cmd, takes a change of MiSTer's pid for the proof that the  *)
(* core was loaded, and measures: sweeptest (two screenshots and two       *)
(* telemetry samples), ntsweep and ntshot (screenshot and frame buffer     *)
(* together), crashrate (for how long the frame buffer changes).           *)
(*                                                                         *)
(* Main reads the commands in its own time, one after the other.  It       *)
(* passes over a load_core naming no file, may miss a command, and         *)
(* restarts itself for a load_core it takes; the telemetry in DDR3 is then *)
(* still that of the core before until the new one writes.                 *)
(*                                                                         *)
(* Prompt is what the harnesses take for granted of Main and cannot see:   *)
(* what is not carried out when a wait is over never will be.              *)
(***************************************************************************)
EXTENDS Integers, Sequences, FiniteSets

CONSTANTS
  Titles,
  Orders,       \* command lines: the titles in their order
  Missing,      \* titles whose MGL does not exist
  Moving,       \* titles whose picture changes
  Kinds,        \* the harness run: "sweep", "capture" or "watch"
  Attempts,     \* load_core at most so often
  Shots,        \* captures for each load
  Polls,        \* polls of the frame buffer, ...
  DEAD_POLLS,   \* ... and static ones that mean dead
  Prompt

ASSUME HarnessAssumption ==
  /\ Orders \subseteq Seq(Titles)
  /\ Missing \subseteq Titles /\ Moving \subseteq Titles
  /\ Kinds \subseteq {"sweep", "capture", "watch"}
  /\ Attempts \in Nat /\ Shots \in Nat /\ Polls \in Nat /\ DEAD_POLLS \in Nat
  /\ Prompt \in BOOLEAN

VARIABLES
  pid, lastPid,         \* MiSTer's pid, 0 while it restarts
  core,                 \* the title its core was loaded for
  cmds,                 \* commands written and not read
  tel,                  \* the title whose telemetry is in DDR3
  files,                \* screenshots there are
  kind, at,             \* the harness and where it is
  todo,                 \* titles to do, the present one first
  was, tries,           \* the pid before, the attempts
  n,                    \* the capture, or the poll, it is at
  before,               \* the screenshots there were before this one
  static, last_change,  \* crashrate's counters, last_change -1 for None
  changes,              \* whether each poll found a change
  report                \* the line just written

mainVars    == <<pid, lastPid, core, tel, files>>
measureVars == <<n, before, static, last_change, changes>>
loadVars    == <<kind, todo, was, tries>>
vars == <<pid, lastPid, core, cmds, tel, files, kind, at, todo, was, tries,
          n, before, static, last_change, changes, report>>

title == Head(todo)
NoReport == [says |-> "nothing"]

Load(t) == [op |-> "load", title |-> t]
Shot(name) == [op |-> "shot", title |-> title, name |-> name]

(* All but crashrate look for every MGL first and exit when one is missing. *)
Admitted(k, titles) == k = "watch" \/ \A i \in DOMAIN titles : titles[i] \notin Missing

Init ==
  /\ pid = 1 /\ lastPid = 1
  /\ core \in Titles /\ tel = core
  /\ cmds = << >> /\ files = {}
  /\ kind \in Kinds /\ at = "idle"
  /\ todo \in Orders /\ Admitted(kind, todo)
  /\ was = 0 /\ tries = 0
  /\ n = 0 /\ before = {} /\ static = 0 /\ last_change = -1 /\ changes = << >>
  /\ report = NoReport

-----------------------------------------------------------------------------
(* Main.                                                                   *)
Running == pid # 0

(* It takes a load_core and goes down for the restart, ...                 *)
TakeLoad ==
  /\ Running /\ cmds # << >> /\ Head(cmds).op = "load"
  /\ cmds' = Tail(cmds)
  /\ IF Head(cmds).title \in Missing
       THEN UNCHANGED <<pid, core>>
       ELSE pid' = 0 /\ core' = Head(cmds).title
  /\ UNCHANGED <<lastPid, tel, files, at, loadVars, measureVars, report>>

(* ... misses one, ...                                                     *)
Miss ==
  /\ cmds # << >>
  /\ cmds' = Tail(cmds)
  /\ UNCHANGED <<mainVars, at, loadVars, measureVars, report>>

(* ... and comes up again under another pid; what was in the FIFO may be   *)
(* gone.                                                                   *)
Restart ==
  /\ ~ Running
  /\ pid' = lastPid + 1 /\ lastPid' = pid'
  /\ cmds' \in {cmds, << >>}
  /\ UNCHANGED <<core, tel, files, at, loadVars, measureVars, report>>

(* A screenshot: of which core, and of which moment if the picture moves.  *)
Moment == IF core \in Moving THEN <<at, n>> ELSE <<"still", 0>>
TakeShot ==
  /\ Running /\ cmds # << >> /\ Head(cmds).op = "shot"
  /\ cmds' = Tail(cmds)
  /\ files' = files \cup {[title |-> Head(cmds).title, name |-> Head(cmds).name, moment |-> Moment]}
  /\ UNCHANGED <<pid, lastPid, core, tel, at, loadVars, measureVars, report>>

(* The core writes its telemetry.                                          *)
WriteBeats ==
  /\ Running /\ tel # core
  /\ tel' = core
  /\ UNCHANGED <<pid, lastPid, core, files, cmds, at, loadVars, measureVars, report>>

-----------------------------------------------------------------------------
(* The loop every harness loads a title with.                              *)

Begin ==
  /\ at = "idle" /\ todo # << >>
  /\ was' = pid /\ tries' = 0
  /\ at' = "send"
  /\ report' = NoReport
  /\ UNCHANGED <<mainVars, cmds, kind, todo, measureVars>>

(* Broken: no limit.                                                       *)
X_NoLimit ==
  /\ at = "send"
  /\ cmds' = Append(cmds, Load(title))
  /\ tries' = tries + 1
  /\ at' = "wait"
  /\ UNCHANGED <<mainVars, kind, todo, was, measureVars, report>>

Send ==
  /\ at = "send" /\ tries < Attempts
  /\ cmds' = Append(cmds, Load(title))
  /\ tries' = tries + 1
  /\ at' = "wait"
  /\ UNCHANGED <<mainVars, kind, todo, was, measureVars, report>>

(* Broken: any pid will do.                                                *)
X_AnyPid == Running

(* if now and now != was                                                   *)
Reloaded == Running /\ pid # was

Changed ==
  /\ at = "wait" /\ Reloaded
  /\ at' = "warm"
  /\ UNCHANGED <<mainVars, cmds, loadVars, measureVars, report>>

(* The wait of an attempt is over, the last poll having seen no change.    *)
Timeout ==
  /\ at = "wait"
  /\ Prompt => Running /\ cmds = << >> /\ ~ Reloaded
  /\ at' = "send"
  /\ UNCHANGED <<mainVars, cmds, loadVars, measureVars, report>>

Line(line) ==
  /\ report' = line
  /\ todo' = Tail(todo)
  /\ at' = "idle"

(* Broken: starts over.                                                    *)
X_StartOver ==
  /\ at = "send" /\ tries = Attempts
  /\ tries' = 0
  /\ UNCHANGED <<mainVars, cmds, kind, at, todo, was, measureVars, report>>

GiveUp ==
  /\ at = "send" /\ tries = Attempts
  /\ Line([says |-> "NO RELOAD", title |-> title])
  /\ UNCHANGED <<mainVars, cmds, kind, was, tries, measureVars>>

(* The warm-up is over.                                                    *)
Warmed ==
  /\ at = "warm"
  /\ Prompt => tel = core
  /\ at' = CASE kind = "sweep" -> "first" [] kind = "capture" -> "ready" [] kind = "watch" -> "watch"
  /\ n' = 0
  /\ static' = 0 /\ last_change' = -1 /\ changes' = << >>
  /\ UNCHANGED <<mainVars, cmds, loadVars, before, report>>

-----------------------------------------------------------------------------
(* sweeptest: a telemetry sample and a screenshot, 3 s, a screenshot, 1 s, *)
(* a sample.                                                               *)
FirstShot ==
  /\ at = "first" /\ n = 0
  /\ cmds' = Append(cmds, Shot(1))
  /\ n' = 1
  /\ UNCHANGED <<mainVars, at, loadVars, before, static, last_change, changes, report>>

SecondShot ==
  /\ at = "first" /\ n = 1
  /\ Prompt => cmds = << >>
  /\ cmds' = Append(cmds, Shot(2))
  /\ at' = "second"
  /\ UNCHANGED <<mainVars, loadVars, measureVars, report>>

taken  == {f \in files : f.title = title}
frames == Cardinality({f.moment : f \in taken})
SweepLine ==
  /\ at = "second"
  /\ Prompt => cmds = << >>
  /\ Line([says |-> "swept", title |-> title, core |-> core, tel |-> tel,
           shots |-> {f.name : f \in taken}, frames |-> frames])
  /\ UNCHANGED <<mainVars, cmds, kind, was, tries, measureVars>>

-----------------------------------------------------------------------------
(* ntsweep and ntshot: what screenshots there are, the command, the dump   *)
(* of the frame buffer, then the file that is new.                         *)
Capture ==
  /\ at = "ready" /\ n < Shots
  /\ before' = files
  /\ cmds' = Append(cmds, Shot(n + 1))
  /\ n' = n + 1
  /\ at' = "shot"
  /\ UNCHANGED <<mainVars, loadVars, static, last_change, changes, report>>

(* The new file is filed beside the dump and deleted.                      *)
Found ==
  \E f \in files \ before :
    /\ at = "shot"
    /\ report' = [says |-> "captured", title |-> title, core |-> core, tel |-> tel,
                  dump |-> n, screen |-> f.name]
    /\ files' = files \ {f}
    /\ at' = "ready"
    /\ UNCHANGED <<pid, lastPid, core, tel, cmds, loadVars, measureVars>>

NoShot ==
  /\ at = "shot" /\ files \subseteq before
  /\ Prompt => cmds = << >>
  /\ report' = [says |-> "no shot", title |-> title]
  /\ at' = "ready"
  /\ UNCHANGED <<mainVars, cmds, loadVars, measureVars>>

CaptureEnd ==
  /\ at = "ready" /\ n = Shots
  /\ todo' = Tail(todo) /\ at' = "idle"
  /\ UNCHANGED <<mainVars, cmds, kind, was, tries, measureVars, report>>

-----------------------------------------------------------------------------
(* crashrate: the frame buffer is compared with the poll before.           *)
Dead == static >= DEAD_POLLS /\ last_change # -1

(* Broken: the static polls are counted over the whole watch.              *)
X_NeverReset ==
  \E change \in BOOLEAN :
    /\ at = "watch" /\ n < Polls /\ ~ Dead
    /\ n' = n + 1
    /\ changes' = Append(changes, change)
    /\ static' = IF change THEN static ELSE static + 1
    /\ last_change' = IF change THEN n + 1 ELSE last_change
    /\ UNCHANGED <<mainVars, cmds, at, loadVars, before, report>>

Poll ==
  \E change \in BOOLEAN :
    /\ at = "watch" /\ n < Polls /\ ~ Dead
    /\ n' = n + 1
    /\ changes' = Append(changes, change)
    /\ static' = IF change THEN 0 ELSE static + 1
    /\ last_change' = IF change THEN n + 1 ELSE last_change
    /\ UNCHANGED <<mainVars, cmds, at, loadVars, before, report>>

Survival == IF Dead THEN last_change ELSE IF last_change = -1 THEN 0 ELSE Polls
WatchLine ==
  /\ at = "watch" /\ (Dead \/ n = Polls)
  /\ Line([says |-> "survived", title |-> title, core |-> core, tel |-> tel,
            secs |-> Survival, changes |-> changes])
  /\ UNCHANGED <<mainVars, cmds, kind, was, tries, measureVars>>

Main == TakeLoad \/ Miss \/ Restart \/ TakeShot \/ WriteBeats
Script ==
  \/ Begin \/ Send \/ Changed \/ Timeout \/ GiveUp \/ Warmed
  \/ FirstShot \/ SecondShot \/ SweepLine
  \/ Capture \/ Found \/ NoShot \/ CaptureEnd
  \/ Poll \/ WatchLine

Next == Main \/ Script
Spec == Init /\ [][Next]_vars

(* Main runs, and time passes for the harness.                             *)
FairSpec == Spec /\ WF_vars(Main) /\ WF_vars(Script)

-----------------------------------------------------------------------------
Places == {"idle", "send", "wait", "warm", "first", "second", "ready", "shot", "watch"}
Commands == [op : {"load"}, title : Titles]
            \cup [op : {"shot"}, title : Titles, name : Nat]

TypeOK ==
  /\ lastPid \in Nat \ {0} /\ pid \in 0..lastPid /\ was \in 0..lastPid
  /\ core \in Titles /\ tel \in Titles
  /\ todo \in Seq(Titles) /\ cmds \in Seq(Commands)
  /\ kind \in Kinds /\ at \in Places
  /\ tries \in 0..Attempts

HasData == report.says \in {"swept", "captured", "survived"}

(* A line with data under a title's name is about that title: its core was *)
(* running, and the telemetry was its own - not the one before, although   *)
(* the load_core was passed over, missed, or taken only at a later attempt. *)
(* It needs Prompt: a load_core taken after its wait breaks it.             *)
RightTitle == HasData => report.core = report.title /\ report.tel = report.title

(* The survival time: the last change before the first DEAD_POLLS static   *)
(* polls that follow a change; the whole watch if there are none; nothing  *)
(* if the picture never moved.                                             *)
SurvivalRight ==
  report.says = "survived" =>
    LET Stops == {c \in DOMAIN report.changes :
                    /\ report.changes[c]
                    /\ c + DEAD_POLLS <= Len(report.changes)
                    /\ \A i \in (c + 1)..(c + DEAD_POLLS) : ~ report.changes[i]}
    IN CASE Stops # {} -> /\ report.secs \in Stops
                          /\ \A c \in Stops : report.secs <= c
         [] Stops = {} /\ (\E c \in DOMAIN report.changes : report.changes[c]) -> report.secs = Polls
         [] OTHER -> report.secs = 0

(* The run comes to its end, whatever Main misses.                         *)
Finishes == <>(at = "idle" /\ todo = << >>)
=============================================================================
