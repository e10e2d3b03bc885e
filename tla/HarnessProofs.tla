----------------------------- MODULE HarnessProofs -----------------------------
(***************************************************************************)
(* The harnesses tell the truth about which title they measured, for any   *)
(* list of titles, any of which may lack an MGL, any number of attempts,   *)
(* captures and polls - provided Main is prompt.                           *)
(*                                                                         *)
(* The inductive invariant follows the one load_core there may be: it is   *)
(* on its way only during the wait of the attempt it was written for, and  *)
(* either pid is still the old one, or the command is gone and the core is *)
(* the title's.  So nothing is on its way once the change is seen.         *)
(* WatchInv counts crashrate's polls, however Main behaves.                 *)
(***************************************************************************)
EXTENDS Harness, SequenceTheorems, TLAPS

Singleton(op) == Len(cmds) = 1 /\ cmds[1].op = op /\ cmds[1].title = title

(* Where the harness is, and what may be in the FIFO then.                 *)
Idle == at \in {"idle", "send", "warm", "ready", "watch"} \/ (at = "first" /\ n = 0) => cmds = << >>
Loading ==
  at = "wait" =>
    \/ pid = was /\ (cmds = << >> \/ Singleton("load"))
    \/ pid # was /\ cmds = << >> /\ core = title
Shooting ==
  /\ at \in {"first", "second", "shot"} => cmds = << >> \/ Singleton("shot")
  /\ at = "shot" /\ cmds # << >> => files \subseteq before

(* The pid, and whose pid it is.                                           *)
Alive ==
  /\ lastPid \in Nat \ {0} /\ pid \in 0..lastPid /\ was \in 0..lastPid
  /\ at # "wait" => pid # 0
  /\ at = "send" => was = pid
  /\ at = "wait" => was # 0
Measuring == {"warm", "first", "second", "ready", "shot", "watch"}
Own ==
  /\ at \in Measuring => core = title
  /\ at \in Measuring \ {"warm"} => tel = core

Shape ==
  /\ at \in Places /\ kind \in Kinds
  /\ todo \in Seq(Titles) /\ cmds \in Seq(Commands)
  /\ core \in Titles /\ tel \in Titles
  /\ tries \in 0..Attempts
  /\ n \in Nat
  /\ at # "idle" => todo # << >>

IInv == Shape /\ Alive /\ Idle /\ Loading /\ Shooting /\ Own /\ RightTitle

-----------------------------------------------------------------------------
(* A command put into an empty FIFO is the only one there.                 *)
LEMMA OneCommand ==
  ASSUME NEW S, NEW x \in S, NEW s, s = << >>
  PROVE  Append(s, x) \in Seq(S) /\ Len(Append(s, x)) = 1 /\ Append(s, x)[1] = x
  OBVIOUS

(* Taking the only command leaves none.                                    *)
LEMMA LastCommand ==
  ASSUME NEW S, NEW s \in Seq(S), Len(s) = 1
  PROVE  Head(s) = s[1] /\ Tail(s) = << >> /\ s # << >> /\ Tail(s) \in Seq(S)
  <1>1. s # << >>
    BY EmptySeq
  <1>2. Tail(s) \in Seq(S) /\ Len(Tail(s)) = 0 /\ Head(s) = s[1]
    BY <1>1, HeadTailProperties
  <1> QED
    BY <1>1, <1>2, EmptySeq

(* The commands the harness writes are commands.                           *)
LEMMA CommandsWritten ==
  ASSUME title \in Titles
  PROVE  /\ Load(title) \in Commands
         /\ \A name \in Nat : Shot(name) \in Commands
  BY DEF Commands, Load, Shot

(* It holds at the start.                                                  *)
LEMMA InitIInv == Init => IInv
  <1> SUFFICES ASSUME Init PROVE IInv
    OBVIOUS
  <1> USE HarnessAssumption
  <1>1. Shape
    BY DEF Init, Shape, Places
  <1>2. Alive /\ Idle /\ Loading /\ Shooting
    BY DEF Init, Alive, Idle, Loading, Shooting
  <1>3. Own /\ RightTitle
    BY DEF Init, Own, RightTitle, Measuring, HasData, NoReport
  <1> QED
    BY <1>1, <1>2, <1>3 DEF IInv

(* The one load_core on its way is the present title's.                     *)
LEMMA TakeLoadStep == ASSUME Prompt, IInv, TakeLoad PROVE IInv'
  <1>1. Shape'
    <2>1. Head(cmds) \in Commands /\ Tail(cmds) \in Seq(Commands)
      BY HeadTailProperties DEF IInv, Shape, TakeLoad
    <2>2. Head(cmds).title \in Titles
      BY <2>1 DEF Commands
    <2> QED
      BY <2>1, <2>2 DEF IInv, TakeLoad, loadVars, measureVars, Shape
  <1>2. Alive'
    BY DEF IInv, TakeLoad, loadVars, Alive, Shape, Places, Idle, Shooting, Singleton
  <1>3. Idle'
    BY DEF IInv, TakeLoad, Idle, Shooting, Singleton
  <1>4. Loading'
    BY DEF IInv, TakeLoad, loadVars, title, Loading, Shape, Singleton
  <1>5. Shooting'
    BY LastCommand DEF IInv, Shape, TakeLoad, Shooting, Singleton
  <1>6. Own'
    BY DEF IInv, TakeLoad, Own, Measuring, Idle, Shooting, Singleton
  <1>7. RightTitle'
    BY DEF IInv, TakeLoad, RightTitle, HasData
  <1> QED
    BY <1>1, <1>2, <1>3, <1>4, <1>5, <1>6, <1>7 DEF IInv

(* A command lost leaves nothing on its way.                                *)
LEMMA MissStep == ASSUME Prompt, IInv, Miss PROVE IInv'
  <1>1. Shape'
    BY DEF IInv, Miss, mainVars, loadVars, measureVars, Shape
  <1>2. Alive'
    BY DEF IInv, Miss, mainVars, loadVars, Alive
  <1>3. Idle'
    BY DEF IInv, Miss, Idle, Shape, Shooting, Singleton
  <1>4. Loading'
    BY DEF IInv, Miss, mainVars, loadVars, Loading, Shooting, Singleton
  <1>5. Shooting'
    BY LastCommand DEF IInv, Shape, Miss, mainVars, measureVars, Shooting, Singleton
  <1>6. Own'
    BY DEF IInv, Miss, mainVars, loadVars, title, Own
  <1>7. RightTitle'
    BY DEF IInv, Miss, RightTitle, HasData
  <1> QED
    BY <1>1, <1>2, <1>3, <1>4, <1>5, <1>6, <1>7 DEF IInv

(* The core comes up for the title whose command was taken, under a new pid. *)
LEMMA RestartStep == ASSUME Prompt, IInv, Restart PROVE IInv'
  <1>1. Shape'
    BY OneCommand DEF IInv, Restart, loadVars, measureVars, Shape
  <1>2. Alive'
    BY DEF IInv, Restart, loadVars, Alive, Running
  <1>3. Idle'
    BY DEF IInv, Restart, measureVars, Idle
  <1>4. Loading'
    BY DEF IInv, Restart, loadVars, title, Loading, Alive, Running
  <1>5. Shooting'
    BY DEF IInv, Restart, loadVars, measureVars, title, Shooting, Singleton
  <1>6. Own'
    BY DEF IInv, Restart, loadVars, title, Own
  <1>7. RightTitle'
    BY DEF IInv, Restart, RightTitle, HasData
  <1> QED
    BY <1>1, <1>2, <1>3, <1>4, <1>5, <1>6, <1>7 DEF IInv

(* The one screenshot on its way is the present capture's.                  *)
LEMMA TakeShotStep == ASSUME Prompt, IInv, TakeShot PROVE IInv'
  <1>1. Shape'
    BY DEF IInv, TakeShot, loadVars, measureVars, Shape
  <1>2. Alive'
    BY DEF IInv, TakeShot, loadVars, Alive
  <1>3. Idle'
    BY DEF IInv, TakeShot, Idle, Shape, Shooting, Singleton
  <1>4. Loading'
    BY DEF IInv, TakeShot, Loading, Singleton
  <1>5. Shooting'
    BY LastCommand DEF IInv, Shape, TakeShot, measureVars, title, Shooting, Singleton
  <1>6. Own'
    BY DEF IInv, TakeShot, loadVars, title, Own
  <1>7. RightTitle'
    BY DEF IInv, TakeShot, RightTitle, HasData
  <1> QED
    BY <1>1, <1>2, <1>3, <1>4, <1>5, <1>6, <1>7 DEF IInv

(* The telemetry becomes that of the core.                                  *)
LEMMA WriteBeatsStep == ASSUME Prompt, IInv, WriteBeats PROVE IInv'
  <1>1. Shape'
    BY DEF IInv, WriteBeats, loadVars, measureVars, Shape
  <1>2. Alive'
    BY DEF IInv, WriteBeats, loadVars, Alive
  <1>3. Idle'
    BY DEF IInv, WriteBeats, measureVars, Idle
  <1>4. Loading'
    BY DEF IInv, WriteBeats, loadVars, title, Loading, Singleton
  <1>5. Shooting'
    BY DEF IInv, WriteBeats, loadVars, measureVars, title, Shooting, Singleton
  <1>6. Own'
    BY DEF IInv, WriteBeats, loadVars, title, Own
  <1>7. RightTitle'
    BY DEF IInv, WriteBeats, RightTitle, HasData
  <1> QED
    BY <1>1, <1>2, <1>3, <1>4, <1>5, <1>6, <1>7 DEF IInv

(* The pid is read while nothing is on its way.                             *)
LEMMA BeginStep == ASSUME Prompt, IInv, Begin PROVE IInv'
  <1>1. Shape'
    BY HarnessAssumption DEF IInv, Begin, mainVars, measureVars, Shape, Places
  <1>2. Alive'
    BY DEF IInv, Begin, mainVars, Alive
  <1>3. Idle'
    BY DEF IInv, Begin, Idle
  <1>4. Loading'
    BY DEF Begin, Loading
  <1>5. Shooting'
    BY DEF Begin, Shooting
  <1>6. Own'
    BY DEF Begin, Own, Measuring
  <1>7. RightTitle'
    BY DEF Begin, RightTitle, HasData, NoReport
  <1> QED
    BY <1>1, <1>2, <1>3, <1>4, <1>5, <1>6, <1>7 DEF IInv

(* The only command there is.                                               *)
LEMMA SendStep == ASSUME Prompt, IInv, Send PROVE IInv'
  <1>1. Shape'
    BY HarnessAssumption, CommandsWritten
       DEF IInv, Send, mainVars, measureVars, title, Shape, Places
  <1>2. Alive'
    BY DEF IInv, Send, mainVars, Alive
  <1>3. Idle'
    BY DEF Send, Idle
  <1>4. Loading'
    BY DEF IInv, Send, mainVars, title, Loading, Alive, Idle, Singleton, Load
  <1>5. Shooting'
    BY DEF Send, Shooting
  <1>6. Own'
    BY DEF Send, Own, Measuring
  <1>7. RightTitle'
    BY DEF IInv, Send, RightTitle, HasData
  <1> QED
    BY <1>1, <1>2, <1>3, <1>4, <1>5, <1>6, <1>7 DEF IInv

(* A changed pid means the command is gone and the core the title's.        *)
LEMMA ChangedStep == ASSUME Prompt, IInv, Changed PROVE IInv'
  <1>1. Shape'
    BY DEF IInv, Changed, mainVars, loadVars, measureVars, Shape, Places
  <1>2. Alive'
    BY DEF IInv, Changed, mainVars, loadVars, Alive, Running, Reloaded
  <1>3. Idle'
    BY DEF IInv, Changed, Idle, Loading, Reloaded
  <1>4. Loading'
    BY DEF Changed, Loading
  <1>5. Shooting'
    BY DEF Changed, Shooting
  <1>6. Own'
    BY DEF IInv, Changed, mainVars, loadVars, title, Own, Loading, Reloaded
  <1>7. RightTitle'
    BY DEF IInv, Changed, RightTitle, HasData
  <1> QED
    BY <1>1, <1>2, <1>3, <1>4, <1>5, <1>6, <1>7 DEF IInv

(* A wait without a change leaves nothing on its way.                       *)
LEMMA TimeoutStep == ASSUME Prompt, IInv, Timeout PROVE IInv'
  <1>1. Shape'
    BY DEF IInv, Timeout, mainVars, loadVars, measureVars, Shape, Places
  <1>2. Alive'
    BY DEF IInv, Timeout, mainVars, loadVars, Alive, Reloaded
  <1>3. Idle'
    BY DEF Timeout, Idle
  <1>4. Loading'
    BY DEF Timeout, Loading
  <1>5. Shooting'
    BY DEF Timeout, Shooting
  <1>6. Own'
    BY DEF Timeout, Own, Measuring
  <1>7. RightTitle'
    BY DEF IInv, Timeout, RightTitle, HasData
  <1> QED
    BY <1>1, <1>2, <1>3, <1>4, <1>5, <1>6, <1>7 DEF IInv

(* A line without data.                                                     *)
LEMMA GiveUpStep == ASSUME Prompt, IInv, GiveUp PROVE IInv'
  <1>1. Shape'
    BY HeadTailProperties DEF IInv, GiveUp, mainVars, measureVars, Line, Shape, Places
  <1>2. Alive'
    BY DEF IInv, GiveUp, mainVars, Alive
  <1>3. Idle'
    BY DEF IInv, GiveUp, Idle
  <1>4. Loading'
    BY DEF GiveUp, Line, Loading
  <1>5. Shooting'
    BY DEF GiveUp, Line, Shooting
  <1>6. Own'
    BY DEF GiveUp, Line, Own, Measuring
  <1>7. RightTitle'
    BY DEF GiveUp, Line, RightTitle, HasData
  <1> QED
    BY <1>1, <1>2, <1>3, <1>4, <1>5, <1>6, <1>7 DEF IInv

(* The telemetry is the core's from here on.                                *)
LEMMA WarmedStep == ASSUME Prompt, IInv, Warmed PROVE IInv'
  <1>1. Shape'
    BY HarnessAssumption DEF IInv, Warmed, mainVars, loadVars, Shape, Places
  <1>2. Alive'
    BY HarnessAssumption DEF IInv, Warmed, mainVars, loadVars, Alive, Shape
  <1>3. Idle'
    BY DEF IInv, Warmed, Idle
  <1>4. Loading'
    BY HarnessAssumption DEF IInv, Warmed, Loading, Shape
  <1>5. Shooting'
    BY HarnessAssumption DEF IInv, Warmed, Shape, Idle, Shooting
  <1>6. Own'
    BY DEF IInv, Warmed, mainVars, loadVars, title, Own, Measuring
  <1>7. RightTitle'
    BY DEF IInv, Warmed, RightTitle, HasData
  <1> QED
    BY <1>1, <1>2, <1>3, <1>4, <1>5, <1>6, <1>7 DEF IInv

(* The only command there is.                                               *)
LEMMA FirstShotStep == ASSUME Prompt, IInv, FirstShot PROVE IInv'
  <1>1. Shape'
    BY CommandsWritten DEF IInv, FirstShot, mainVars, loadVars, title, Shape
  <1>2. Alive'
    BY DEF IInv, FirstShot, mainVars, loadVars, Alive
  <1>3. Idle'
    BY DEF FirstShot, Idle
  <1>4. Loading'
    BY DEF FirstShot, Loading
  <1>5. Shooting'
    BY DEF IInv, FirstShot, loadVars, title, Idle, Shooting, Singleton, Shot
  <1>6. Own'
    BY DEF IInv, FirstShot, mainVars, loadVars, title, Own
  <1>7. RightTitle'
    BY DEF IInv, FirstShot, RightTitle, HasData
  <1> QED
    BY <1>1, <1>2, <1>3, <1>4, <1>5, <1>6, <1>7 DEF IInv

(* The first screenshot is taken or missed.                                 *)
LEMMA SecondShotStep == ASSUME Prompt, IInv, SecondShot PROVE IInv'
  <1>1. Shape'
    BY CommandsWritten DEF IInv, SecondShot, mainVars, loadVars, measureVars, title, Shape, Places
  <1>2. Alive'
    BY DEF IInv, SecondShot, mainVars, loadVars, Alive
  <1>3. Idle'
    BY DEF SecondShot, Idle
  <1>4. Loading'
    BY DEF SecondShot, Loading
  <1>5. Shooting'
    BY DEF SecondShot, loadVars, title, Shooting, Singleton, Shot
  <1>6. Own'
    BY DEF IInv, SecondShot, mainVars, loadVars, title, Own, Measuring
  <1>7. RightTitle'
    BY DEF IInv, SecondShot, RightTitle, HasData
  <1> QED
    BY <1>1, <1>2, <1>3, <1>4, <1>5, <1>6, <1>7 DEF IInv

(* The title and the telemetry of the line are the core's.                  *)
LEMMA SweepLineStep == ASSUME Prompt, IInv, SweepLine PROVE IInv'
  <1>1. Shape'
    BY DEF IInv, SweepLine, mainVars, measureVars, Line, Shape, Places
  <1>2. Alive'
    BY DEF IInv, SweepLine, mainVars, Line, Alive
  <1>3. Idle'
    BY DEF SweepLine, Idle
  <1>4. Loading'
    BY DEF SweepLine, Line, Loading
  <1>5. Shooting'
    BY DEF SweepLine, Line, Shooting
  <1>6. Own'
    BY DEF SweepLine, Line, Own, Measuring
  <1>7. RightTitle'
    BY DEF IInv, SweepLine, Line, RightTitle, Own, Measuring
  <1> QED
    BY <1>1, <1>2, <1>3, <1>4, <1>5, <1>6, <1>7 DEF IInv

(* The only command there is, with the files there are taken note of.       *)
LEMMA CaptureStep == ASSUME Prompt, IInv, Capture PROVE IInv'
  <1>1. Shape'
    BY CommandsWritten DEF IInv, Capture, mainVars, loadVars, title, Shape, Places
  <1>2. Alive'
    BY DEF IInv, Capture, mainVars, loadVars, Alive
  <1>3. Idle'
    BY DEF Capture, Idle
  <1>4. Loading'
    BY DEF Capture, Loading
  <1>5. Shooting'
    BY DEF IInv, Capture, mainVars, loadVars, title, Idle, Shooting, Singleton, Shot
  <1>6. Own'
    BY DEF IInv, Capture, mainVars, loadVars, title, Own, Measuring
  <1>7. RightTitle'
    BY DEF IInv, Capture, RightTitle, HasData
  <1> QED
    BY <1>1, <1>2, <1>3, <1>4, <1>5, <1>6, <1>7 DEF IInv

(* The one new file is this capture's.                                      *)
LEMMA FoundStep == ASSUME Prompt, IInv, Found PROVE IInv'
  <1>1. Shape'
    BY DEF IInv, Found, loadVars, measureVars, Shape, Places
  <1>2. Alive'
    BY DEF IInv, Found, loadVars, Alive
  <1>3. Idle'
    BY DEF IInv, Found, Idle, Shooting
  <1>4. Loading'
    BY DEF Found, Loading
  <1>5. Shooting'
    BY DEF Found, Shooting
  <1>6. Own'
    BY DEF IInv, Found, loadVars, title, Own, Measuring
  <1>7. RightTitle'
    BY DEF IInv, Found, RightTitle, Own, Measuring, Shooting
  <1> QED
    BY <1>1, <1>2, <1>3, <1>4, <1>5, <1>6, <1>7 DEF IInv

(* The screenshot was missed.                                               *)
LEMMA NoShotStep == ASSUME Prompt, IInv, NoShot PROVE IInv'
  <1>1. Shape'
    BY DEF IInv, NoShot, mainVars, loadVars, measureVars, Shape, Places
  <1>2. Alive'
    BY DEF IInv, NoShot, mainVars, loadVars, Alive
  <1>3. Idle'
    BY DEF NoShot, Idle
  <1>4. Loading'
    BY DEF NoShot, Loading
  <1>5. Shooting'
    BY DEF NoShot, Shooting
  <1>6. Own'
    BY DEF IInv, NoShot, mainVars, loadVars, title, Own, Measuring
  <1>7. RightTitle'
    BY DEF NoShot, RightTitle, HasData
  <1> QED
    BY <1>1, <1>2, <1>3, <1>4, <1>5, <1>6, <1>7 DEF IInv

(* Nothing is on its way.                                                   *)
LEMMA CaptureEndStep == ASSUME Prompt, IInv, CaptureEnd PROVE IInv'
  <1>1. Shape'
    BY DEF IInv, CaptureEnd, mainVars, measureVars, Shape, Places
  <1>2. Alive'
    BY DEF IInv, CaptureEnd, mainVars, Alive
  <1>3. Idle'
    BY DEF IInv, CaptureEnd, Idle
  <1>4. Loading'
    BY DEF CaptureEnd, Loading
  <1>5. Shooting'
    BY DEF CaptureEnd, Shooting
  <1>6. Own'
    BY DEF CaptureEnd, Own, Measuring
  <1>7. RightTitle'
    BY DEF IInv, CaptureEnd, RightTitle, HasData
  <1> QED
    BY <1>1, <1>2, <1>3, <1>4, <1>5, <1>6, <1>7 DEF IInv

(* Only crashrate's counters change.                                        *)
LEMMA PollStep == ASSUME Prompt, IInv, Poll PROVE IInv'
  <1>1. Shape'
    BY DEF IInv, Poll, mainVars, loadVars, Shape
  <1>2. Alive'
    BY DEF IInv, Poll, mainVars, loadVars, Alive
  <1>3. Idle'
    BY DEF IInv, Poll, Idle
  <1>4. Loading'
    BY DEF Poll, Loading
  <1>5. Shooting'
    BY DEF Poll, Shooting
  <1>6. Own'
    BY DEF IInv, Poll, mainVars, loadVars, title, Own
  <1>7. RightTitle'
    BY DEF IInv, Poll, RightTitle, HasData
  <1> QED
    BY <1>1, <1>2, <1>3, <1>4, <1>5, <1>6, <1>7 DEF IInv

(* The title of the line is the core's.                                     *)
LEMMA WatchLineStep == ASSUME Prompt, IInv, WatchLine PROVE IInv'
  <1>1. Shape'
    BY DEF IInv, WatchLine, mainVars, measureVars, Line, Shape, Places
  <1>2. Alive'
    BY DEF IInv, WatchLine, mainVars, Line, Alive
  <1>3. Idle'
    BY DEF IInv, WatchLine, Idle
  <1>4. Loading'
    BY DEF WatchLine, Line, Loading
  <1>5. Shooting'
    BY DEF WatchLine, Line, Shooting
  <1>6. Own'
    BY DEF WatchLine, Line, Own, Measuring
  <1>7. RightTitle'
    BY DEF IInv, WatchLine, Line, RightTitle, Own, Measuring
  <1> QED
    BY <1>1, <1>2, <1>3, <1>4, <1>5, <1>6, <1>7 DEF IInv

-----------------------------------------------------------------------------
(* Every step keeps the invariant.                                         *)
LEMMA StepIInv == ASSUME Prompt PROVE IInv /\ [Next]_vars => IInv'
  <1> SUFFICES ASSUME IInv, [Next]_vars PROVE IInv'
    OBVIOUS
  <1>1. CASE Main
    BY <1>1, TakeLoadStep, MissStep, RestartStep, TakeShotStep, WriteBeatsStep DEF Main
  <1>2. CASE Begin \/ Send \/ Changed \/ Timeout \/ GiveUp \/ Warmed
    BY <1>2, BeginStep, SendStep, ChangedStep, TimeoutStep, GiveUpStep, WarmedStep
  <1>3. CASE FirstShot \/ SecondShot \/ SweepLine
    BY <1>3, FirstShotStep, SecondShotStep, SweepLineStep
  <1>4. CASE Capture \/ Found \/ NoShot \/ CaptureEnd
    BY <1>4, CaptureStep, FoundStep, NoShotStep, CaptureEndStep
  <1>5. CASE Poll \/ WatchLine
    BY <1>5, PollStep, WatchLineStep
  <1>6. CASE UNCHANGED vars
    <2>1. UNCHANGED <<title, HasData, Running>>
      BY <1>6 DEF vars, title, HasData, Running
    <2>2. Shape' /\ Alive' /\ Idle' /\ Loading'
      BY <1>6, <2>1 DEF IInv, vars, Shape, Alive, Idle, Loading, Singleton
    <2>3. Shooting' /\ Own' /\ RightTitle'
      BY <1>6, <2>1 DEF IInv, vars, Shooting, Singleton, Own, RightTitle
    <2> QED
      BY <2>2, <2>3 DEF IInv
  <1> QED
    BY <1>1, <1>2, <1>3, <1>4, <1>5, <1>6 DEF Next, Script

LEMMA Inductive == ASSUME Prompt PROVE Spec => []IInv
  <1>1. Init => IInv
    BY InitIInv
  <1>2. IInv /\ [Next]_vars => IInv'
    BY StepIInv
  <1> QED
    BY <1>1, <1>2, PTL DEF Spec

(* The pid, the commands and the titles are what the harness takes them    *)
(* for.                                                                    *)
THEOREM TypeCorrect == ASSUME Prompt PROVE Spec => []TypeOK
  <1>1. IInv => TypeOK
    BY DEF IInv, Shape, Alive, TypeOK
  <1> QED
    BY <1>1, Inductive, PTL

(* No line of data is about another title than the one it names.           *)
THEOREM LinesAreRight == ASSUME Prompt PROVE Spec => []RightTitle
  <1>1. IInv => RightTitle
    BY DEF IInv
  <1> QED
    BY <1>1, Inductive, PTL

-----------------------------------------------------------------------------
(* crashrate's counters against the polls they stand for: last_change is   *)
(* the last change, static the polls since, and a change that DEAD_POLLS   *)
(* static polls follow is the last one, since the watch ends there.        *)
Stop(c) == /\ c \in 1 .. n /\ changes[c] /\ c + DEAD_POLLS <= n
           /\ \A i \in (c + 1) .. (c + DEAD_POLLS) : ~ changes[i]
Counted ==
  /\ n \in 0 .. Polls /\ Len(changes) = n
  /\ last_change \in {-1} \cup 1 .. n
  /\ last_change = -1 => \A c \in 1 .. n : ~ changes[c]
  /\ last_change # -1 => /\ changes[last_change] /\ static = n - last_change
                         /\ \A c \in (last_change + 1) .. n : ~ changes[c]
  /\ \A c \in 1 .. n : Stop(c) => c = last_change

WatchInv == /\ changes \in Seq(BOOLEAN) /\ n \in Nat
            /\ at = "watch" => Counted
            /\ SurvivalRight

LEMMA WatchStart ==
  ASSUME Warmed
  PROVE  Counted'
<1>1. n' = 0 /\ changes' = << >> /\ last_change' = -1
  BY DEF Warmed
<1>2. Polls \in Nat
  BY HarnessAssumption
<1> QED BY <1>1, <1>2 DEF Counted, Stop

(* One more poll.  The guard ~ Dead is what makes the stop the first.      *)
LEMMA OnePoll ==
  ASSUME WatchInv, Poll
  PROVE  Counted' /\ changes' \in Seq(BOOLEAN) /\ n' \in Nat
<1>1. PICK change \in BOOLEAN :
        /\ at = "watch" /\ n < Polls /\ ~ Dead
        /\ n' = n + 1 /\ changes' = Append(changes, change)
        /\ static' = IF change THEN 0 ELSE static + 1
        /\ last_change' = IF change THEN n + 1 ELSE last_change
  BY DEF Poll
<1>2. /\ n \in 0 .. Polls /\ Len(changes) = n /\ changes \in Seq(BOOLEAN)
      /\ Polls \in Nat /\ DEAD_POLLS \in Nat /\ last_change \in {-1} \cup 1 .. n
  BY <1>1, HarnessAssumption DEF WatchInv, Counted
<1>3. /\ changes' \in Seq(BOOLEAN) /\ Len(changes') = n + 1 /\ (changes'[n + 1] <=> change)
      /\ \A c \in 1 .. n : changes'[c] <=> changes[c]
  BY <1>1, <1>2
<1>4. /\ last_change = -1 => \A c \in 1 .. n : ~ changes[c]
      /\ last_change # -1 => /\ changes[last_change] /\ static = n - last_change
                             /\ \A c \in (last_change + 1) .. n : ~ changes[c]
      /\ \A c \in 1 .. n : ~ Stop(c)
  <2>1. last_change # -1 => static < DEAD_POLLS
    BY <1>1, <1>2 DEF Dead, WatchInv, Counted
  <2>2. \A c \in 1 .. n : Stop(c) => c = last_change /\ c + DEAD_POLLS <= n
    BY <1>1 DEF WatchInv, Counted, Stop
  <2> QED BY <1>1, <1>2, <2>1, <2>2 DEF WatchInv, Counted
<1>5. last_change' \in {-1} \cup 1 .. n'
  BY <1>1, <1>2
<1>6. last_change' = -1 => \A c \in 1 .. n' : ~ changes'[c]
  BY <1>1, <1>2, <1>3, <1>4
<1>7. last_change' # -1 => /\ changes'[last_change'] /\ static' = n' - last_change'
                           /\ \A c \in (last_change' + 1) .. n' : ~ changes'[c]
  BY <1>1, <1>2, <1>3, <1>4
<1>8. ASSUME NEW c \in 1 .. n', Stop(c)'
      PROVE  c = last_change'
  <2>1. /\ changes'[c] /\ c + DEAD_POLLS <= n + 1
        /\ \A i \in (c + 1) .. (c + DEAD_POLLS) : ~ changes'[i]
    BY <1>1, <1>8 DEF Stop
  <2>2. CASE c = n + 1
    BY <1>1, <1>3, <2>1, <2>2
  <2>3. CASE c \in 1 .. n
    <3>1. c + DEAD_POLLS = n + 1
      <4> SUFFICES ASSUME c + DEAD_POLLS <= n PROVE FALSE
        BY <1>2, <2>1, <2>3
      <4>1. \A i \in (c + 1) .. (c + DEAD_POLLS) : i \in 1 .. n /\ ~ changes[i]
        BY <1>2, <1>3, <2>1, <2>3
      <4> QED BY <1>3, <1>4, <2>1, <2>3, <4>1 DEF Stop
    <3>2. \A i \in (c + 1) .. (n + 1) : ~ changes'[i]
      BY <2>1, <3>1
    <3>3. ~ change
      BY <1>2, <1>3, <2>3, <3>2
    <3>4. last_change # -1 /\ last_change' = last_change
      BY <1>1, <1>3, <1>4, <2>1, <2>3, <3>3
    <3>5. ~ (last_change < c) /\ ~ (c < last_change)
      BY <1>2, <1>3, <1>4, <2>1, <2>3, <3>2, <3>4
    <3> QED BY <1>2, <2>3, <3>4, <3>5
  <2> QED BY <1>1, <1>2, <2>2, <2>3
<1> QED BY <1>1, <1>2, <1>3, <1>5, <1>6, <1>7, <1>8 DEF Counted

(* What the line says is what the polls were.                              *)
LEMMA WatchedLine ==
  ASSUME WatchInv, WatchLine
  PROVE  SurvivalRight'
<1>1. /\ at = "watch" /\ (Dead \/ n = Polls)
      /\ report' = [says |-> "survived", title |-> title, core |-> core, tel |-> tel,
                    secs |-> Survival, changes |-> changes]
  BY DEF WatchLine, Line
<1>2. report'.secs = Survival /\ report'.changes = changes
  BY <1>1
<1>3. Counted /\ changes \in Seq(BOOLEAN)
  BY <1>1 DEF WatchInv
<1>4. Len(changes) = n /\ DOMAIN changes = 1 .. n /\ n \in 0 .. Polls /\ Polls \in Nat /\ DEAD_POLLS \in Nat
      /\ last_change \in {-1} \cup 1 .. n
  BY <1>3, HarnessAssumption DEF Counted
<1> DEFINE Stops == {c \in DOMAIN changes : /\ changes[c] /\ c + DEAD_POLLS <= Len(changes)
                                            /\ \A i \in (c + 1) .. (c + DEAD_POLLS) : ~ changes[i]}
<1>5. \A c \in Stops : c = last_change /\ Dead
  <2> SUFFICES ASSUME NEW c \in Stops PROVE c = last_change /\ Dead
    OBVIOUS
  <2>1. Stop(c)
    BY <1>4 DEF Stop
  <2>2. c = last_change /\ c \in 1 .. n /\ c + DEAD_POLLS <= n
    BY <1>3, <2>1 DEF Counted, Stop
  <2> QED BY <1>3, <1>4, <2>2 DEF Counted, Dead
<1>6. Dead => last_change \in Stops
  BY <1>3, <1>4 DEF Counted, Dead
<1>7. (\E c \in DOMAIN changes : changes[c]) <=> last_change # -1
  BY <1>3, <1>4 DEF Counted
<1> HIDE DEF Stops
<1>8. /\ Dead => Stops # {} /\ Survival \in Stops /\ \A c \in Stops : Survival <= c
      /\ ~ Dead => Stops = {}
  BY <1>4, <1>5, <1>6 DEF Survival
<1>9. CASE Stops = {} \/ Stops # {}
  BY <1>2, <1>7, <1>8 DEF SurvivalRight, Stops, Survival, Dead
<1> QED BY <1>9

(* A line of another kind, or none, says nothing of survival.              *)
OtherLine == report' = report \/ report'.says # "survived"

LEMMA SurvivalKept ==
  ASSUME SurvivalRight, OtherLine
  PROVE  SurvivalRight'
<1>1. CASE report' = report
  BY <1>1 DEF SurvivalRight
<1>2. CASE report'.says # "survived"
  BY <1>2 DEF SurvivalRight
<1> QED BY <1>1, <1>2 DEF OtherLine

LEMMA Elsewhere ==
  ASSUME WatchInv, OtherLine, at' # "watch", changes' = changes, n' \in {n, n + 1, 1}
  PROVE  WatchInv'
<1>1. n' \in Nat
  BY DEF WatchInv
<1> QED BY <1>1, SurvivalKept DEF WatchInv

LEMMA WatchStep ==
  ASSUME WatchInv, [Next]_vars
  PROVE  WatchInv'
<1>1. CASE Poll
  <2>1. report' = report
    BY <1>1 DEF Poll
  <2>2. SurvivalRight'
    BY <2>1, SurvivalKept DEF WatchInv, OtherLine
  <2> QED BY <1>1, <2>2, OnePoll DEF WatchInv
<1>2. CASE WatchLine
  <2>1. changes' = changes /\ n' = n /\ at' = "idle"
    BY <1>2 DEF WatchLine, Line, measureVars
  <2> QED BY <1>2, <2>1, WatchedLine DEF WatchInv
<1>3. CASE Warmed
  <2>1. report' = report /\ changes' = << >> /\ n' = 0
    BY <1>3 DEF Warmed
  <2>2. SurvivalRight'
    BY <2>1, SurvivalKept DEF WatchInv, OtherLine
  <2> QED BY <1>3, <2>1, <2>2, WatchStart DEF WatchInv
<1>4. CASE Main \/ UNCHANGED vars
  <2>1. UNCHANGED <<at, n, static, last_change, changes, report>>
    BY <1>4 DEF Main, TakeLoad, Miss, Restart, TakeShot, WriteBeats, measureVars, vars
  <2>2. SurvivalRight'
    BY <2>1, SurvivalKept DEF WatchInv, OtherLine
  <2>3. at' = "watch" => Counted'
    BY <2>1 DEF WatchInv, Counted, Stop
  <2> QED BY <2>1, <2>2, <2>3 DEF WatchInv
<1>5. CASE Begin \/ Send \/ Changed \/ Timeout \/ GiveUp
  <2>1. UNCHANGED <<n, changes>> /\ at' \in {"idle", "send", "wait", "warm"}
    BY <1>5 DEF Begin, Send, Changed, Timeout, GiveUp, Line, measureVars
  <2>2. Begin => report'.says = "nothing"
    BY DEF Begin, NoReport
  <2>3. ASSUME GiveUp PROVE report'.says = "NO RELOAD"
    <3>1. report' = [says |-> "NO RELOAD", title |-> title]
      BY <2>3 DEF GiveUp, Line
    <3> QED BY <3>1
  <2>4. Send \/ Changed \/ Timeout => report' = report
    BY DEF Send, Changed, Timeout
  <2>5. OtherLine
    BY <1>5, <2>2, <2>3, <2>4 DEF OtherLine
  <2> QED BY <2>1, <2>5, Elsewhere
<1>6. CASE FirstShot \/ SecondShot
  <2>1. UNCHANGED <<changes, report>> /\ n' \in {n, 1} /\ at' # "watch"
    BY <1>6 DEF FirstShot, SecondShot, measureVars
  <2> QED BY <2>1, Elsewhere DEF OtherLine
<1>7. CASE SweepLine
  <2>1. report'.says = "swept"
    BY <1>7 DEF SweepLine, Line
  <2>2. UNCHANGED <<n, changes>> /\ at' = "idle"
    BY <1>7 DEF SweepLine, Line, measureVars
  <2> QED BY <2>1, <2>2, Elsewhere DEF OtherLine
<1>8. CASE Capture \/ CaptureEnd
  <2>1. UNCHANGED <<changes, report>> /\ n' \in {n, n + 1} /\ at' # "watch"
    BY <1>8 DEF Capture, CaptureEnd, measureVars
  <2> QED BY <2>1, Elsewhere DEF OtherLine
<1>9. CASE Found
  <2>1. report'.says = "captured"
    BY <1>9 DEF Found
  <2>2. UNCHANGED <<n, changes>> /\ at' = "ready"
    BY <1>9 DEF Found, measureVars
  <2> QED BY <2>1, <2>2, Elsewhere DEF OtherLine
<1>10. CASE NoShot
  <2>1. report'.says = "no shot"
    BY <1>10 DEF NoShot
  <2>2. UNCHANGED <<n, changes>> /\ at' = "ready"
    BY <1>10 DEF NoShot, measureVars
  <2> QED BY <2>1, <2>2, Elsewhere DEF OtherLine
<1> QED BY <1>1, <1>2, <1>3, <1>4, <1>5, <1>6, <1>7, <1>8, <1>9, <1>10 DEF Next, Script

(* The survival time crashrate prints is that of the polls it made: the    *)
(* last change before the first DEAD_POLLS static ones, the whole watch    *)
(* if there are none, nothing if the picture never moved; for any lengths  *)
(* of the watch and of the static run, and whatever Main does.             *)
THEOREM SurvivalIsRight == Spec => []SurvivalRight
<1>1. Init => WatchInv
  BY DEF Init, WatchInv, SurvivalRight, NoReport
<1>2. WatchInv /\ [Next]_vars => WatchInv'
  BY WatchStep
<1>3. WatchInv => SurvivalRight
  BY DEF WatchInv
<1> QED BY <1>1, <1>2, <1>3, PTL DEF Spec

=============================================================================
