---------------------------------- MODULE Osd ----------------------------------
(***************************************************************************)
(* osd.py and cartdisc_test.sh drive the core's OSD menu blind: no         *)
(* screenshot shows it, so the operator counts key presses from a menu     *)
(* taken to be closed.  The menu is Main's; its rows are the core's        *)
(* CONF_STR.  The keyboard is module Keyboard.                             *)
(***************************************************************************)
EXTENDS Keyboard

CONSTANTS
  Targets,      \* what osd.py is asked for: [label, force]
  Lines         \* labels reached with --send, always from the bottom

VARIABLES
  osd,          \* the menu is open
  sel,          \* the selected row, from 0
  dbg_menu,     \* the core shows its debug rows
  belief,       \* the operator takes the menu to be open
  acted         \* the last enter the menu took: the row meant and the row hit

menuVars == <<osd, sel, dbg_menu, acted>>
vars     == <<procs, pidfile, seen, pipe, faults, overlapped, osd, sel, dbg_menu, belief, acted>>

-----------------------------------------------------------------------------
(* osd.py's map of page 0, and the way to a row of it.                     *)
MAIN_PAGE == << "Insert Disk", "Insert Cartridge", "Disc Insert", "TMSS", "Region", "Cheats",
                "Backup RAM", "Reload Backup RAM", "Save Backup RAM", "Autosave",
                "Audio & Video", "Input", "Pause When OSD is Open", "Reset & Eject CD",
                "Remove Cartridge & Reset", "Eject Disc", "Exit" >>
N_SEL == Len(MAIN_PAGE)
FIRST_BOTTOM_SAFE == 13

resolve(label) == (CHOOSE i \in DOMAIN MAIN_PAGE : MAIN_PAGE[i] = label) - 1

ups_for(index) == N_SEL - index

Times(key, n) == [i \in 1..n |-> key]

use_up(index, force) ==
  \/ force = "up"
  \/ force = "none" /\ (index >= FIRST_BOTTOM_SAFE \/ ups_for(index) < index)

(* Broken: up counted from the last row, not from the one before the first. *)
X_OneUpShort(index, press_enter, force) ==
  << "osd" >> \o (IF use_up(index, force) THEN Times("up", ups_for(index) - 1) ELSE Times("down", index))
              \o (IF press_enter THEN << "enter" >> ELSE << >>)

keyseq(index, press_enter, force) ==
  << "osd" >> \o (IF use_up(index, force) THEN Times("up", ups_for(index)) ELSE Times("down", index))
              \o (IF press_enter THEN << "enter" >> ELSE << >>)

-----------------------------------------------------------------------------
(* The menu.  The debug rows are between the sub-menus and the resets.     *)
Top    == << "Insert Disk", "Insert Cartridge", "Disc Insert", "Region", "Backup RAM",
             "Reload Backup RAM", "Save Backup RAM", "Autosave", "Audio & Video", "Input" >>
Bottom == << "Reset", "Reset & Eject CD", "Remove Cartridge & Reset", "Eject Disc", "Exit" >>

Rows == Top \o (IF dbg_menu THEN Times("debug", 16) ELSE << >>) \o Bottom

(* Rows that do something once close the menu, options leave it open.      *)
Closing == {"Reset", "Reset & Eject CD", "Remove Cartridge & Reset", "Eject Disc", "Exit"}

(* What a key does to the menu: F12 opens it on the first row or closes    *)
(* it, up and down go round, enter acts on the row.  With the menu closed  *)
(* the key is the core's, to which only enter and esc held together mean   *)
(* something.                                                              *)
Menu(key, row) ==
  LET n == Len(Rows) IN
  \/ /\ key = "osd"
     /\ osd' = ~ osd /\ sel' = 0
     /\ UNCHANGED <<dbg_menu, acted>>
  \/ /\ key \in {"up", "down"} /\ osd
     /\ sel' = (sel + (IF key = "up" THEN n - 1 ELSE 1)) % n
     /\ UNCHANGED <<osd, dbg_menu, acted>>
  \/ /\ key = "enter" /\ osd
     /\ acted' = [meant |-> row, hit |-> Rows[sel + 1]]
     /\ osd' = (Rows[sel + 1] \notin Closing)
     /\ sel' = IF osd' THEN sel ELSE 0
     /\ UNCHANGED dbg_menu
  \/ /\ key \in {"up", "down", "enter"} /\ ~ osd
     /\ UNCHANGED menuVars
  \/ /\ key = "chord" /\ ~ osd
     /\ dbg_menu' = ~ dbg_menu
     /\ UNCHANGED <<osd, sel, acted>>
  \/ /\ key = "chord" /\ osd
     /\ acted' = [meant |-> row, hit |-> Rows[sel + 1]]
     /\ osd' = FALSE /\ sel' = 0
     /\ UNCHANGED dbg_menu

-----------------------------------------------------------------------------
Init ==
  /\ KeyboardInit
  /\ osd = FALSE /\ sel = 0
  /\ dbg_menu = FALSE
  /\ belief = FALSE
  /\ acted = [meant |-> "none", hit |-> "none"]

(* Nothing is on its way: every command has ended, the daemon waits.       *)
Quiet == /\ pipe = << >>
         /\ \A p \in Pids : procs[p].pc \in {"ended", "open"}
Command(kind, todo, open) ==
  /\ Run(kind, todo)
  /\ belief' = open
  /\ UNCHANGED menuVars

(* uinput_kbd.py --daemon, at any time.                                    *)
StartDaemon == Command("daemon", << >>, belief)

(* osd.py select or goto, with the menu taken to be closed.                *)
cmd_goto ==
  \E t \in Targets, press_enter \in BOOLEAN :
    /\ Quiet /\ ~ belief
    /\ Command("keys",
               << [keys |-> keyseq(resolve(t.label), press_enter, t.force), row |-> t.label] >>,
               ~ press_enter \/ t.label \notin Closing)

(* osd.py close.                                                           *)
cmd_close ==
  /\ Quiet /\ belief
  /\ Command("keys", << [keys |-> << "osd" >>, row |-> "none"] >>, FALSE)

(* kbd_chord.py enter esc.                                                 *)
Chord ==
  /\ Quiet /\ ~ belief
  /\ Command("keys", << [keys |-> << "chord" >>, row |-> "none"] >>, FALSE)

(* uinput_kbd.py --send: one line after another, without waiting.          *)
Send ==
  \E label \in Lines :
    /\ ~ belief
    /\ \A p \in Pids : procs[p].kind = "keys" => ~ Live(p)
    /\ Command("send",
               << [keys |-> << "osd" >> \o Times("up", ups_for(resolve(label))) \o << "enter" >>,
                   row  |-> label] >>, FALSE)

(* A load_core leaves the menu closed and the core without debug rows.     *)
LoadCore ==
  /\ Quiet
  /\ osd' = FALSE /\ sel' = 0
  /\ dbg_menu' = FALSE
  /\ belief' = FALSE
  /\ UNCHANGED <<kbdVars, acted>>

(* A key typed reaches the menu when Main has the keyboard open.           *)
Type(p) ==
  /\ tap(p)
  /\ IF p \in seen THEN Menu(Key(p), Row(p)) ELSE UNCHANGED menuVars
  /\ UNCHANGED belief

Program(p) == Type(p) \/ (Silent(p) /\ UNCHANGED <<menuVars, belief>>)

Next ==
  \/ StartDaemon
  \/ cmd_goto
  \/ cmd_close
  \/ Chord
  \/ Send
  \/ LoadCore
  \/ \E p \in Pids : Program(p)
  \/ \E p \in Pids : Die(p) /\ UNCHANGED <<menuVars, belief>>

(* Processes are scheduled, and Main's watch fires in the end.             *)
Fairness == \A p \in 1..MaxProcs : WF_vars(p \in Pids /\ Program(p))

Spec == Init /\ [][Next]_vars /\ Fairness

-----------------------------------------------------------------------------
TypeOK ==
  /\ Len(procs) <= MaxProcs
  /\ \A p \in Pids :
       procs[p].pc \in {"start", "warm", "type", "open", "read", "eof", "wopen", "write", "ended"}
  /\ pidfile \in {0} \cup Pids
  /\ seen \subseteq Pids
  /\ faults \in 0..MaxFaults
  /\ overlapped \in BOOLEAN
  /\ osd \in BOOLEAN /\ dbg_menu \in BOOLEAN /\ belief \in BOOLEAN
  /\ sel < Len(Rows)

(* Counted from the end osd.py counts it from, the row is the one it is    *)
(* named for: no row the map has too many, or lacks, lies on the way.      *)
Reached(label, up) ==
  LET i == resolve(label) IN
  IF up THEN ups_for(i) \in 1..Len(Bottom) /\ Bottom[Len(Bottom) + 1 - ups_for(i)] = label
        ELSE i \in 0..Len(Top) - 1 /\ Top[i + 1] = label

(* All rows asked for are of that kind; osd.py does not look.              *)
Reachable ==
  /\ \A t \in Targets : Reached(t.label, use_up(resolve(t.label), t.force))
  /\ \A label \in Lines : Reached(label, TRUE)

(* Until two daemons are up at a time every enter of a select hits the row *)
(* it names, with the debug rows shown or not, one line sent on the heels  *)
(* of another, and after any one fault: a prefix of the keys typed into a  *)
(* keyboard Main had not opened, or a daemon that died with half a line    *)
(* typed.                                                                  *)
RightRow == ~ overlapped /\ acted.meant # "none" => acted.hit = acted.meant

(* A start is refused only where a daemon serves, and comes up beside one  *)
(* that serves only after two starts have overlapped: a file left by a     *)
(* daemon that died keeps none out, and none but a second daemon takes the *)
(* file of the first away.  (Two that overlap both come up: the file is    *)
(* read 1.2 s before it is written.)                                       *)
OneDaemon ==
  [][\A p \in Pids : procs[p].kind = "daemon" /\ At(p, "start") =>
       /\ procs'[p].kind = "refused" => Readers # {}
       /\ procs'[p].pc = "warm" => Readers = {} \/ overlapped]_vars

(* A line once sent is typed out or lost with a daemon: the sender is not  *)
(* left in open() and the daemon does not stay with a line, while one runs *)
(* and it is the only one.                                                 *)
InFlight == \/ pipe # << >>
            \/ \E p \in Pids : procs[p].pc \in {"wopen", "write"} \/ Typing(p)
Drained == InFlight ~> (~ InFlight \/ Readers = {} \/ overlapped)
=============================================================================
