-------------------------------- MODULE MCOsd --------------------------------
(* Every row osd.py reaches from the end nothing hides a row at.           *)
EXTENDS Osd

MCTargets ==
  {[label |-> l, force |-> "none"] : l \in {"Disc Insert", "Reset & Eject CD"}}
  \cup {[label |-> "Eject Disc", force |-> "up"], [label |-> "Insert Cartridge", force |-> "down"]}
MCLines == {"Eject Disc", "Remove Cartridge & Reset"}

ASSUME MCReachable == Reachable
=============================================================================
