------------------------------ MODULE MCSdram ------------------------------
(* Instances of Sdram for TLC: three ports, the cartridge (0), the BIOS    *)
(* ROM (1, read only) and the PRG-RAM (2).                                 *)
EXTENDS Sdram

MCLanes == {"l", "h"}
W(l, h) == [x \in MCLanes |-> IF x = "l" THEN l ELSE h]
MCQuiet == [a |-> 0, d |-> W(0, 0), we |-> {}]

(* The cartridge writes whole words, the PRG-RAM one lane.                 *)
MCOps(p) ==
  LET read == {[MCQuiet EXCEPT !.a = x] : x \in Addr}
  IN  CASE p = 0 -> read \cup {[a |-> 0, d |-> W(1, 1), we |-> MCLanes]}
        [] p = 2 -> read \cup {[a |-> 0, d |-> W(0, 1), we |-> {"l"}]}
        [] OTHER -> read
ReadOps(p) == {MCQuiet}
============================================================================
