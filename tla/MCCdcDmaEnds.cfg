CONSTANTS
  Dests = {"prg", "wram", "none"}
  Lengths = {3}
  Starts = {0}
  Size = 4
  MaxTransfers = 2
  MaxRetargets = 1
  MaxAborts = 0
  MaxResets = 1
SPECIFICATION Spec
INVARIANT Delivered
PROPERTIES TransferEnds
