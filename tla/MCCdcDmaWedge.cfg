CONSTANTS
  Dests = {"prg", "sub"}
  Lengths = {3}
  Starts = {0}
  Size = 4
  MaxTransfers = 1
  MaxRetargets = 1
  MaxAborts = 0
  MaxResets = 0
SPECIFICATION Spec
PROPERTIES TransferEnds
