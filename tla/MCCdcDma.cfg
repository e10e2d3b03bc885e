CONSTANTS
  Dests = {"main", "pcm"}
  Lengths = {3, 4}
  Starts = {3}
  Size = 4
  MaxTransfers = 2
  MaxRetargets = 1
  MaxAborts = 1
  MaxResets = 0
SPECIFICATION Spec
INVARIANTS TypeOK Delivered EdtTells NoMutualWait
