CONSTANTS
  Addr = {0, 1}
  Lanes <- MCLanes
  Byte = {0, 1}
  Quiet <- MCQuiet
  Lines = 1
  IndexOf <- SameLine
  Contents <- Cleared
  Protected = {}
  Loads <- MCLoads
  PostWrites = {TRUE}
  EarlyDtack = FALSE
  EnFirst = {TRUE}
  NoHits = {FALSE}
  HaltLag = 2
  Boot = 0
  Toggles = 0
  ResetsCache = {TRUE}
SPECIFICATION Spec
INVARIANTS TypeOK ReadsLatest OneAtATime NoStaleDtack Settled
