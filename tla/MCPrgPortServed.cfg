CONSTANTS
  Addr = {0, 1}
  Lanes = {"l"}
  Byte = {0}
  Quiet <- MCQuiet
  Lines = 1
  IndexOf <- SameLine
  Contents <- Cleared
  Protected = {1}
  Loads <- SubLoads
  PostWrites = {TRUE}
  EarlyDtack = FALSE
  EnFirst = {TRUE}
  NoHits = {FALSE}
  HaltLag = 2
  Boot = 0
  Toggles = 1
  ResetsCache = {TRUE}
SPECIFICATION Spec
PROPERTIES SubServed
