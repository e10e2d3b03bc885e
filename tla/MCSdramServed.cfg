CONSTANTS
  Ports = {0, 1, 2}
  PrgPort = 2
  Posted = {2}
  Prompt = {2}
  Addr = {0}
  Lanes <- MCLanes
  Byte = {0}
  Quiet <- MCQuiet
  RfsCnt = 22
  RstTop = 3
  RstPre = 2
  RstLdm = 1
  PrgFirst = {TRUE, FALSE}
  OpsOf <- ReadOps
  InitFalls = 0
SPECIFICATION Spec

PROPERTIES FirstTwoServed
