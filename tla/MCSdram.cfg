CONSTANTS
  Ports = {0, 2}
  PrgPort = 2
  Posted = {2}
  Prompt = {2}
  Addr = {0}
  Lanes <- MCLanes
  Byte = {0, 1}
  Quiet <- MCQuiet
  RfsCnt = 9
  RstTop = 3
  RstPre = 2
  RstLdm = 1
  PrgFirst = {TRUE, FALSE}
  OpsOf <- MCOps
  InitFalls = 1
SPECIFICATION Spec
INVARIANTS TypeOK ExactlyOnce SampleCorrect RefreshBound
PROPERTIES IsPortMemory
