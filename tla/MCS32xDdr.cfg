CONSTANTS
  SdrWords = 4
  FbWords = 2
  Data = {0, 1}
  LpBeats = 2
  WfSize = 4
  TelBeats = 1
  First = {1}
  Workloads <- MCWorkloads
SPECIFICATION Spec
INVARIANTS TypeOK ReadsLatest WritesLand LineWhole
