CONSTANTS
  SdrWords = 2
  FbWords = 2
  Data = {0, 1}
  LpBeats = 2
  WfSize = 4
  TelBeats = 1
  First = {1}
  Workloads <- Few
SPECIFICATION Spec
PROPERTY Served
