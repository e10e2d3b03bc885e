SPECIFICATION Spec
CONSTANTS
  MaxProcs = 4
  MaxFaults = 1
  Targets <- MCTargets
  Lines <- MCLines
INVARIANTS
  TypeOK
  RightRow
PROPERTIES
  OneDaemon
  Drained
CHECK_DEADLOCK FALSE
