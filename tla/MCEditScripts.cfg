SPECIFICATION Spec
CONSTANTS
  Script <- Phases
  Families <- MCFamilies
  MaxRuns = 2
  MaxDeaths = 1
INVARIANTS
  TypeOK
  BeatsWhole
  NoDangling
  Wired
  BeatOnWhole
