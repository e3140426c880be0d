SPECIFICATION Spec
CONSTANTS
  Tasks = {counter, snake}
  CountMod = 8
  MaxSaves = 4
  MaxLaunches = 3
  MaxErrors = 1
  MaxCrashes = 2
  MaxReadFaults = 0
SYMMETRY TaskSymmetry
INVARIANTS BestIsRight NoResurrectionDespiteCrashes LoadRestoresAll
