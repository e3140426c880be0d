SPECIFICATION Spec
CONSTANTS
  card = 65536
  SlotChoices = {2}
  GenMax = 6
  PayloadBlocks = 200
  Intervals = {"off"}
  MaxSnapshots = 3
  MaxCkpts = 1
  MaxBoots = 3
  MaxFaults = 2
CHECK_DEADLOCK FALSE
INVARIANTS TableSound StartSound
PROPERTY RegisterSpec
