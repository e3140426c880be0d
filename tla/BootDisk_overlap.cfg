SPECIFICATION Spec
CONSTANTS
  card = 65536
  SlotChoices = {2}
  GenMax = 20
  PayloadBlocks = 200
  Intervals = {"off"}
  MaxSnapshots = 4
  MaxCkpts = 1
  MaxBoots = 4
  MaxFaults = 0
INVARIANT AnnouncedIsRestorable
CHECK_DEADLOCK FALSE
