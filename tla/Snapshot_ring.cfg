SPECIFICATION SlotsSpec
CONSTANTS
  SlotCount = 3
  Regions = 2
  RegionBlocks = 1
  MaxSaves = 6
  MaxWriteFaults = 3
  MaxReadFaults = 0
INVARIANTS ImagesSound RecentIsNewest Retention PublishedIsDurable
