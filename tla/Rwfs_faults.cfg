SPECIFICATION Spec
CONSTANTS
  Names = {f, g, h}
  Payloads <- MCPayloads
  DataBlocks = 8
  EntriesPerBlock = 1
  IndexBlocks = 2
  EntryCount = 3
  NoName = "none"
  OldGenerations = {1, 2}
  MaxWriteFaults = 2
  MaxReadFaults = 2
SYMMETRY NameSymmetry
INVARIANTS StoreSound AtomicSaveOutsideGap
PROPERTY AppendOnly
