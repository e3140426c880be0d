SPECIFICATION Spec
CONSTANTS
  LineMax = 1
  HistMax = 1
  PromptLen = 2
  SdQueueCap = 2
  MaxBlocks = 2
  Inputs <- SomeInputs
  Blocks = 3
  SeqWrap = 6
  PendingCap = 2
  Mailbox = 2
  MaxSnaps = 2
  MaxBoots = 2
  MaxFaults = 1
CHECK_DEADLOCK FALSE
INVARIANTS RingsSound SdSound
PROPERTY ReplayRebuilds
