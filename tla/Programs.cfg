SPECIFICATION Spec
CONSTANTS
  WordMod = 4
  BoardW = 4
  BoardH = 2
  FoodStarts = {0}
  Parts = 1
  Lines <- AllLines
  Keys <- FewKeys
  QueueCap = 2
  MailboxCap = 2
  Timers <- AllTimers
  TypeAhead = TRUE
  MaxKeysAhead = 1
  MaxLines = 3
  MaxSnapshots = 1
  MaxBoots = 1
CHECK_DEADLOCK FALSE
VIEW LiveView
INVARIANTS CommandsSound SnapshotTriggerLive NoStaleGameOwner RestoredSound
