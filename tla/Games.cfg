SPECIFICATION FairSpec
CONSTANTS
  WordMod = 8
  BoardW = 4
  BoardH = 2
  FoodStarts = {1}
  Parts = 2
  Lines <- GameLines
  Keys <- GameKeys
  QueueCap = 8
  MailboxCap = 1
  Timers <- ProgramTimers
  TypeAhead = FALSE
  MaxKeysAhead = 1
  MaxLines = 2
  MaxSnapshots = 0
  MaxBoots = 0
CHECK_DEADLOCK FALSE
INVARIANTS SnakeSound LineSound StdinSound
PROPERTIES SnakeMoves LineOpEnds CounterEnds
