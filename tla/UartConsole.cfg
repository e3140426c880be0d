SPECIFICATION Spec
CONSTANTS
  LineMax = 2
  HistMax = 1
  PromptLen = 2
  Inputs <- SomeInputs
  RxCap = 1
  TxCap = 1
  Slots = 2
  ConsoleQ = 2
  TerminalQ = 3
  Mailbox = 1
  OutputLen = 1
  MaxPrograms = 1
  MaxResumes = 1
CHECK_DEADLOCK FALSE
INVARIANTS ReceiveSound OutputInOrder LinesAsTyped
PROPERTIES ConsoleDrains InputIsRead RebootHappens
