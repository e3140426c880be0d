SPECIFICATION FairSpec
CONSTANTS
  N = 3
  Prio <- MCPrio
  Capacity <- MCCapacity
  Events = {"e1"}
  NoEvent = "none"
  Isr = {"usart6", "systick"}
  Urgency <- MCUrgency
  Targets <- MCTargets
  MaxOps = 1
INVARIANTS TypeOK ReadyHasWork PickedCanRun PickFindsOne StrictPriority
PROPERTY TopPriorityServed
