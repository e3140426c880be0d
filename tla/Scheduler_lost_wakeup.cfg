SPECIFICATION Spec
CONSTANTS
  N = 2
  Prio <- MCPrio2
  Capacity <- MCCapacity2
  Events = {"e1"}
  NoEvent = "none"
  Isr = {"usart6", "systick"}
  Urgency <- MCUrgency
  Targets <- MCTargets2
  MaxOps = 1
INVARIANT IdleMeansNoWork
