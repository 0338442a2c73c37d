SPECIFICATION Spec
CONSTANTS
  Reasoning = {1}
  MaxTurn = 2
  MaxMessage = 2
  MaxDelta = 1
  MaxCrash = 1
  MaxFault = 0
INVARIANT InterruptedTextKept
CHECK_DEADLOCK FALSE
