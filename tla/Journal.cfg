SPECIFICATION Spec
CONSTANTS
  Reasoning = {1}
  MaxTurn = 1
  MaxMessage = 3
  MaxDelta = 1
  MaxCrash = 2
  MaxFault = 1
INVARIANTS CompletedTextKept 
 
CHECK_DEADLOCK FALSE
