SPECIFICATION TurnSpec
CONSTANTS
    Kind = {"read", "bad"}
    MaxTurn = 2
    MaxCalls = 2
    MaxMore = 1
    MaxAgain = 1
    HasFallback = TRUE
    RepeatsIds = TRUE
CHECK_DEADLOCK FALSE
  
PROPERTIES RunEnds
