SPECIFICATION TurnSpec
CONSTANTS
    Kind = {"read", "write", "shell", "bad"}
    MaxTurn = 2
    MaxCalls = 2
    MaxMore = 0
    MaxAgain = 0
    HasFallback = FALSE
    RepeatsIds = FALSE
INVARIANT AbortNamesWrites
CHECK_DEADLOCK FALSE
