SPECIFICATION FairSpec
CONSTANTS
    Request = {r1}
    Unit = {u1}
    IntentLimit = 1
    PendingLimit = 2
    HandledLimit = 1
    MaxRace = 1
    MaxCut = 1
    MaxLapse = 1
INVARIANTS ExecutedOnce AnswerKept
PROPERTIES PhoneReconnects RequestRuns
CHECK_DEADLOCK FALSE
