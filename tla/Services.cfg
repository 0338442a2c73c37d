SPECIFICATION ServicesSpec
CONSTANTS
    Job = {j1}
    Lapsing = {}
    CronRepeat = {0, 1}
    Starter = {s1}
    MaxRestart = 1
    Checker = {c1, c2}
    Installer = {i1, i2}
    MaxSave = 1
    Saver = {v1}
    Recorder = {r1}
    BatchEventCap = 2
    MaxEvent = 2
    MaxSender = 2
    MaxTurn = 2
    Item = {1}
    MaxGo = 2
    MaxEdit = 1
INVARIANTS OperatorDecides  LaunchedWasVetted   
PROPERTIES  SaveReturns WorkerReturns
CHECK_DEADLOCK FALSE
