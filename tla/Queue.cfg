SPECIFICATION QueueSpec
CONSTANTS
  a = a
  b = b
  c = c
  x = x
  y = y
  Session = {a, b}
  Connection = {x}
  ConnectionOf <- MCConnectionOf
  ConnectionLimit <- MCOne
  MaxConcurrent = 2
  QueueDepth = 0
  Desktop = {}
  Call = {}
  NoSession = NoSession
  NoCard = NoCard
  MaxRun = 4
  MaxMessage = 4
SYMMETRY Chats
INVARIANT TypeOK
INVARIANT StoppedNeverRuns
INVARIANT NothingStranded
PROPERTY FirstComeFirstServed
PROPERTY LateRunFenced
CHECK_DEADLOCK FALSE
