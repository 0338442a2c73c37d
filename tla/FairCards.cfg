SPECIFICATION FairCardSpec
CONSTANTS
  a = a
  b = b
  c = c
  x = x
  y = y
  Session = {a, b}
  Connection = {x}
  ConnectionOf <- MCConnectionOf
  ConnectionLimit <- MCOne
  MaxConcurrent = 2
  QueueDepth = 0
  Desktop = {}
  Call = {c1}
  NoSession = NoSession
  NoCard = NoCard
  MaxRun = 2
  MaxMessage = 2
PROPERTY ServesEveryRun
PROPERTY StopTakesEffect
CHECK_DEADLOCK FALSE
