SPECIFICATION CardSpec
CONSTANTS
  a = a
  b = b
  c = c
  x = x
  y = y
  Session = {a, b}
  Connection = {x}
  ConnectionOf <- MCConnectionOf
  ConnectionLimit <- MCOne
  MaxConcurrent = 2
  QueueDepth = 1
  Desktop = {}
  Call = {c1}
  NoSession = NoSession
  NoCard = NoCard
  MaxRun = 3
  MaxMessage = 3
SYMMETRY Chats
INVARIANT SlotLimits
INVARIANT WorkConserving
 
PROPERTY ResumeFirst
PROPERTY ImplementsRunLife
CHECK_DEADLOCK FALSE
